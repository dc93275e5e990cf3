----------------------------- MODULE RateLimits -----------------------------
(***************************************************************************)
(* Rate limits (src/internal/ratelimit, src/internal/queue redis.go): a    *)
(* sliding window kept in Redis by a script that every replica runs with   *)
(* its own clock, and a fixed window per process for as long as Redis does *)
(* not answer.  A request is counted against its rules one after another.  *)
(* Time is the age of hits.                                                *)
(***************************************************************************)
EXTENDS Naturals, FiniteSets

CONSTANTS
  Process,          (* replicas of the API, from boot to exit              *)
  Rules,            (* how many rules a request is counted against         *)
  Limit,            (* hits a rule allows                                  *)
  Window,           (* in how many ticks                                   *)
  Skew              (* how far a replica's clock may be ahead, in ticks    *)

ASSUME RateAssumption ==
  /\ Rules \in Nat \ {0} /\ Limit \in Nat \ {0} /\ Window \in Nat \ {0}
  /\ Skew \in 0..(Window - 1)
  /\ "redis" \notin Process

VARIABLES
  ahead,            (* how far each replica's clock is ahead               *)
  log,              (* Redis: the sorted set of each rule                  *)
  local,            (* the window each process keeps of each rule          *)
  check,            (* the rule each process counts a request against, or 0 *)
  counted           (* history: hits counted, by rule and by whom          *)

rateVars == <<ahead, log, local, check, counted>>

Rule == 1..Rules
Clock == 0..Skew
Age == 0..(Window + Skew - 1)
Redis == "redis"
Counter == Process \cup {Redis}

(* A member of a sorted set: its score is the age and the clock of its writer,
   its name a number here, so that no two are the same. *)
Hit == [age : Age, clock : Clock, nth : Nat]

(* A hit that is counted now, beside those of S. *)
NewHit(S, clock) ==
  LET Nth(n) == [age |-> 0, clock |-> clock, nth |-> n]
  IN  Nth(CHOOSE n \in 0..Cardinality(S) : Nth(n) \notin S)

RateTypeOK ==
  /\ ahead \in [Process -> Clock]
  /\ log \in [Rule -> [members : SUBSET Hit, idle : 0..Window]]
  /\ local \in [Process -> [Rule -> [age : 0..Window, count : 0..Limit]]]
  /\ check \in [Process -> 0..Rules]
  /\ counted \in [Rule -> [Counter -> SUBSET Hit]]

(* A window that is over and no window at all are the same; and so are a set
   that has expired and none. *)
Over == [age |-> Window, count |-> 0]
Expired == [members |-> {}, idle |-> Window]

RateInit ==
  /\ ahead \in [Process -> Clock]
  /\ log = [r \in Rule |-> Expired]
  /\ local = [p \in Process |-> [r \in Rule |-> Over]]
  /\ check = [p \in Process |-> 0]
  /\ counted = [r \in Rule |-> [c \in Counter |-> {}]]
-----------------------------------------------------------------------------
(* What is older than any window is forgotten. *)
Aged(S) == {[h EXCEPT !.age = @ + 1] : h \in {g \in S : g.age + 1 \in Age}}

(* PEXPIRE: a set that no script has run on for a window is deleted. *)
AgedLog(r) == IF log[r].idle + 1 >= Window THEN Expired
              ELSE [members |-> Aged(log[r].members), idle |-> log[r].idle + 1]

(* Everything gets older. *)
RateTick ==
  /\ log' = [r \in Rule |-> AgedLog(r)]
  /\ local' = [p \in Process |-> [r \in Rule |->
                 IF local[p][r].age + 1 >= Window THEN Over
                 ELSE [local[p][r] EXCEPT !.age = @ + 1]]]
  /\ counted' = [r \in Rule |-> [c \in Counter |-> Aged(counted[r][c])]]
  /\ UNCHANGED <<ahead, check>>

(* Check begins: a request of some caller, on process p. *)
CheckBegins(p) == /\ check[p] = 0
              /\ check' = [check EXCEPT ![p] = 1]
              /\ UNCHANGED <<ahead, log, local, counted>>

(* Mutation: hits are pruned by half the window. *)
PrunedByHalf(p, r) ==
  {h \in log[r].members : 2 * h.age + ahead[p] < Window + h.clock}

(* ZREMRANGEBYSCORE -inf (now - window): now is p's clock, a score its writer's. *)
Pruned(p, r) == {h \in log[r].members : h.age + ahead[p] < Window + h.clock}

Room(p, r) == Cardinality(Pruned(p, r)) < Limit

(* Mutation: a refused hit is kept as well. *)
ScriptKeepsAll(p, r) ==
  log' = [log EXCEPT ![r] =
    [members |-> Pruned(p, r) \cup {NewHit(log[r].members, ahead[p])}, idle |-> 0]]

(* The script: prune, count, add a member only if there is room. *)
Script(p, r) ==
  log' = [log EXCEPT ![r] =
    [members |-> IF Room(p, r) THEN Pruned(p, r) \cup {NewHit(log[r].members, ahead[p])}
                 ELSE Pruned(p, r),
     idle |-> 0]]

(* What p's script and p itself have counted. *)
Counts(p, r, scripted, hit) == counted' = [counted EXCEPT
  ![r][Redis] = @ \cup (IF scripted THEN {NewHit(log[r].members, ahead[p])} ELSE {}),
  ![r][p] = @ \cup (IF hit THEN {NewHit(@, ahead[p])} ELSE {})]

(* The loop of Check: whatever the rule says, the next one counts as well. *)
Goes(p) == check' = [check EXCEPT ![p] = IF @ = Rules THEN 0 ELSE @ + 1]

(* SlidingWindow, answered. *)
Slide(p) ==
  LET r == check[p] IN
  /\ r # 0
  /\ Script(p, r)
  /\ Counts(p, r, Room(p, r), FALSE)
  /\ Goes(p)
  /\ UNCHANGED <<ahead, local>>

Fits(p, r) == local[p][r].count < Limit

(* hit, of the process' own windows: one that is over is replaced. *)
HitLocal(p, r) == local' = [local EXCEPT ![p][r] =
  IF @ = Over THEN [age |-> 0, count |-> 1]
  ELSE IF Fits(p, r) THEN [age |-> @.age, count |-> @.count + 1] ELSE @]

(* SlidingWindow fails, and may have run all the same: the process counts. *)
FallBack(p, ran) ==
  LET r == check[p] IN
  /\ r # 0
  /\ IF ran THEN Script(p, r) ELSE UNCHANGED log
  /\ HitLocal(p, r)
  /\ Counts(p, r, ran /\ Room(p, r), Fits(p, r))
  /\ Goes(p)
  /\ UNCHANGED ahead
-----------------------------------------------------------------------------
RateNext == \/ RateTick
        \/ \E p \in Process :
             CheckBegins(p) \/ Slide(p) \/ \E ran \in BOOLEAN : FallBack(p, ran)

RateSpec == RateInit /\ [][RateNext]_rateVars
-----------------------------------------------------------------------------
(***************************************************************************)
(* BR-014's limits hold in every trailing window, not only in aligned      *)
(* ones: Redis counts at most Limit hits in it, short of what the clocks   *)
(* of the replicas differ by, and while Redis is down a process counts     *)
(* less than twice the limit: an outage loosens the limits and bounds how. *)
(***************************************************************************)
NeverOver ==
  \A r \in Rule :
    /\ Cardinality({h \in counted[r][Redis] : h.age < Window - Skew}) <= Limit
    /\ \A p \in Process :
         Cardinality({h \in counted[r][p] : h.age < Window}) < 2 * Limit

(***************************************************************************)
(* "A rejected hit is not recorded, so a caller hammering past the limit   *)
(* does not push its own reset further away" (redis.go): a rule refuses    *)
(* only a caller of whom Limit hits were counted in the window, give or    *)
(* take the clocks, by whoever refuses.                                    *)
(***************************************************************************)
RefusedFull ==
  \A r \in Rule, p \in Process :
    /\ ~Room(p, r) => Cardinality({h \in counted[r][Redis] : h.age < Window + Skew}) >= Limit
    /\ ~Fits(p, r) => Cardinality({h \in counted[r][p] : h.age < Window}) >= Limit

(* What BR-014 promises of its limits, and redis.go of refusals. *)
LimitsHold == NeverOver /\ RefusedFull
=============================================================================
