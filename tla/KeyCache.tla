------------------------------ MODULE KeyCache ------------------------------
(***************************************************************************)
(* How the storefront finds the shop of a request (src/internal/storefront *)
(* keys.go): by its API key, or on the hosted website by the shop's slug,  *)
(* behind a cache of each process.  A miss is a look at the cache, a query *)
(* and a store, with no lock held across them, so requests overlap each    *)
(* other and the owner's edits (src/internal/team/api_keys.go).  The       *)
(* module follows one entry, a key or a slug.  Time is the age of things.  *)
(***************************************************************************)
EXTENDS Naturals

CONSTANTS
  Replica,          (* replicas of the API                                 *)
  Request,          (* requests under way, over all replicas               *)
  Origin,           (* origins a key may be bound to                       *)
  Shop,             (* shops that may hold the slug                        *)
  TTL,              (* KeyCacheTTL, in ticks                               *)
  Slow,             (* ticks from a query's snapshot to its store, at most *)
  Revoked, Missing  (* a revoked key; a slug no active shop holds          *)

ASSUME KeyCacheAssumption ==
  /\ TTL \in Nat \ {0} /\ Slow \in Nat
  /\ Revoked \notin Origin \cup Shop \cup {Missing}
  /\ Missing \notin Origin \cup Shop

VARIABLES
  entry,            (* "key" or "slug": what the behaviour is about        *)
  row,              (* what the database says of it                        *)
  gone,             (* history: how long ago it last said each other thing *)
  cache,            (* the map of each process                             *)
  req               (* requests                                            *)

keyVars == <<entry, row, gone, cache, req>>

Value == Origin \cup Shop \cup {Revoked, Missing}

(* What the database may say; what the cache may keep: a key that exists, a
   revoked one included, and a shop. *)
Said == IF entry = "key" THEN Origin \cup {Revoked} ELSE Shop \cup {Missing}
Kept == Said \ {Missing}

(* The longest that may pass between the database and an answer. *)
Stale == TTL + Slow

NoEntry == [at |-> "none"]

KeyTypeOK ==
  /\ entry \in {"key", "slug"}
  /\ row \in Said
  /\ gone \in [Value -> 0..Stale + 1]
  /\ cache \in [Replica -> {NoEntry} \cup [at : {"kept"}, value : Kept, age : 0..TTL]]
  /\ req \in [Request -> {NoEntry}
       \cup [at : {"miss"}, process : Replica]
       \cup [at : {"read"}, process : Replica, value : Said, age : 0..Slow]
       \cup [at : {"answered"}, value : Said]]

KeyInit ==
  /\ entry \in {"key", "slug"}
  /\ row \in Said \ {Revoked, Missing}
  /\ gone = [v \in Value |-> IF v = row THEN 0 ELSE Stale + 1]
  /\ cache = [p \in Replica |-> NoEntry]
  /\ req = [r \in Request |-> NoEntry]
-----------------------------------------------------------------------------
Older(age, most) == IF age < most THEN age + 1 ELSE most

(* Time passes; a query that was answered is stored within Slow. *)
KeyTick ==
  /\ \A r \in Request : req[r].at = "read" => req[r].age < Slow
  /\ gone' = [v \in Value |-> IF v = row THEN 0 ELSE Older(gone[v], Stale + 1)]
  /\ cache' = [p \in Replica |-> IF cache[p] = NoEntry THEN NoEntry
                                 ELSE [cache[p] EXCEPT !.age = Older(@, TTL)]]
  /\ req' = [r \in Request |-> IF req[r].at # "read" THEN req[r]
                               ELSE [req[r] EXCEPT !.age = @ + 1]]
  /\ UNCHANGED <<entry, row>>

Becomes(v) == /\ v # row
              /\ row' = v
              /\ gone' = [gone EXCEPT ![row] = 0, ![v] = 0]
              /\ UNCHANGED <<entry, cache, req>>

(* UpdateAPIKey moves a live key to another origin. *)
UpdateAPIKey == /\ entry = "key" /\ row # Revoked
                /\ \E o \in Origin : Becomes(o)

RevokeAPIKey == entry = "key" /\ Becomes(Revoked)

(* A shop gives the slug up or is suspended, and another may take it. *)
MoveSlug == entry = "slug" /\ \E s \in Shop \cup {Missing} : Becomes(s)
-----------------------------------------------------------------------------
Step(r, rec) == req' = [req EXCEPT ![r] = rec]

Answer(r, v) == Step(r, [at |-> "answered", value |-> v])

(* Mutation: an entry is good for one tick too many. *)
UsableStill(p) == cache[p] # NoEntry

Usable(p) == cache[p] # NoEntry /\ cache[p].age < TTL

(* resolve and shop, when the cache answers. *)
CacheHit(r, p) == /\ req[r] = NoEntry /\ Usable(p)
             /\ Answer(r, cache[p].value)
             /\ UNCHANGED <<entry, row, gone, cache>>

(* resolve and shop, when it does not: the mutex is let go. *)
CacheMiss(r, p) == /\ req[r] = NoEntry /\ ~Usable(p)
              /\ Step(r, [at |-> "miss", process |-> p])
              /\ UNCHANGED <<entry, row, gone, cache>>

(* ResolveAPIKey and ActiveTenantBySlug, as the statement sees the row. *)
Query(r) == /\ req[r].at = "miss"
            /\ Step(r, [at |-> "read", process |-> req[r].process,
                        value |-> row, age |-> 0])
            /\ UNCHANGED <<entry, row, gone, cache>>

(* The rest of resolve and shop: the entry, whatever was stored meanwhile, its
   age counted from now; a slug nobody holds is not kept. *)
Store(r) ==
  /\ req[r].at = "read"
  /\ cache' = IF req[r].value \notin Kept THEN cache
              ELSE [cache EXCEPT ![req[r].process] =
                      [at |-> "kept", value |-> req[r].value, age |-> 0]]
  /\ Answer(r, req[r].value)
  /\ UNCHANGED <<entry, row, gone>>

RequestEnds(r) == /\ req[r].at = "answered"
            /\ Step(r, NoEntry)
            /\ UNCHANGED <<entry, row, gone, cache>>
-----------------------------------------------------------------------------
KeyNext == \/ KeyTick \/ RevokeAPIKey \/ UpdateAPIKey \/ MoveSlug
        \/ \E r \in Request :
             \/ Query(r) \/ Store(r) \/ RequestEnds(r)
             \/ \E p \in Replica : CacheHit(r, p) \/ CacheMiss(r, p)

KeySpec == KeyInit /\ [][KeyNext]_keyVars
-----------------------------------------------------------------------------
(***************************************************************************)
(* "Revoked keys stop working within 60 seconds" (BR-085), and so do an    *)
(* origin a key was moved from and a slug a shop gave up (BR-140): what a  *)
(* request is let through by, the database said no longer ago than the TTL *)
(* and the time its query took, although an older read may be stored over  *)
(* a newer one.                                                            *)
(***************************************************************************)
StaleForTTL ==
  [][\A r \in Request : req[r].at # "answered" /\ req'[r].at = "answered" =>
       gone[req'[r].value] < Stale]_keyVars
=============================================================================
