---------------------------- MODULE EdgesProofs -----------------------------
(***************************************************************************)
(* What the caches of a storefront key and of a shop's slug answer with    *)
(* (KeyCache), how often a mail is sent out (Mails), and how many hits a    *)
(* rule lets through (RateLimits).  A revoked key, an origin moved from and *)
(* a slug given up stop working within the cache's time and a query's, for *)
(* any number of replicas and requests: what a cache keeps, and what a     *)
(* request has read, the database said at most as long ago as its age says. *)
(* A limit holds in every window: Redis knows every hit that no clock may  *)
(* have pruned, and a process every hit of the window it has open.         *)
(***************************************************************************)
EXTENDS KeyCache, Mails, RateLimits, FiniteSetTheorems, TLAPS

(* What is young enough to be answered with was said no longer ago than the
   entry's age and one query; what was read, no longer ago than its age. *)
AgesTell ==
  /\ gone[row] = 0
  /\ \A p \in Replica : cache[p].at = "kept" /\ cache[p].age < TTL =>
       gone[cache[p].value] <= cache[p].age + Slow
  /\ \A r \in Request : req[r].at = "read" => gone[req[r].value] <= req[r].age

KeyInv == KeyTypeOK /\ AgesTell

(* The types the lemmas use, taken out of the records. *)
LEMMA Shapes ==
  ASSUME KeyTypeOK
  PROVE  /\ row \in Value /\ Said \subseteq Value /\ Kept \subseteq Said
         /\ \A v \in Value : gone[v] \in Nat /\ gone[v] <= Stale + 1
         /\ \A p \in Replica : cache[p] = NoEntry \/
              /\ cache[p].at = "kept" /\ cache[p].value \in Kept
              /\ cache[p].age \in Nat /\ cache[p].age <= TTL
              /\ cache[p] = [at |-> "kept", value |-> cache[p].value, age |-> cache[p].age]
         /\ \A r \in Request : req[r].at = "read" =>
              /\ req[r].process \in Replica /\ req[r].value \in Said
              /\ req[r].age \in Nat /\ req[r].age <= Slow
              /\ req[r] = [at |-> "read", process |-> req[r].process,
                           value |-> req[r].value, age |-> req[r].age]
  <1>1. /\ row \in Value /\ Said \subseteq Value /\ Kept \subseteq Said
    BY KeyCacheAssumption DEF KeyTypeOK, Said, Kept, Value
  <1>2. \A v \in Value : gone[v] \in Nat /\ gone[v] <= Stale + 1
    BY KeyCacheAssumption DEF KeyTypeOK, Stale
  <1>3. \A p \in Replica : cache[p] \in {NoEntry} \cup [at : {"kept"}, value : Kept, age : 0..TTL]
    BY DEF KeyTypeOK
  <1>4. \A p \in Replica : cache[p] = NoEntry \/
          /\ cache[p].at = "kept" /\ cache[p].value \in Kept
          /\ cache[p].age \in Nat /\ cache[p].age <= TTL
          /\ cache[p] = [at |-> "kept", value |-> cache[p].value, age |-> cache[p].age]
    <2> TAKE p \in Replica
    <2>1. CASE cache[p] \in [at : {"kept"}, value : Kept, age : 0..TTL]
      BY <2>1, KeyCacheAssumption
    <2> QED BY <1>3, <2>1
  <1>5. \A r \in Request : req[r] \in {NoEntry}
          \cup [at : {"miss"}, process : Replica]
          \cup [at : {"read"}, process : Replica, value : Said, age : 0..Slow]
          \cup [at : {"answered"}, value : Said]
    BY DEF KeyTypeOK
  <1>6. \A r \in Request : req[r].at = "read" =>
          req[r] \in [at : {"read"}, process : Replica, value : Said, age : 0..Slow]
    BY <1>5 DEF NoEntry
  <1>7. \A r \in Request : req[r].at = "read" =>
              /\ req[r].process \in Replica /\ req[r].value \in Said
              /\ req[r].age \in Nat /\ req[r].age <= Slow
              /\ req[r] = [at |-> "read", process |-> req[r].process,
                           value |-> req[r].value, age |-> req[r].age]
    BY <1>6, KeyCacheAssumption
  <1> QED BY <1>1, <1>2, <1>4, <1>7

(* A step of one request, to a record of the type. *)
LEMMA StepTypes ==
  ASSUME KeyTypeOK, NEW r \in Request, NEW rec, Step(r, rec), entry' = entry,
         \/ rec = NoEntry
         \/ rec \in [at : {"miss"}, process : Replica]
         \/ rec \in [at : {"read"}, process : Replica, value : Said, age : 0..Slow]
         \/ rec \in [at : {"answered"}, value : Said]
  PROVE  req' \in [Request -> {NoEntry}
       \cup [at : {"miss"}, process : Replica]
       \cup [at : {"read"}, process : Replica, value : Said', age : 0..Slow]
       \cup [at : {"answered"}, value : Said']]
  <1>1. Said' = Said
    BY DEF Said
  <1> DEFINE S == {NoEntry} \cup [at : {"miss"}, process : Replica]
       \cup [at : {"read"}, process : Replica, value : Said, age : 0..Slow]
       \cup [at : {"answered"}, value : Said]
  <1>2. req \in [Request -> S] /\ rec \in S
    BY DEF KeyTypeOK
  <1>3. req' \in [Request -> S]
    <2> HIDE DEF S
    <2> QED BY <1>2 DEF Step
  <1> QED BY <1>1, <1>3

LEMMA TypeStep ==
  ASSUME KeyInv, [KeyNext]_keyVars
  PROVE  KeyTypeOK'
  <1> USE DEF KeyInv
  <1> DEFINE Ages == 0..Stale + 1
  <1>0. /\ entry \in {"key", "slug"} /\ row \in Said /\ gone \in [Value -> Ages]
        /\ 0 \in Ages /\ 0 \in 0..TTL /\ 0 \in 0..Slow /\ TTL \in Nat /\ Slow \in Nat
        /\ Revoked \notin Origin \cup Shop \cup {Missing}
        /\ Missing \notin Origin \cup Shop
    BY KeyCacheAssumption DEF KeyTypeOK, Stale
  <1>1. CASE KeyTick
    <2>1. gone' \in [Value -> Ages]
      <3>1. \A a \in Ages : Older(a, Stale + 1) \in Ages
        BY <1>0 DEF Older, Stale
      <3> QED BY <1>0, <1>1, <3>1 DEF KeyTick
    <2>2. cache' \in [Replica -> {NoEntry} \cup [at : {"kept"}, value : Kept, age : 0..TTL]]
      <3>1. \A a \in 0..TTL : Older(a, TTL) \in 0..TTL
        BY <1>0 DEF Older
      <3>2. \A p \in Replica : cache[p] # NoEntry =>
              [cache[p] EXCEPT !.age = Older(@, TTL)] \in [at : {"kept"}, value : Kept, age : 0..TTL]
        BY <3>1, Shapes DEF KeyTypeOK
      <3> QED BY <1>1, <3>2 DEF KeyTick
    <2>3. req' \in [Request -> {NoEntry}
            \cup [at : {"miss"}, process : Replica]
            \cup [at : {"read"}, process : Replica, value : Said, age : 0..Slow]
            \cup [at : {"answered"}, value : Said]]
      <3>1. \A r \in Request : req[r].at = "read" => [req[r] EXCEPT !.age = @ + 1]
              \in [at : {"read"}, process : Replica, value : Said, age : 0..Slow]
        <4> SUFFICES ASSUME NEW r \in Request, req[r].at = "read"
                     PROVE  [req[r] EXCEPT !.age = @ + 1]
                       \in [at : {"read"}, process : Replica, value : Said, age : 0..Slow]
          OBVIOUS
        <4>1. /\ req[r].process \in Replica /\ req[r].value \in Said /\ req[r].age \in Nat
              /\ req[r] = [at |-> "read", process |-> req[r].process,
                           value |-> req[r].value, age |-> req[r].age]
          BY Shapes
        <4>2. req[r].age < Slow
          BY <1>1 DEF KeyTick
        <4>3. req[r].age + 1 \in 0..Slow
          BY <1>0, <4>1, <4>2
        <4>4. [req[r] EXCEPT !.age = @ + 1]
                = [at |-> "read", process |-> req[r].process,
                   value |-> req[r].value, age |-> req[r].age + 1]
          BY <4>1
        <4> QED BY <4>1, <4>3, <4>4
      <3> QED BY <1>1, <3>1 DEF KeyTick, KeyTypeOK
    <2> QED BY <1>0, <1>1, <2>1, <2>2, <2>3 DEF KeyTick, KeyTypeOK, Said, Kept, Stale
  <1>2. ASSUME NEW v \in Said, Becomes(v) PROVE KeyTypeOK'
    <2>1. gone' \in [Value -> Ages]
      BY <1>0, <1>2 DEF Becomes
    <2> QED BY <1>0, <1>2, <2>1 DEF Becomes, KeyTypeOK, Said, Kept, Stale
  <1>3. ASSUME NEW r \in Request, NEW rec, Step(r, rec), UNCHANGED <<entry, row, gone, cache>>,
               \/ rec = NoEntry
               \/ rec \in [at : {"miss"}, process : Replica]
               \/ rec \in [at : {"read"}, process : Replica, value : Said, age : 0..Slow]
               \/ rec \in [at : {"answered"}, value : Said]
        PROVE  KeyTypeOK'
    <2>1. Said' = Said /\ Kept' = Kept
      BY <1>3 DEF Said, Kept
    <2> QED BY <1>3, <2>1, StepTypes DEF KeyTypeOK, Stale
  <1>4. ASSUME NEW r \in Request, Store(r) PROVE KeyTypeOK'
    <2>1. Said' = Said /\ Kept' = Kept
      BY <1>4 DEF Store, Said, Kept
    <2>2. req[r].value \in Said /\ req[r].process \in Replica
      BY <1>4, Shapes DEF Store
    <2>3. cache' \in [Replica -> {NoEntry} \cup [at : {"kept"}, value : Kept, age : 0..TTL]]
      <3>1. CASE req[r].value \notin Kept
        BY <1>4, <3>1 DEF Store, KeyTypeOK
      <3>2. CASE req[r].value \in Kept
        <4>1. [at |-> "kept", value |-> req[r].value, age |-> 0]
                \in [at : {"kept"}, value : Kept, age : 0..TTL]
          BY <1>0, <3>2
        <4> QED BY <1>4, <3>2, <4>1 DEF Store, KeyTypeOK
      <3> QED BY <3>1, <3>2
    <2>4. [at |-> "answered", value |-> req[r].value] \in [at : {"answered"}, value : Said]
      BY <2>2
    <2> QED BY <1>4, <2>1, <2>3, <2>4, StepTypes DEF Store, Answer, KeyTypeOK, Stale
  <1>5. ASSUME NEW r \in Request, NEW p \in Replica, CacheHit(r, p) PROVE KeyTypeOK'
    <2>1. cache[p].value \in Said
      BY <1>5, Shapes DEF CacheHit, Usable
    <2> QED BY <1>3, <1>5, <2>1 DEF CacheHit, Answer
  <1>6. ASSUME NEW r \in Request, NEW p \in Replica, CacheMiss(r, p) PROVE KeyTypeOK'
    BY <1>3, <1>6 DEF CacheMiss
  <1>7. ASSUME NEW r \in Request, Query(r) PROVE KeyTypeOK'
    <2>1. req[r].process \in Replica
      BY <1>7 DEF Query, KeyTypeOK, NoEntry
    <2> QED BY <1>0, <1>3, <1>7, <2>1 DEF Query
  <1>8. ASSUME NEW r \in Request, RequestEnds(r) PROVE KeyTypeOK'
    BY <1>3, <1>8 DEF RequestEnds
  <1>9. CASE RevokeAPIKey
    BY <1>2, <1>9 DEF RevokeAPIKey, Said
  <1>10. CASE UpdateAPIKey
    BY <1>2, <1>10 DEF UpdateAPIKey, Said
  <1>11. CASE MoveSlug
    BY <1>0, <1>2, <1>11 DEF MoveSlug, Said
  <1>12. CASE UNCHANGED keyVars
    BY <1>12 DEF keyVars, KeyTypeOK, Said, Kept, Stale
  <1> QED BY <1>1, <1>4, <1>5, <1>6, <1>7, <1>8, <1>9, <1>10, <1>11, <1>12 DEF KeyNext

LEMMA AgesStep ==
  ASSUME KeyInv, [KeyNext]_keyVars
  PROVE  AgesTell'
  <1> USE DEF KeyInv
  <1>0. /\ row \in Value /\ TTL \in Nat /\ Slow \in Nat /\ Stale \in Nat
        /\ \A v \in Value : gone[v] \in Nat /\ gone[v] <= Stale + 1
        /\ gone \in [Value -> 0..Stale + 1]
    BY Shapes, KeyCacheAssumption DEF Stale, KeyTypeOK
  <1>1. CASE KeyTick
    <2>1. gone'[row'] = 0
      BY <1>0, <1>1 DEF KeyTick
    <2>2. \A v \in Value : gone'[v] \in Nat /\ gone'[v] <= gone[v] + 1
      BY <1>0, <1>1 DEF KeyTick, Older
    <2>3. ASSUME NEW p \in Replica, cache'[p].at = "kept", cache'[p].age < TTL
          PROVE  gone'[cache'[p].value] <= cache'[p].age + Slow
      <3>1. cache[p] # NoEntry /\ cache'[p] = [cache[p] EXCEPT !.age = Older(@, TTL)]
        BY <1>1, <2>3 DEF KeyTick, NoEntry
      <3>2. /\ cache[p].at = "kept" /\ cache[p].value \in Value /\ cache[p].age \in Nat
            /\ cache[p] = [at |-> "kept", value |-> cache[p].value, age |-> cache[p].age]
        BY <3>1, Shapes
      <3>3. cache'[p].value = cache[p].value /\ cache'[p].age = Older(cache[p].age, TTL)
        BY <3>1, <3>2
      <3>4. cache[p].age < TTL /\ cache'[p].age = cache[p].age + 1
        BY <1>0, <2>3, <3>2, <3>3 DEF Older
      <3>5. gone[cache[p].value] <= cache[p].age + Slow
        BY <3>2, <3>4 DEF AgesTell
      <3> QED BY <1>0, <2>2, <3>2, <3>3, <3>4, <3>5
    <2>4. ASSUME NEW r \in Request, req'[r].at = "read"
          PROVE  gone'[req'[r].value] <= req'[r].age
      <3>1. req[r].at = "read"
        BY <1>1, <2>4 DEF KeyTick
      <3>2. /\ req[r].value \in Value /\ req[r].age \in Nat
            /\ req[r] = [at |-> "read", process |-> req[r].process,
                         value |-> req[r].value, age |-> req[r].age]
        BY <3>1, Shapes
      <3>3. req'[r] = [req[r] EXCEPT !.age = @ + 1]
        BY <1>1, <3>1 DEF KeyTick
      <3>4. req'[r].value = req[r].value /\ req'[r].age = req[r].age + 1
        BY <3>2, <3>3
      <3>5. gone[req[r].value] <= req[r].age
        BY <3>1 DEF AgesTell
      <3> QED BY <1>0, <2>2, <3>2, <3>4, <3>5
    <2> QED BY <2>1, <2>3, <2>4 DEF AgesTell
  <1>2. ASSUME NEW v \in Value, Becomes(v) PROVE AgesTell'
    <2>1. gone'[row'] = 0 /\ \A w \in Value : gone'[w] <= gone[w] /\ gone'[w] \in Nat
      <3>1. gone'[v] = 0 /\ \A w \in Value : gone'[w] = 0 \/ gone'[w] = gone[w]
        BY <1>0, <1>2 DEF Becomes
      <3>2. row' = v
        BY <1>2 DEF Becomes
      <3>3. \A w \in Value : gone[w] \in Nat
        BY <1>0
      <3>4. gone'[row'] = 0
        BY <3>1, <3>2
      <3>5. \A w \in Value : gone'[w] <= gone[w] /\ gone'[w] \in Nat
        BY <3>1, <3>3
      <3> QED BY <3>4, <3>5
    <2>2. \A p \in Replica : cache[p].at = "kept" => cache[p].value \in Value /\ cache[p].age \in Nat
      <3> SUFFICES ASSUME NEW p \in Replica, cache[p].at = "kept"
                   PROVE  cache[p].value \in Value /\ cache[p].age \in Nat
        OBVIOUS
      <3>1. cache[p] # NoEntry
        BY DEF NoEntry
      <3> QED BY <3>1, Shapes
    <2>3. \A r \in Request : req[r].at = "read" => req[r].value \in Value /\ req[r].age \in Nat
      BY Shapes
    <2>4. cache' = cache /\ req' = req
      BY <1>2 DEF Becomes
    <2>5. \A p \in Replica : cache[p].at = "kept" /\ cache[p].age < TTL =>
            gone'[cache[p].value] <= cache[p].age + Slow
      BY <1>0, <2>1, <2>2 DEF AgesTell
    <2>6. \A r \in Request : req[r].at = "read" => gone'[req[r].value] <= req[r].age
      BY <1>0, <2>1, <2>3 DEF AgesTell
    <2> QED BY <2>1, <2>4, <2>5, <2>6 DEF AgesTell
  <1>3. ASSUME NEW r \in Request, NEW rec, Step(r, rec), rec.at # "read",
               UNCHANGED <<row, gone, cache>>
        PROVE  AgesTell'
    <2>1. \A q \in Request : req'[q] = req[q] \/ req'[q] = rec
      BY <1>3 DEF Step, KeyTypeOK
    <2> QED BY <1>3, <2>1 DEF AgesTell
  <1>4. ASSUME NEW r \in Request, Query(r) PROVE AgesTell'
    <2> DEFINE rec == [at |-> "read", process |-> req[r].process, value |-> row, age |-> 0]
    <2>1. \A q \in Request : req'[q] = req[q] \/ req'[q] = rec
      BY <1>4 DEF Query, Step, KeyTypeOK
    <2>2. rec.value = row /\ rec.age = 0
      OBVIOUS
    <2>3. gone[row] <= 0
      BY DEF AgesTell
    <2> HIDE DEF rec
    <2> QED BY <1>4, <2>1, <2>2, <2>3 DEF Query, AgesTell
  <1>5. ASSUME NEW r \in Request, Store(r) PROVE AgesTell'
    <2> DEFINE new == [at |-> "kept", value |-> req[r].value, age |-> 0]
               rec == [at |-> "answered", value |-> req[r].value]
    <2>1. /\ req[r].value \in Value /\ req[r].age \in Nat /\ req[r].age <= Slow
          /\ gone[req[r].value] <= req[r].age
      BY <1>5, Shapes DEF Store, AgesTell
    <2>2. \A q \in Request : req'[q] = req[q] \/ req'[q] = rec
      BY <1>5 DEF Store, Answer, Step, KeyTypeOK
    <2>3. \A p \in Replica : cache'[p] = cache[p] \/ cache'[p] = new
      BY <1>5 DEF Store, KeyTypeOK
    <2>4. rec.at = "answered" /\ new.value = req[r].value /\ new.age = 0
      OBVIOUS
    <2>5. gone[req[r].value] <= 0 + Slow
      BY <1>0, <2>1
    <2>6. row' = row /\ gone' = gone
      BY <1>5 DEF Store
    <2> HIDE DEF new, rec
    <2>7. \A p \in Replica : cache'[p].at = "kept" /\ cache'[p].age < TTL =>
            gone[cache'[p].value] <= cache'[p].age + Slow
      BY <2>3, <2>4, <2>5 DEF AgesTell
    <2>8. \A q \in Request : req'[q].at = "read" => gone[req'[q].value] <= req'[q].age
      BY <2>2, <2>4 DEF AgesTell
    <2> QED BY <2>6, <2>7, <2>8 DEF AgesTell
  <1>6. ASSUME NEW r \in Request, NEW p \in Replica, CacheHit(r, p) \/ CacheMiss(r, p)
        PROVE  AgesTell'
    BY <1>3, <1>6 DEF CacheHit, CacheMiss, Answer
  <1>7. ASSUME NEW r \in Request, RequestEnds(r) PROVE AgesTell'
    BY <1>3, <1>7 DEF RequestEnds, NoEntry
  <1>8. CASE RevokeAPIKey
    BY <1>2, <1>8 DEF RevokeAPIKey, Value
  <1>9. CASE UpdateAPIKey
    BY <1>2, <1>9 DEF UpdateAPIKey, Value
  <1>10. CASE MoveSlug
    BY <1>2, <1>10 DEF MoveSlug, Value
  <1>11. CASE UNCHANGED keyVars
    BY <1>11 DEF keyVars, AgesTell
  <1> QED BY <1>1, <1>4, <1>5, <1>6, <1>7, <1>8, <1>9, <1>10, <1>11 DEF KeyNext

LEMMA InvBegins == KeyInit => KeyInv
  <1> SUFFICES ASSUME KeyInit PROVE KeyInv
    OBVIOUS
  <1>1. row \in Said /\ row \in Value
    BY DEF KeyInit, Said, Value
  <1>2. gone \in [Value -> 0..Stale + 1]
    BY KeyCacheAssumption DEF KeyInit, Stale
  <1>3. KeyTypeOK
    BY <1>1, <1>2 DEF KeyInit, KeyTypeOK
  <1>4. AgesTell
    BY <1>1 DEF KeyInit, AgesTell, NoEntry
  <1> QED BY <1>3, <1>4 DEF KeyInv

(***************************************************************************)
(* Rows, entries and requests keep their types, and the ages tell: for any *)
(* number of replicas, requests, origins and shops (keys.go).              *)
(***************************************************************************)
THEOREM KeyTypesCorrect == KeySpec => []KeyTypeOK
  <1>1. KeyInv /\ [KeyNext]_keyVars => KeyInv'
    BY TypeStep, AgesStep DEF KeyInv
  <1>2. KeyInv => KeyTypeOK
    BY DEF KeyInv
  <1> QED BY InvBegins, <1>1, <1>2, PTL DEF KeySpec

LEMMA AnswersFresh ==
  ASSUME KeyInv, KeyNext,
         NEW r \in Request, req[r].at # "answered", req'[r].at = "answered"
  PROVE  gone[req'[r].value] < Stale
  <1> USE DEF KeyInv
  <1>1. TTL \in Nat /\ TTL > 0 /\ Slow \in Nat /\ Stale = TTL + Slow
    BY KeyCacheAssumption DEF Stale
  <1>2. req'[r] # req[r]
    OBVIOUS
  <1>3. ASSUME KeyTick PROVE FALSE
    <2>1. req[r].at = "read" /\ req'[r] = [req[r] EXCEPT !.age = @ + 1]
      BY <1>2, <1>3 DEF KeyTick
    <2>2. req[r] = [at |-> "read", process |-> req[r].process,
                    value |-> req[r].value, age |-> req[r].age]
      BY <2>1, Shapes
    <2>3. req'[r].at = "read"
      BY <2>1, <2>2
    <2> QED BY <2>3
  <1>4. \A v : ~Becomes(v)
    BY <1>2 DEF Becomes
  <1>5. ASSUME NEW q \in Request, NEW rec, Step(q, rec) PROVE q = r /\ req'[r] = rec
    BY <1>2, <1>5 DEF Step, KeyTypeOK
  <1>6. ASSUME NEW q \in Request, Store(q) PROVE gone[req'[r].value] < Stale
    <2>1. q = r /\ req'[r].value = req[r].value
      BY <1>5, <1>6 DEF Store, Answer
    <2>2. /\ req[r].value \in Value /\ req[r].age \in Nat /\ req[r].age <= Slow
          /\ gone[req[r].value] \in Nat /\ gone[req[r].value] <= req[r].age
      BY <1>6, <2>1, Shapes DEF Store, AgesTell
    <2> QED BY <1>1, <2>1, <2>2
  <1>7. ASSUME NEW q \in Request, NEW p \in Replica, CacheHit(q, p)
        PROVE  gone[req'[r].value] < Stale
    <2>1. req'[r].value = cache[p].value
      BY <1>5, <1>7 DEF CacheHit, Answer
    <2>2. /\ cache[p].at = "kept" /\ cache[p].value \in Value
          /\ cache[p].age \in Nat /\ cache[p].age < TTL
      BY <1>7, Shapes DEF CacheHit, Usable
    <2>3. gone[cache[p].value] \in Nat /\ gone[cache[p].value] <= cache[p].age + Slow
      BY <2>2, Shapes DEF AgesTell
    <2> QED BY <1>1, <2>1, <2>2, <2>3
  <1>8. ASSUME NEW q \in Request, NEW p \in Replica, CacheMiss(q, p) PROVE FALSE
    BY <1>5, <1>8 DEF CacheMiss
  <1>9. ASSUME NEW q \in Request, Query(q) PROVE FALSE
    BY <1>5, <1>9 DEF Query
  <1>10. ASSUME NEW q \in Request, RequestEnds(q) PROVE FALSE
    BY <1>5, <1>10 DEF RequestEnds, NoEntry
  <1> QED BY <1>3, <1>4, <1>6, <1>7, <1>8, <1>9, <1>10
       DEF KeyNext, RevokeAPIKey, UpdateAPIKey, MoveSlug

(***************************************************************************)
(* Nobody is let through by what the database said longer ago than the     *)
(* cache's time and a query's, whatever is stored over what (BR-085,       *)
(* BR-140).                                                                *)
(***************************************************************************)
THEOREM RevokedStopsWorking == KeySpec => StaleForTTL
  <1>1. KeyInv /\ [KeyNext]_keyVars => KeyInv'
    BY TypeStep, AgesStep DEF KeyInv
  <1>2. KeyInv /\ [KeyNext]_keyVars =>
          [\A r \in Request : req[r].at # "answered" /\ req'[r].at = "answered" =>
             gone[req'[r].value] < Stale]_keyVars
    BY AnswersFresh
  <1> QED BY InvBegins, <1>1, <1>2, PTL DEF KeySpec, StaleForTTL
-----------------------------------------------------------------------------
(* A worker at a mail has one; a mail that was sent out was sent under its
   one key. *)
AtAMail == \A w \in Worker : workers[w].at \notin {"free", "dead"} => workers[w].mail \in Mail

SentOnce == \A m \in Mail : received[m] <= 1 /\ (Key(m) \notin sent => received[m] = 0)

MailInv == MailTypeOK /\ AtAMail /\ SentOnce

LEMMA MailBegins == MailInit => MailInv
  BY MailAssumption DEF MailInit, MailInv, MailTypeOK, AtAMail, SentOnce, Message, WorkerState,
                        Delivery, Free

(* One worker moves on, to a state of the type. *)
LEMMA WorkerMoves ==
  ASSUME MailInv, NEW w \in Worker, NEW ws \in WorkerState,
         ws.at \notin {"free", "dead"} => ws.mail \in Mail,
         workers' = [workers EXCEPT ![w] = ws]
  PROVE  workers' \in [Worker -> WorkerState] /\ AtAMail'
  BY DEF MailInv, MailTypeOK, AtAMail

LEMMA LeaveTypes ==
  ASSUME MailInv, NEW w \in Worker, Leave(w)
  PROVE  workers' \in [Worker -> WorkerState] /\ AtAMail'
  <1> DEFINE ws == [Free EXCEPT !.hand = workers[w].hand \ {workers[w].mail}]
  <1>1. ws \in WorkerState /\ ws.at = "free"
    BY DEF MailInv, MailTypeOK, WorkerState, Free
  <1>2. workers' = [workers EXCEPT ![w] = ws]
    BY DEF Leave
  <1> HIDE DEF ws
  <1> QED BY <1>1, <1>2, WorkerMoves

LEMMA MailStep ==
  ASSUME MailInv, [MailNext]_mailVars
  PROVE  MailInv'
  <1> USE DEF MailInv
  <1>0. /\ wanted \in [Mail -> BOOLEAN] /\ messages \in [Mail -> Message]
        /\ workers \in [Worker -> WorkerState] /\ sent \subseteq (Mail \X Delivery)
        /\ received \in [Mail -> Nat] /\ MaxDeliveries \in Nat /\ 0 \in Delivery
    BY MailAssumption DEF MailTypeOK, Delivery
  <1>1. ASSUME NEW m \in Mail, NEW at \in {"none", "unsent", "lost", "new", "pending", "acked"},
               messages' = [messages EXCEPT ![m].at = at],
               UNCHANGED <<wanted, workers, sent, received>>
        PROVE  MailInv'
    <2>1. messages' \in [Mail -> Message]
      BY <1>0, <1>1 DEF Message
    <2> QED BY <1>0, <1>1, <2>1 DEF MailTypeOK, AtAMail, SentOnce, Key
  <1>2. ASSUME NEW m \in Mail, Unwanted(m) PROVE MailInv'
    BY <1>0, <1>2 DEF Unwanted, MailTypeOK, AtAMail, SentOnce, Key
  <1>3. ASSUME NEW m \in Mail, GoIdle(m) PROVE MailInv'
    <2>1. messages' \in [Mail -> Message]
      BY <1>0, <1>3 DEF GoIdle, Message
    <2> QED BY <1>0, <1>3, <2>1 DEF GoIdle, MailTypeOK, AtAMail, SentOnce, Key
  <1>4. ASSUME NEW w \in Worker, NEW ms \in SUBSET Mail, Deliver(w, ms) PROVE MailInv'
    <2>1. messages' \in [Mail -> Message]
      <3>1. \A m \in Mail : Delivered(messages[m]) \in Message
        BY <1>0 DEF Delivered, Message, Delivery
      <3> QED BY <1>0, <1>4, <3>1 DEF Deliver
    <2>2. workers' \in [Worker -> WorkerState] /\ AtAMail'
      <3>1. [workers[w] EXCEPT !.hand = ms] \in WorkerState
            /\ [workers[w] EXCEPT !.hand = ms].at = "free"
        BY <1>0, <1>4 DEF Deliver, WorkerState, Free
      <3> QED BY <1>0, <1>4, <3>1, WorkerMoves DEF Deliver
    <2> QED BY <1>0, <1>4, <2>1, <2>2 DEF Deliver, MailTypeOK, SentOnce, Key
  <1>5. ASSUME NEW w \in Worker, workers' \in [Worker -> WorkerState] /\ AtAMail',
               UNCHANGED <<wanted, messages, sent, received>>
        PROVE  MailInv'
    BY <1>0, <1>5 DEF MailTypeOK, SentOnce, Key
  <1>6. ASSUME NEW w \in Worker, NEW m \in Mail, Render(w, m) PROVE MailInv'
    <2>1. PICK at \in {"sending", "acking", "failed"} :
            workers' = [workers EXCEPT ![w] = [workers[w] EXCEPT !.at = at, !.mail = m]]
      BY <1>0, <1>6 DEF Render
    <2>2. [workers[w] EXCEPT !.at = at, !.mail = m] \in WorkerState
          /\ [workers[w] EXCEPT !.at = at, !.mail = m].mail = m
      BY <1>0, <2>1 DEF WorkerState
    <2> QED BY <1>5, <1>6, <2>1, <2>2, WorkerMoves DEF Render
  <1>7. ASSUME NEW w \in Worker, NEW at \in {"sending", "acking", "failed", "uncounted"},
               workers[w].at \notin {"free", "dead"}, workers' = [workers EXCEPT ![w].at = at]
        PROVE  workers' \in [Worker -> WorkerState] /\ AtAMail'
    <2>1. [workers[w] EXCEPT !.at = at] \in WorkerState
          /\ [workers[w] EXCEPT !.at = at].mail = workers[w].mail
      BY <1>0 DEF WorkerState
    <2> QED BY <1>7, <2>1, WorkerMoves DEF AtAMail
  <1>8. ASSUME NEW w \in Worker, NEW answered \in BOOLEAN, Send(w, answered) PROVE MailInv'
    <2> DEFINE m == workers[w].mail
    <2>1. m \in Mail
      BY <1>8 DEF Send, AtAMail
    <2>2. workers' \in [Worker -> WorkerState] /\ AtAMail'
      BY <1>7, <1>8 DEF Send
    <2>3. sent' = sent \cup {Key(m)} /\ sent' \subseteq Mail \X Delivery
      BY <1>0, <1>8, <2>1 DEF Send, Key
    <2>4. /\ received' \in [Mail -> Nat] /\ \A k \in Mail \ {m} : received'[k] = received[k]
          /\ received'[m] = IF Key(m) \in sent THEN received[m] ELSE received[m] + 1
      BY <1>0, <1>8, <2>1 DEF Send
    <2>5. received'[m] <= 1
      BY <2>1, <2>4 DEF SentOnce
    <2>6. SentOnce'
      BY <2>1, <2>3, <2>4, <2>5 DEF SentOnce, Key
    <2> QED BY <1>0, <1>8, <2>2, <2>3, <2>4, <2>6 DEF Send, MailTypeOK
  <1>9. ASSUME NEW w \in Worker, SendFails(w) PROVE MailInv'
    BY <1>5, <1>7, <1>9 DEF SendFails
  <1>10. ASSUME NEW w \in Worker, GiveUp(w) PROVE MailInv'
    BY <1>5, <1>7, <1>10, LeaveTypes DEF GiveUp
  <1>11. ASSUME NEW w \in Worker, Uncounted(w) \/ StaysPending(w) PROVE MailInv'
    BY <1>5, <1>7, <1>11, LeaveTypes DEF Uncounted, StaysPending
  <1>12. ASSUME NEW w \in Worker, NEW reached \in BOOLEAN, Ack(w, reached) PROVE MailInv'
    <2>1. messages' \in [Mail -> Message]
      BY <1>0, <1>12 DEF Ack, Message
    <2>2. workers' \in [Worker -> WorkerState] /\ AtAMail'
      BY <1>12, LeaveTypes DEF Ack
    <2> QED BY <1>0, <1>12, <2>1, <2>2 DEF Ack, MailTypeOK, SentOnce, Key
  <1>13. ASSUME NEW w \in Worker, Die(w) \/ Restart(w) PROVE MailInv'
    <2>1. /\ Free \in WorkerState /\ Free.at = "free"
          /\ Dead \in WorkerState /\ Dead.at = "dead"
      BY DEF Free, Dead, WorkerState
    <2> QED BY <1>5, <1>13, <2>1, WorkerMoves DEF Die, Restart
  <1>14. CASE UNCHANGED mailVars
    BY <1>14 DEF mailVars, MailTypeOK, AtAMail, SentOnce, Key
  <1>15. ASSUME NEW m \in Mail, Commit(m) \/ Enqueue(m) PROVE MailInv'
    BY <1>1, <1>15 DEF Commit, Enqueue
  <1>16. ASSUME NEW w \in Worker, ReadNew(w) \/ Reclaim(w) PROVE MailInv'
    BY <1>4, <1>16 DEF ReadNew, Reclaim, Idle
  <1>17. ASSUME NEW w \in Worker, Works(w) \/ Breaks(w) PROVE MailInv'
    BY <1>6, <1>8, <1>9, <1>10, <1>11, <1>12, <1>13, <1>17 DEF Works, Breaks
  <1> QED BY <1>2, <1>3, <1>14, <1>15, <1>16, <1>17 DEF MailNext

(***************************************************************************)
(* Mails, deliveries and workers keep their types, for any number of each  *)
(* and any number of deliveries (email.go).                                *)
(***************************************************************************)
THEOREM MailTypesCorrect == MailSpec => []MailTypeOK
  <1>1. MailInv => MailTypeOK
    BY DEF MailInv
  <1> QED BY <1>1, MailBegins, MailStep, PTL DEF MailSpec

(***************************************************************************)
(* A mail reaches its reader once at most, however often its message is    *)
(* delivered, by however many workers, with whatever they lose: the second *)
(* call carries the key of the first (Consume, resend.go Send).            *)
(***************************************************************************)
THEOREM AlwaysToldOnce == MailSpec => []ToldOnce
  <1>1. MailInv => ToldOnce
    BY DEF MailInv, SentOnce, ToldOnce
  <1> QED BY <1>1, MailBegins, MailStep, PTL DEF MailSpec

(* A mail that nothing more needs to be done about; whoever acknowledges a
   mail has such a one, and one that Resend has seen was received. *)
Settled(m) == received[m] = 1 \/ ~wanted[m] \/ messages[m].deliveries = MaxDeliveries

AcksSettled ==
  /\ \A w \in Worker : workers[w].at = "acking" => Settled(workers[w].mail)
  /\ \A m \in Mail : messages[m].at = "acked" => Settled(m)
  /\ \A m \in Mail : Key(m) \in sent => received[m] = 1

(* Nothing undoes that. *)
LEMMA StaysReceived ==
  ASSUME MailInv, MailNext, NEW m \in Mail, received[m] = 1
  PROVE  received'[m] = 1
  <1>0. received \in [Mail -> Nat] /\ received' \in [Mail -> Nat] /\ received'[m] <= 1 /\ AtAMail
    BY MailStep DEF MailInv, MailTypeOK, SentOnce
  <1>1. ASSUME NEW w \in Worker, NEW answered \in BOOLEAN, Send(w, answered)
        PROVE  received'[m] = 1
    <2> DEFINE k == workers[w].mail
    <2>1. k \in Mail /\ (received' = received \/ received' = [received EXCEPT ![k] = @ + 1])
      BY <1>0, <1>1 DEF Send, AtAMail
    <2> HIDE DEF k
    <2> QED BY <1>0, <2>1
  <1>2. CASE UNCHANGED received
    BY <1>2
  <1>3. UNCHANGED received \/ \E w \in Worker : \E answered \in BOOLEAN : Send(w, answered)
    BY DEF MailNext, Commit, Enqueue, GoIdle, Unwanted, ReadNew, Reclaim, Deliver, Works, Breaks,
           Render, SendFails, GiveUp, StaysPending, Ack, Restart, Die, Uncounted
  <1> QED BY <1>1, <1>2, <1>3

LEMMA StaysSettled ==
  ASSUME MailInv, MailNext, NEW m \in Mail, Settled(m)
  PROVE  Settled(m)'
  <1>0. /\ wanted \in [Mail -> BOOLEAN] /\ messages \in [Mail -> Message]
        /\ received \in [Mail -> Nat] /\ MailInv'
    BY MailStep DEF MailInv, MailTypeOK
  <1>1. wanted'[m] => wanted[m]
    <2>1. ASSUME NEW k \in Mail, Unwanted(k) PROVE wanted'[m] => wanted[m]
      BY <1>0, <2>1 DEF Unwanted
    <2>2. CASE UNCHANGED wanted
      BY <2>2
    <2> QED BY <2>1, <2>2 DEF MailNext, Commit, Enqueue, GoIdle, ReadNew, Reclaim, Deliver, Works, Breaks,
                  Render, Send, SendFails, GiveUp, StaysPending, Ack, Restart, Die, Uncounted
  <1>2. messages[m].deliveries = MaxDeliveries => messages'[m].deliveries = MaxDeliveries
    <2>1. ASSUME NEW k \in Mail, Commit(k) \/ Enqueue(k) \/ GoIdle(k)
          PROVE  messages'[m].deliveries = messages[m].deliveries
      BY <1>0, <2>1 DEF Commit, Enqueue, GoIdle, Message
    <2>2. ASSUME NEW w \in Worker, NEW ms \in SUBSET Mail, Deliver(w, ms),
                 messages[m].deliveries = MaxDeliveries
          PROVE  messages'[m].deliveries = MaxDeliveries
      BY <1>0, <2>2 DEF Deliver, Delivered
    <2>3. ASSUME NEW w \in Worker, ReadNew(w) \/ Reclaim(w)
          PROVE  \E ms \in SUBSET Mail : Deliver(w, ms)
      BY <2>3 DEF ReadNew, Reclaim, Idle
    <2>4. ASSUME NEW w \in Worker, NEW reached \in BOOLEAN, Ack(w, reached)
          PROVE  messages'[m].deliveries = messages[m].deliveries
      BY <1>0, <2>4 DEF Ack, Message
    <2>5. CASE UNCHANGED messages
      BY <2>5
    <2> QED BY <2>1, <2>2, <2>3, <2>4, <2>5
         DEF MailNext, Unwanted, Works, Breaks, Render, Send, SendFails, GiveUp, StaysPending,
             Restart, Die, Uncounted
  <1>3. received[m] = 1 => received'[m] = 1
    BY StaysReceived
  <1> QED BY <1>1, <1>2, <1>3 DEF Settled

LEMMA AcksStep ==
  ASSUME MailInv, AcksSettled, MailNext
  PROVE  AcksSettled'
  <1>0. /\ messages \in [Mail -> Message] /\ workers \in [Worker -> WorkerState]
        /\ received \in [Mail -> Nat] /\ MailInv' /\ AtAMail
    BY MailStep DEF MailInv, MailTypeOK
  (* Who comes to acknowledge, and what is acknowledged. *)
  <1>1. ASSUME NEW w \in Worker, workers'[w].at = "acking",
               workers'[w].at # workers[w].at \/ workers'[w].mail # workers[w].mail
        PROVE  Settled(workers[w].mail)'
    <2>1. ASSUME NEW m \in Mail, Render(w, m) PROVE Settled(workers[w].mail)'
      <3>1. PICK at \in {IF wanted[m] THEN "sending" ELSE "acking", "failed"} :
              workers' = [workers EXCEPT ![w].at = at, ![w].mail = m]
        BY <2>1 DEF Render
      <3>2. workers'[w].at = at /\ workers'[w].mail = m
        BY <1>0, <3>1 DEF WorkerState
      <3>3. ~wanted'[m]
        BY <1>1, <2>1, <3>2 DEF Render
      <3> QED BY <3>2, <3>3 DEF Settled
    <2>2. ASSUME NEW answered \in BOOLEAN, Send(w, answered) PROVE Settled(workers[w].mail)'
      <3> DEFINE m == workers[w].mail
      <3>1. workers'[w].mail = m /\ m \in Mail
        BY <1>0, <2>2 DEF Send, WorkerState, AtAMail
      <3>2. received'[m] = 1
        <4>1. received[m] <= 1 /\ (Key(m) \notin sent => received[m] = 0)
              /\ (Key(m) \in sent => received[m] = 1)
          BY <3>1 DEF MailInv, SentOnce, AcksSettled
        <4>2. received' = IF Key(m) \in sent THEN received ELSE [received EXCEPT ![m] = @ + 1]
          BY <2>2 DEF Send
        <4> HIDE DEF m
        <4> QED BY <1>0, <3>1, <4>1, <4>2
      <3> QED BY <3>1, <3>2 DEF Settled
    <2>3. ASSUME GiveUp(w) PROVE Settled(workers[w].mail)'
      <3>1. workers[w].mail \in Mail
        BY <1>0, <2>3 DEF GiveUp, AtAMail
      <3>2. ~(messages[workers[w].mail].deliveries < MaxDeliveries)
        BY <1>0, <1>1, <2>3 DEF GiveUp, Leave, Free
      <3>3. messages[workers[w].mail].deliveries = MaxDeliveries
        <4>1. messages[workers[w].mail].deliveries \in 0..MaxDeliveries
          BY <1>0, <3>1 DEF Message, Delivery
        <4> QED BY <3>2, <4>1, MailAssumption
      <3>4. messages' = messages /\ workers' = [workers EXCEPT ![w].at = "acking"]
        BY <2>3, <3>2 DEF GiveUp
      <3>5. workers'[w].mail = workers[w].mail
        BY <1>0, <3>4 DEF WorkerState
      <3> QED BY <3>3, <3>4, <3>5 DEF Settled
    <2>4. CASE workers' = workers
      BY <1>1, <2>4
    <2>5. ASSUME NEW v \in Worker, NEW ms \in SUBSET Mail, Deliver(v, ms) PROVE FALSE
      <3>1. v # w => workers'[w] = workers[w]
        BY <1>0, <2>5 DEF Deliver
      <3>2. v = w => workers'[w].at = "free"
        BY <1>0, <2>5 DEF Deliver, Free, WorkerState
      <3> QED BY <1>1, <3>1, <3>2
    <2>6. ASSUME NEW v \in Worker, v # w, Works(v) \/ Breaks(v) PROVE workers'[w] = workers[w]
      BY <1>0, <2>6 DEF Works, Breaks, Render, Send, SendFails, GiveUp, StaysPending, Ack, Restart,
                  Die, Uncounted, Leave
    <2>7. CASE SendFails(w) \/ Uncounted(w) \/ StaysPending(w) \/ Restart(w) \/ Die(w)
               \/ \E reached \in BOOLEAN : Ack(w, reached)
      <3>1. CASE SendFails(w) \/ Uncounted(w)
        BY <1>0, <1>1, <3>1 DEF SendFails, Uncounted, WorkerState
      <3>2. CASE Leave(w)
        BY <1>0, <1>1, <3>2 DEF Leave, Free
      <3>3. CASE Restart(w) \/ Die(w)
        BY <1>0, <1>1, <3>3 DEF Restart, Die, Dead, Free
      <3> QED BY <2>7, <3>1, <3>2, <3>3 DEF StaysPending, Ack
    <2>8. ASSUME NEW v \in Worker, ReadNew(v) \/ Reclaim(v)
          PROVE  \E ms \in SUBSET Mail : Deliver(v, ms)
      BY <2>8 DEF ReadNew, Reclaim, Idle
    <2>9. ASSUME NEW v \in Worker, Works(v) \/ Breaks(v) PROVE Settled(workers[w].mail)'
      <3>1. CASE v # w
        BY <1>1, <2>6, <2>9, <3>1
      <3>2. CASE v = w
        BY <2>1, <2>2, <2>3, <2>7, <2>9, <3>2 DEF Works, Breaks
      <3> QED BY <3>1, <3>2
    <2> QED BY <2>4, <2>5, <2>8, <2>9 DEF MailNext, Commit, Enqueue, Unwanted, GoIdle
  <1>2. ASSUME NEW m \in Mail, messages'[m].at = "acked", messages[m].at # "acked"
        PROVE  Settled(m)
    <2>1. ASSUME NEW w \in Worker, NEW reached \in BOOLEAN, Ack(w, reached) PROVE Settled(m)
      <3>1. workers[w].mail = m /\ workers[w].at = "acking"
        BY <1>0, <1>2, <2>1 DEF Ack
      <3> QED BY <3>1 DEF AcksSettled
    <2>2. ASSUME NEW k \in Mail, Commit(k) \/ Enqueue(k) \/ GoIdle(k) PROVE FALSE
      BY <1>0, <1>2, <2>2 DEF Commit, Enqueue, GoIdle, Message
    <2>3. ASSUME NEW w \in Worker, NEW ms \in SUBSET Mail, Deliver(w, ms) PROVE FALSE
      BY <1>0, <1>2, <2>3 DEF Deliver, Delivered
    <2>4. ASSUME NEW v \in Worker, ReadNew(v) \/ Reclaim(v)
          PROVE  \E ms \in SUBSET Mail : Deliver(v, ms)
      BY <2>4 DEF ReadNew, Reclaim, Idle
    <2>5. CASE UNCHANGED messages
      BY <1>2, <2>5
    <2> QED BY <2>1, <2>2, <2>3, <2>4, <2>5
         DEF MailNext, Unwanted, Works, Breaks, Render, Send, SendFails, GiveUp, StaysPending,
             Restart, Die, Uncounted
  <1>3. ASSUME NEW m \in Mail, Key(m) \in sent', Key(m) \notin sent PROVE received'[m] = 1
    <2>1. PICK w \in Worker, answered \in BOOLEAN : Send(w, answered)
      BY <1>3 DEF MailNext, Commit, Enqueue, Unwanted, GoIdle, ReadNew, Reclaim, Deliver, Works, Breaks,
                  Render, SendFails, GiveUp, StaysPending, Ack, Restart, Die, Uncounted
    <2>2. workers[w].mail = m
      BY <1>3, <2>1 DEF Send, Key
    <2>3. received[m] = 0
      BY <1>3 DEF MailInv, SentOnce
    <2> QED BY <1>0, <1>3, <2>1, <2>2, <2>3 DEF Send
  <1>4. ASSUME NEW w \in Worker, workers'[w].at = "acking" PROVE Settled(workers[w].mail)'
    <2>1. CASE workers'[w].at = workers[w].at /\ workers'[w].mail = workers[w].mail
      <3>1. PICK m \in Mail : m = workers[w].mail
        BY <1>0, <1>4, <2>1 DEF AtAMail
      <3>2. Settled(m)
        BY <1>4, <2>1, <3>1 DEF AcksSettled
      <3>3. Settled(m)'
        BY <3>2, StaysSettled
      <3> QED BY <2>1, <3>1, <3>3 DEF Settled
    <2>2. CASE workers'[w].at # workers[w].at \/ workers'[w].mail # workers[w].mail
      BY <1>1, <1>4, <2>2
    <2> QED BY <2>1, <2>2
  <1>5. ASSUME NEW m \in Mail, messages'[m].at = "acked" PROVE Settled(m)'
    <2>1. Settled(m)
      BY <1>2, <1>5 DEF AcksSettled
    <2> QED BY <2>1, StaysSettled
  <1>6. ASSUME NEW m \in Mail, Key(m) \in sent' PROVE received'[m] = 1
    <2>1. CASE Key(m) \in sent
      BY <2>1, StaysReceived DEF AcksSettled
    <2>2. CASE Key(m) \notin sent
      BY <1>3, <1>6, <2>2
    <2> QED BY <2>1, <2>2
  <1> QED BY <1>4, <1>5, <1>6 DEF AcksSettled, Key

LEMMA AcksKept ==
  ASSUME MailInv, AcksSettled, [MailNext]_mailVars
  PROVE  AcksSettled'
  <1>1. CASE UNCHANGED mailVars
    BY <1>1 DEF mailVars, AcksSettled, Settled, Key
  <1> QED BY <1>1, AcksStep

(***************************************************************************)
(* No envelope leaves the stream before its mail was sent, or is wanted by *)
(* nobody, or has no delivery left: for any number of changes, workers and *)
(* deliveries (Consume, handle).                                           *)
(***************************************************************************)
THEOREM NoMailSkipped == MailSpec => []NoneSkipped
  <1>1. MailInit => AcksSettled
    BY DEF MailInit, AcksSettled, Free
  <1>2. AcksSettled => NoneSkipped
    BY DEF AcksSettled, NoneSkipped, Settled
  <1> QED BY <1>1, <1>2, MailBegins, MailStep, AcksKept, PTL DEF MailSpec
-----------------------------------------------------------------------------
(* Hits that get older, and how many of them there are. *)
LEMMA AgedHits ==
  ASSUME NEW S \in SUBSET Hit
  PROVE  /\ Aged(S) \in SUBSET Hit
         /\ \A h \in S : h.age + 1 \in Age =>
              [h EXCEPT !.age = h.age + 1] \in Aged(S)
         /\ \A g \in Aged(S) : \E h \in S :
              /\ h.age + 1 \in Age /\ g = [h EXCEPT !.age = h.age + 1]
              /\ g.age = h.age + 1
  BY DEF Aged, Hit

LEMMA AgedSize ==
  ASSUME NEW S \in SUBSET Hit, IsFiniteSet(S)
  PROVE  /\ IsFiniteSet(Aged(S)) /\ Cardinality(Aged(S)) <= Cardinality(S)
         /\ (\A h \in S : h.age + 1 \in Age) => Cardinality(Aged(S)) = Cardinality(S)
  <1> DEFINE T == {h \in S : h.age + 1 \in Age}
             f == [h \in T |-> [h EXCEPT !.age = h.age + 1]]
  <1>1. IsFiniteSet(T) /\ Cardinality(T) <= Cardinality(S)
    BY FS_Subset
  <1>2. f \in Surjection(T, Aged(S))
    BY AgedHits DEF Surjection, Aged
  <1>3. f \in Injection(T, Aged(S))
    <2>1. ASSUME NEW g \in T, NEW h \in T, f[g] = f[h] PROVE g = h
      <3>1. f[g].age = g.age + 1 /\ f[h].age = h.age + 1 /\ g.age \in Nat /\ h.age \in Nat
        BY RateAssumption DEF Hit, Age
      <3>2. f[g].clock = g.clock /\ f[h].clock = h.clock /\ f[g].nth = g.nth /\ f[h].nth = h.nth
        BY DEF Hit
      <3> HIDE DEF f
      <3>3. g.age = h.age /\ g.clock = h.clock /\ g.nth = h.nth
        BY <2>1, <3>1, <3>2
      <3> QED BY <3>3 DEF Hit
    <2>2. f \in [T -> Aged(S)]
      BY <1>2 DEF Surjection
    <2> QED BY <2>1, <2>2, Zenon DEF Injection, IsInjective
  <1>4. IsFiniteSet(Aged(S)) /\ Cardinality(Aged(S)) = Cardinality(T)
    BY <1>1, <1>2, <1>3, FS_Surjection
  <1>5. /\ Cardinality(S) \in Nat /\ Cardinality(T) \in Nat
        /\ (\A h \in S : h.age + 1 \in Age) => T = S
    BY <1>1, FS_CardinalityType
  <1> QED BY <1>1, <1>4, <1>5

(* A hit that is counted now is none of those that were. *)
LEMMA NewHitIsNew ==
  ASSUME NEW S \in SUBSET Hit, IsFiniteSet(S), NEW clock \in Clock
  PROVE  /\ NewHit(S, clock) \in Hit /\ NewHit(S, clock) \notin S
         /\ NewHit(S, clock).age = 0
  <1> DEFINE Nth(n) == [age |-> 0, clock |-> clock, nth |-> n]
             N == 0..Cardinality(S)
  <1>1. Cardinality(S) \in Nat
    BY FS_CardinalityType
  <1>2. \E n \in N : Nth(n) \notin S
    <2> SUFFICES ASSUME \A n \in N : Nth(n) \in S PROVE FALSE
      OBVIOUS
    <2> DEFINE f == [n \in N |-> Nth(n)]
    <2>1. f \in Injection(N, S)
      <3>1. \A m, n \in N : Nth(m) = Nth(n) => m = n
        OBVIOUS
      <3>2. f \in [N -> S] /\ \A n \in N : f[n] = Nth(n)
        OBVIOUS
      <3> HIDE DEF f, Nth, N
      <3> QED BY <3>1, <3>2, Zenon DEF Injection, IsInjective
    <2>2. Cardinality(N) <= Cardinality(S)
      BY <2>1, FS_Injection
    <2>3. Cardinality(N) = Cardinality(S) + 1
      BY <1>1, FS_Interval
    <2> QED BY <1>1, <2>2, <2>3
  <1> DEFINE k == CHOOSE n \in N : Nth(n) \notin S
  <1>3. k \in N /\ Nth(k) \notin S
    BY <1>2
  <1>4. NewHit(S, clock) = Nth(k)
    BY DEF NewHit
  <1>5. 0 \in Age /\ k \in Nat
    BY <1>1, <1>3, RateAssumption DEF Age
  <1> QED BY <1>3, <1>4, <1>5 DEF Hit
-----------------------------------------------------------------------------
(* Redis knows of every hit that no clock has pruned yet, and of no others;
   a set was touched no longer ago than its last member was added. *)
LogFits(L, C) ==
  /\ L.members \subseteq C
  /\ \A h \in C : h.age < Window - Skew => h \in L.members
  /\ Cardinality(L.members) <= Limit
  /\ \A h \in L.members : L.idle <= h.age

LogRow == [members : SUBSET Hit, idle : 0..Window]

LEMMA LogAges ==
  ASSUME NEW r \in Rule, log[r] \in LogRow, NEW C \in SUBSET Hit, IsFiniteSet(C),
         LogFits(log[r], C)
  PROVE  AgedLog(r) \in LogRow /\ LogFits(AgedLog(r), Aged(C))
  <1> DEFINE L == log[r]
  <1>0. L.members \in SUBSET Hit /\ L.idle \in 0..Window /\ Skew \in Nat /\ Window \in Nat
        /\ Window > 0 /\ Limit \in Nat
    BY RateAssumption DEF LogRow
  <1>1. CASE L.idle + 1 >= Window
    <2>1. AgedLog(r) = Expired /\ Expired.members = {} /\ Expired.idle = Window
      BY <1>1 DEF AgedLog, Expired
    <2>2. ASSUME NEW g \in Aged(C) PROVE ~(g.age < Window - Skew)
      <3>1. PICK h \in C : h.age + 1 \in Age /\ g.age = h.age + 1
        BY AgedHits
      <3>2. h.age \in Nat
        BY RateAssumption DEF Hit, Age
      <3>3. CASE h \in L.members
        BY <1>0, <1>1, <3>1, <3>2, <3>3 DEF LogFits
      <3>4. CASE h \notin L.members
        BY <1>0, <3>1, <3>2, <3>4 DEF LogFits
      <3> QED BY <3>3, <3>4
    <2>3. Expired \in LogRow
      BY <1>0 DEF Expired, LogRow
    <2> QED BY <1>0, <2>1, <2>2, <2>3, FS_EmptySet DEF LogFits
  <1>2. CASE ~(L.idle + 1 >= Window)
    <2>1. AgedLog(r) = [members |-> Aged(L.members), idle |-> L.idle + 1]
      BY <1>2 DEF AgedLog
    <2>2. Aged(L.members) \in SUBSET Hit /\ Aged(L.members) \subseteq Aged(C)
      BY <1>0, AgedHits DEF Aged, LogFits
    <2>3. IsFiniteSet(L.members)
      BY FS_Subset DEF LogFits
    <2>4. Cardinality(Aged(L.members)) <= Limit
      <3>1. /\ IsFiniteSet(Aged(L.members))
            /\ Cardinality(Aged(L.members)) <= Cardinality(L.members)
        BY <1>0, <2>3, AgedSize
      <3>2. Cardinality(Aged(L.members)) \in Nat /\ Cardinality(L.members) \in Nat
        BY <2>3, <3>1, FS_CardinalityType
      <3> QED BY <1>0, <3>1, <3>2 DEF LogFits
    <2>5. ASSUME NEW g \in Aged(C), g.age < Window - Skew PROVE g \in Aged(L.members)
      <3>1. PICK h \in C : /\ h.age + 1 \in Age /\ g = [h EXCEPT !.age = h.age + 1]
                           /\ g.age = h.age + 1
        BY AgedHits
      <3>2. h.age \in Nat
        BY RateAssumption DEF Hit, Age
      <3>3. h \in L.members
        BY <1>0, <2>5, <3>1, <3>2 DEF LogFits
      <3> QED BY <1>0, <3>1, <3>3, AgedHits
    <2>6. ASSUME NEW g \in Aged(L.members) PROVE L.idle + 1 <= g.age
      <3>1. PICK h \in L.members : h.age + 1 \in Age /\ g.age = h.age + 1
        BY <1>0, AgedHits
      <3>2. h.age \in Nat
        BY <1>0, RateAssumption DEF Hit, Age
      <3> QED BY <1>0, <3>1, <3>2 DEF LogFits
    <2>7. AgedLog(r) \in LogRow
      BY <1>0, <1>2, <2>1, <2>2 DEF LogRow
    <2> QED BY <2>1, <2>2, <2>4, <2>5, <2>6, <2>7 DEF LogFits
  <1> QED BY <1>1, <1>2

(* A script prunes, and may add what is counted with it. *)
LEMMA LogScripted ==
  ASSUME NEW L \in LogRow, NEW C \in SUBSET Hit, IsFiniteSet(C), LogFits(L, C),
         NEW P \in SUBSET L.members, \A h \in L.members : h.age < Window - Skew => h \in P,
         NEW clock \in Clock
  PROVE  /\ [members |-> P, idle |-> 0] \in LogRow
         /\ LogFits([members |-> P, idle |-> 0], C)
         /\ Cardinality(P) < Limit =>
              LET h == NewHit(L.members, clock)
                  Q == [members |-> P \cup {h}, idle |-> 0]
              IN  Q \in LogRow /\ LogFits(Q, C \cup {h}) /\ C \cup {h} \in SUBSET Hit
                  /\ IsFiniteSet(C \cup {h})
  <1>0. /\ L.members \in SUBSET Hit /\ IsFiniteSet(L.members) /\ IsFiniteSet(P)
        /\ 0 \in 0..Window /\ Skew \in Nat /\ Window \in Nat /\ Limit \in Nat /\ Window - Skew > 0
    BY RateAssumption, FS_Subset DEF LogRow, LogFits
  <1>1. /\ Cardinality(P) \in Nat /\ Cardinality(L.members) \in Nat
        /\ Cardinality(P) <= Cardinality(L.members)
    BY <1>0, FS_Subset, FS_CardinalityType
  <1>2. \A h \in Hit : h.age \in Nat
    BY RateAssumption DEF Hit, Age
  <1>3. LogFits([members |-> P, idle |-> 0], C) /\ [members |-> P, idle |-> 0] \in LogRow
    BY <1>0, <1>1, <1>2 DEF LogFits, LogRow
  <1>4. ASSUME Cardinality(P) < Limit
        PROVE  LET h == NewHit(L.members, clock)
                   Q == [members |-> P \cup {h}, idle |-> 0]
               IN  Q \in LogRow /\ LogFits(Q, C \cup {h}) /\ C \cup {h} \in SUBSET Hit
                   /\ IsFiniteSet(C \cup {h})
    <2> DEFINE h == NewHit(L.members, clock)
    <2>1. h \in Hit /\ h.age = 0
      BY <1>0, NewHitIsNew
    <2> HIDE DEF h
    <2>2. Cardinality(P \cup {h}) <= Limit
      <3>1. Cardinality(P \cup {h}) \in {Cardinality(P), Cardinality(P) + 1}
        BY <1>0, FS_AddElement
      <3> QED BY <1>0, <1>1, <1>4, <3>1
    <2>3. IsFiniteSet(C \cup {h})
      BY FS_AddElement
    <2> QED BY <1>0, <1>2, <2>1, <2>2, <2>3 DEF LogFits, LogRow, h
  <1> QED BY <1>3, <1>4
-----------------------------------------------------------------------------
(* The hits of an age from m on, and below n. *)
Band(C, m, n) == {h \in C : m <= h.age /\ h.age < n}

(* A process knows the hits of its window, the first of which opened it; of
   those before it fewer than Limit are left. *)
LocalFits(w, C) ==
  IF w.age < Window
  THEN /\ \E h \in C : h.age = w.age
       /\ Cardinality(Band(C, 0, w.age + 1)) = w.count
       /\ Cardinality(Band(C, w.age + 1, Window)) < Limit
  ELSE /\ w = Over
       /\ \A h \in C : h.age # 0
       /\ Cardinality(Band(C, 0, Window)) < Limit

LocalRow == [age : 0..Window, count : 0..Limit]

LEMMA BandFinite ==
  ASSUME NEW C \in SUBSET Hit, IsFiniteSet(C), NEW m, NEW n
  PROVE  /\ IsFiniteSet(Band(C, m, n)) /\ Cardinality(Band(C, m, n)) \in Nat
         /\ Band(C, m, n) \in SUBSET Hit
  <1>1. Band(C, m, n) \subseteq C
    BY DEF Band
  <1> QED BY <1>1, FS_Subset, FS_CardinalityType

LEMMA AgedBand ==
  ASSUME NEW C \in SUBSET Hit, IsFiniteSet(C), NEW m \in Nat, NEW n \in Nat
  PROVE  /\ Cardinality(Band(Aged(C), m + 1, n + 1)) <= Cardinality(Band(C, m, n))
         /\ n \in Age => Cardinality(Band(Aged(C), m + 1, n + 1)) = Cardinality(Band(C, m, n))
         /\ Band(Aged(C), 0, n + 1) = Band(Aged(C), 1, n + 1)
         /\ \A h \in Aged(C) : h.age # 0
  <1>1. \A h \in C : h.age \in Nat
    BY RateAssumption DEF Hit, Age
  <1>2. Band(Aged(C), m + 1, n + 1) = Aged(Band(C, m, n))
    <2>1. ASSUME NEW g \in Band(Aged(C), m + 1, n + 1) PROVE g \in Aged(Band(C, m, n))
      <3>1. PICK h \in C : /\ h.age + 1 \in Age /\ g = [h EXCEPT !.age = h.age + 1]
                           /\ g.age = h.age + 1
        BY AgedHits DEF Band
      <3>2. h.age \in Nat /\ m + 1 <= h.age + 1 /\ h.age + 1 < n + 1
        BY <1>1, <2>1, <3>1 DEF Band
      <3>3. m <= h.age /\ h.age < n
        BY <3>2
      <3>4. h \in Band(C, m, n)
        BY <3>3 DEF Band
      <3> QED BY <3>1, <3>4 DEF Aged
    <2>2. ASSUME NEW g \in Aged(Band(C, m, n)) PROVE g \in Band(Aged(C), m + 1, n + 1)
      <3>1. PICK h \in Band(C, m, n) : /\ h.age + 1 \in Age /\ g = [h EXCEPT !.age = h.age + 1]
                                       /\ g.age = h.age + 1
        BY BandFinite, AgedHits
      <3>2. g \in Aged(C) /\ h.age \in Nat /\ m <= h.age /\ h.age < n
        BY <1>1, <3>1, AgedHits DEF Band
      <3>3. m + 1 <= h.age + 1 /\ h.age + 1 < n + 1
        BY <3>2
      <3>4. m + 1 <= g.age /\ g.age < n + 1
        BY <3>1, <3>3
      <3> QED BY <3>2, <3>4 DEF Band
    <2> QED BY <2>1, <2>2
  <1>3. ASSUME n \in Age, NEW h \in Band(C, m, n) PROVE h.age + 1 \in Age
    BY <1>1, <1>3, RateAssumption DEF Band, Age
  <1>4. \A g \in Aged(C) : g.age \in Nat /\ g.age >= 1
    BY <1>1, AgedHits
  <1>5. Band(Aged(C), 0, n + 1) = Band(Aged(C), 1, n + 1)
    BY <1>4 DEF Band
  <1>6. /\ Cardinality(Aged(Band(C, m, n))) <= Cardinality(Band(C, m, n))
        /\ (\A h \in Band(C, m, n) : h.age + 1 \in Age) =>
             Cardinality(Aged(Band(C, m, n))) = Cardinality(Band(C, m, n))
    <2>1. IsFiniteSet(Band(C, m, n)) /\ Band(C, m, n) \in SUBSET Hit
      BY BandFinite
    <2> QED BY <2>1, AgedSize
  <1>7. \A g \in Aged(C) : g.age # 0
    BY <1>4
  <1> QED BY <1>2, <1>3, <1>5, <1>6, <1>7

(* Windows get older. *)
LEMMA LocalAges ==
  ASSUME NEW w \in LocalRow, NEW C \in SUBSET Hit, IsFiniteSet(C), LocalFits(w, C)
  PROVE  LET v == IF w.age + 1 >= Window THEN Over ELSE [w EXCEPT !.age = @ + 1]
         IN  v \in LocalRow /\ LocalFits(v, Aged(C))
  <1>0. /\ Window \in Nat /\ Window > 0 /\ Limit \in Nat /\ Limit > 0 /\ Skew \in Nat
        /\ w.age \in Nat /\ w.age <= Window /\ w.count \in Nat /\ w.count <= Limit
        /\ w = [age |-> w.age, count |-> w.count] /\ w.age + 1 \in Nat /\ Window - 1 \in Nat
        /\ 0 \in Nat
    BY RateAssumption DEF LocalRow
  <1>1. \A h \in C : h.age \in Nat
    BY RateAssumption DEF Hit, Age
  <1>2. IsFiniteSet(Aged(C)) /\ Aged(C) \in SUBSET Hit
    BY AgedHits, AgedSize
  <1>3. /\ \A h \in Aged(C) : h.age # 0
        /\ Cardinality(Band(Aged(C), 0, Window)) <= Cardinality(Band(C, 0, Window - 1))
    <2>1. Window - 1 + 1 = Window /\ 0 + 1 = 1
      BY <1>0
    <2>2. /\ Cardinality(Band(Aged(C), 0 + 1, Window - 1 + 1)) <= Cardinality(Band(C, 0, Window - 1))
          /\ Band(Aged(C), 0, Window - 1 + 1) = Band(Aged(C), 1, Window - 1 + 1)
          /\ \A h \in Aged(C) : h.age # 0
      BY <1>0, AgedBand
    <2> QED BY <2>1, <2>2
  <1>4. CASE w.age + 1 >= Window
    <2>1. Cardinality(Band(C, 0, Window - 1)) < Limit
      <3>1. CASE w.age < Window
        <4>1. w.age + 1 = Window
          BY <1>0, <1>4, <3>1
        <4>2. PICK h \in C : h.age = w.age
          BY <3>1 DEF LocalFits
        <4> DEFINE A == Band(C, 0, Window - 1)
                   B == Band(C, 0, Window)
        <4>3. A \cup {h} \subseteq B /\ h \notin A
          BY <1>0, <1>1, <4>1, <4>2 DEF Band
        <4>4. IsFiniteSet(A) /\ Cardinality(A) \in Nat /\ IsFiniteSet(B) /\ Cardinality(B) \in Nat
          BY BandFinite
        <4>5. Cardinality(B) <= Limit
          BY <1>0, <3>1, <4>1 DEF LocalFits
        <4> HIDE DEF A, B
        <4>6. Cardinality(A \cup {h}) = Cardinality(A) + 1 /\ Cardinality(A \cup {h}) <= Cardinality(B)
          BY <4>3, <4>4, FS_AddElement, FS_Subset
        <4>7. Cardinality(A) < Limit
          BY <1>0, <4>4, <4>5, <4>6
        <4> QED BY <4>7 DEF A
      <3>2. CASE ~(w.age < Window)
        <4> DEFINE A == Band(C, 0, Window - 1)
                   B == Band(C, 0, Window)
        <4>1. A \subseteq B
          BY <1>0, <1>1 DEF Band
        <4>2. IsFiniteSet(A) /\ Cardinality(A) \in Nat /\ IsFiniteSet(B) /\ Cardinality(B) \in Nat
          BY BandFinite
        <4>3. Cardinality(B) < Limit
          BY <3>2 DEF LocalFits
        <4> HIDE DEF A, B
        <4>4. Cardinality(A) <= Cardinality(B)
          BY <4>1, <4>2, FS_Subset
        <4>5. Cardinality(A) < Limit
          BY <1>0, <4>2, <4>3, <4>4
        <4> QED BY <4>5 DEF A
      <3> QED BY <3>1, <3>2
    <2>2. Cardinality(Band(Aged(C), 0, Window)) < Limit
      <3>1. Cardinality(Band(Aged(C), 0, Window)) \in Nat /\ Cardinality(Band(C, 0, Window - 1)) \in Nat
        BY <1>2, BandFinite
      <3> QED BY <1>0, <1>3, <2>1, <3>1
    <2>3. Over \in LocalRow /\ Over.age = Window
      BY <1>0 DEF Over, LocalRow
    <2>4. LocalFits(Over, Aged(C))
      BY <1>0, <1>3, <2>2, <2>3 DEF LocalFits
    <2> QED BY <1>4, <2>3, <2>4
  <1>5. CASE ~(w.age + 1 >= Window)
    <2> DEFINE v == [w EXCEPT !.age = @ + 1]
    <2>1. v = [age |-> w.age + 1, count |-> w.count] /\ v.age = w.age + 1 /\ v.count = w.count
          /\ v \in LocalRow
      BY <1>0, <1>5 DEF LocalRow
    <2>2. w.age < Window /\ w.age + 1 < Window /\ w.age + 1 \in Age
      BY <1>0, <1>5 DEF Age
    <2>3. \E h \in Aged(C) : h.age = v.age
      <3>1. PICK h \in C : h.age = w.age
        BY <2>2 DEF LocalFits
      <3>2. [h EXCEPT !.age = h.age + 1] \in Aged(C)
        BY <2>2, <3>1, AgedHits
      <3>3. [h EXCEPT !.age = h.age + 1].age = h.age + 1
        BY DEF Hit
      <3> QED BY <2>1, <3>1, <3>2, <3>3
    <2>4. Cardinality(Band(Aged(C), 0, v.age + 1)) = v.count
      <3>1. 0 + 1 = 1
        OBVIOUS
      <3>2. /\ Cardinality(Band(Aged(C), 0 + 1, w.age + 1 + 1)) = Cardinality(Band(C, 0, w.age + 1))
            /\ Band(Aged(C), 0, w.age + 1 + 1) = Band(Aged(C), 1, w.age + 1 + 1)
        BY <1>0, <2>2, AgedBand
      <3> QED BY <2>1, <2>2, <3>1, <3>2 DEF LocalFits
    <2>5. Cardinality(Band(Aged(C), v.age + 1, Window)) < Limit
      <3> DEFINE A == Band(C, w.age + 1, Window - 1)
                 B == Band(C, w.age + 1, Window)
      <3>1. /\ Cardinality(Band(Aged(C), w.age + 1 + 1, Window - 1 + 1)) <= Cardinality(A)
        BY <1>0, AgedBand
      <3>2. IsFiniteSet(A) /\ IsFiniteSet(B) /\ Cardinality(A) \in Nat /\ Cardinality(B) \in Nat
            /\ Cardinality(Band(Aged(C), v.age + 1, Window)) \in Nat
        BY <1>2, BandFinite
      <3>3. A \subseteq B
        BY <1>0, <1>1 DEF Band
      <3>4. Cardinality(B) < Limit
        BY <2>2 DEF LocalFits
      <3>5. Window - 1 + 1 = Window
        BY <1>0
      <3> HIDE DEF A, B
      <3>6. Cardinality(A) <= Cardinality(B)
        BY <3>2, <3>3, FS_Subset
      <3>7. Cardinality(Band(Aged(C), v.age + 1, Window)) <= Cardinality(A)
        BY <2>1, <3>1, <3>5
      <3> HIDE DEF v
      <3> QED BY <1>0, <3>2, <3>4, <3>6, <3>7
    <2>6. LocalFits(v, Aged(C))
      BY <2>1, <2>2, <2>3, <2>4, <2>5 DEF LocalFits
    <2> QED BY <1>5, <2>1, <2>6
  <1> QED BY <1>4, <1>5

(* A process counts a hit, if it fits. *)
LEMMA LocalHits ==
  ASSUME NEW w \in LocalRow, NEW C \in SUBSET Hit, IsFiniteSet(C), LocalFits(w, C),
         NEW n \in Hit, n \notin C, n.age = 0
  PROVE  LET v == IF w = Over THEN [age |-> 0, count |-> 1]
                  ELSE IF w.count < Limit THEN [w EXCEPT !.count = @ + 1] ELSE w
         IN  v \in LocalRow /\ LocalFits(v, C \cup (IF w.count < Limit THEN {n} ELSE {}))
  <1>0. /\ Window \in Nat /\ Window > 0 /\ Limit \in Nat /\ Limit > 0
        /\ w.age \in Nat /\ w.age <= Window /\ w.count \in Nat /\ w.count <= Limit
        /\ w = [age |-> w.age, count |-> w.count] /\ Over.age = Window /\ Over.count = 0
    BY RateAssumption DEF LocalRow, Over
  <1>1. \A h \in C : h.age \in Nat
    BY RateAssumption DEF Hit, Age
  <1> DEFINE D == C \cup {n}
  <1>2. CASE w = Over
    <2> DEFINE v == [age |-> 0, count |-> 1]
    <2>1. v.age = 0 /\ v.count = 1 /\ v \in LocalRow /\ w.count < Limit
      BY <1>0, <1>2 DEF LocalRow
    <2>2. (\A h \in C : h.age # 0) /\ Cardinality(Band(C, 0, Window)) < Limit
      BY <1>0, <1>2 DEF LocalFits
    <2>3. Cardinality(Band(D, 0, 1)) = 1
      <3>1. Band(D, 0, 1) = {n}
        BY <1>1, <2>2 DEF Band
      <3> QED BY <3>1, FS_Singleton
    <2>4. Cardinality(Band(D, 1, Window)) < Limit
      <3>1. Band(D, 1, Window) \subseteq Band(C, 0, Window)
        BY <1>0, <1>1 DEF Band
      <3>2. IsFiniteSet(Band(C, 0, Window)) /\ Cardinality(Band(C, 0, Window)) \in Nat
        BY BandFinite
      <3>3. /\ Cardinality(Band(D, 1, Window)) <= Cardinality(Band(C, 0, Window))
            /\ Cardinality(Band(D, 1, Window)) \in Nat
        BY <3>1, <3>2, FS_Subset, FS_CardinalityType
      <3> QED BY <1>0, <2>2, <3>2, <3>3
    <2>5. LocalFits(v, D)
      BY <1>0, <2>1, <2>3, <2>4 DEF LocalFits
    <2> QED BY <1>2, <2>1, <2>5
  <1>3. CASE w # Over /\ w.count < Limit
    <2> DEFINE v == [w EXCEPT !.count = @ + 1]
    <2>1. v = [age |-> w.age, count |-> w.count + 1] /\ v.age = w.age /\ v.count = w.count + 1
          /\ v \in LocalRow
      BY <1>0, <1>3 DEF LocalRow
    <2>2. w.age < Window
      BY <1>3 DEF LocalFits
    <2>3. Band(D, 0, w.age + 1) = Band(C, 0, w.age + 1) \cup {n} /\ n \notin Band(C, 0, w.age + 1)
      BY <1>0, <1>1 DEF Band
    <2>4. Cardinality(Band(D, 0, w.age + 1)) = w.count + 1
      <3>1. IsFiniteSet(Band(C, 0, w.age + 1))
        BY BandFinite
      <3>2. Cardinality(Band(C, 0, w.age + 1)) = w.count
        BY <2>2 DEF LocalFits
      <3>3. Cardinality(Band(C, 0, w.age + 1) \cup {n}) = Cardinality(Band(C, 0, w.age + 1)) + 1
        BY <2>3, <3>1, FS_AddElement
      <3> QED BY <2>3, <3>2, <3>3
    <2>5. Band(D, w.age + 1, Window) = Band(C, w.age + 1, Window)
      BY <1>0, <1>1 DEF Band
    <2>6. LocalFits(v, D)
      BY <2>1, <2>2, <2>4, <2>5 DEF LocalFits
    <2> QED BY <1>3, <2>1, <2>6
  <1>4. CASE w # Over /\ ~(w.count < Limit)
    BY <1>4
  <1> QED BY <1>2, <1>3, <1>4
-----------------------------------------------------------------------------
(* What is counted is counted one by one. *)
RateInv ==
  /\ RateTypeOK
  /\ \A r \in Rule : /\ \A c \in Counter : IsFiniteSet(counted[r][c])
                     /\ LogFits(log[r], counted[r][Redis])
                     /\ \A p \in Process : LocalFits(local[p][r], counted[r][p])

LEMMA RateShapes ==
  ASSUME RateInv
  PROVE  /\ Redis \in Counter /\ Process \subseteq Counter /\ Redis \notin Process
         /\ \A r \in Rule : log[r] \in LogRow /\ LogFits(log[r], counted[r][Redis])
                            /\ log[r].members \in SUBSET Hit /\ IsFiniteSet(log[r].members)
         /\ \A r \in Rule, c \in Counter : counted[r][c] \in SUBSET Hit /\ IsFiniteSet(counted[r][c])
         /\ \A r \in Rule, p \in Process : /\ local[p][r] \in LocalRow
                                           /\ LocalFits(local[p][r], counted[r][p])
         /\ \A p \in Process : ahead[p] \in Clock
  <1>1. \A r \in Rule : log[r] \in LogRow /\ log[r].members \in SUBSET Hit
    BY DEF RateInv, RateTypeOK, LogRow
  <1>2. Redis \in Counter /\ Process \subseteq Counter /\ Redis \notin Process
    BY RateAssumption DEF Counter, Redis
  <1>3. \A r \in Rule : LogFits(log[r], counted[r][Redis]) /\ IsFiniteSet(counted[r][Redis])
    BY <1>2 DEF RateInv
  <1>4. \A r \in Rule : IsFiniteSet(log[r].members)
    BY <1>3, FS_Subset DEF LogFits
  <1>5. \A r \in Rule, c \in Counter : counted[r][c] \in SUBSET Hit /\ IsFiniteSet(counted[r][c])
    BY DEF RateInv, RateTypeOK
  <1>6. \A r \in Rule, p \in Process : /\ local[p][r] \in LocalRow
                                       /\ LocalFits(local[p][r], counted[r][p])
    BY DEF RateInv, RateTypeOK, LocalRow
  <1>7. \A p \in Process : ahead[p] \in Clock
    BY DEF RateInv, RateTypeOK
  <1> QED BY <1>1, <1>2, <1>3, <1>4, <1>5, <1>6, <1>7

LEMMA RateInitInv == RateInit => RateInv
  <1> SUFFICES ASSUME RateInit PROVE RateInv
    OBVIOUS
  <1>0. Window \in Nat /\ Window > 0 /\ Limit \in Nat /\ Limit > 0 /\ Rules \in Nat
    BY RateAssumption
  <1>1. Expired.members = {} /\ Expired.idle = Window /\ Over.age = Window /\ Over.count = 0
    BY DEF Expired, Over
  <1>2. LogFits(Expired, {}) /\ Expired \in LogRow
    BY <1>0, <1>1, FS_EmptySet DEF LogFits, LogRow, Expired
  <1>3. LocalFits(Over, {}) /\ Over \in LocalRow
    <2>1. Band({}, 0, Window) = {}
      BY DEF Band
    <2> QED BY <1>0, <1>1, <2>1, FS_EmptySet DEF LocalFits, LocalRow, Over
  <1>4. IsFiniteSet({})
    BY FS_EmptySet
  <1>5. \A r \in Rule : /\ log[r] = Expired /\ \A c \in Counter : counted[r][c] = {}
                        /\ \A p \in Process : local[p][r] = Over
    BY DEF RateInit
  <1>6. Redis \in Counter /\ Process \subseteq Counter
    BY DEF Counter
  <1>7. RateTypeOK
    BY <1>0, <1>2, <1>3 DEF RateInit, RateTypeOK, LogRow, LocalRow
  <1> QED BY <1>2, <1>3, <1>4, <1>5, <1>6, <1>7 DEF RateInv

LEMMA TickInv == RateInv /\ RateTick => RateInv'
  <1> SUFFICES ASSUME RateInv, RateTick PROVE RateInv'
    OBVIOUS
  <1>1. \A r \in Rule, c \in Counter :
          /\ counted'[r][c] = Aged(counted[r][c])
          /\ Aged(counted[r][c]) \in SUBSET Hit /\ IsFiniteSet(Aged(counted[r][c]))
    <2> TAKE r \in Rule, c \in Counter
    <2>1. counted[r][c] \in SUBSET Hit /\ IsFiniteSet(counted[r][c])
      BY RateShapes
    <2>2. Aged(counted[r][c]) \in SUBSET Hit /\ IsFiniteSet(Aged(counted[r][c]))
      BY <2>1, AgedHits, AgedSize
    <2> QED BY <2>2 DEF RateTick
  <1>2. \A r \in Rule : /\ log'[r] = AgedLog(r) /\ AgedLog(r) \in LogRow
                        /\ LogFits(AgedLog(r), Aged(counted[r][Redis]))
    <2> TAKE r \in Rule
    <2>1. /\ log[r] \in LogRow /\ LogFits(log[r], counted[r][Redis])
          /\ counted[r][Redis] \in SUBSET Hit /\ IsFiniteSet(counted[r][Redis])
      BY RateShapes
    <2>2. AgedLog(r) \in LogRow /\ LogFits(AgedLog(r), Aged(counted[r][Redis]))
      BY <2>1, LogAges
    <2> QED BY <2>2 DEF RateTick
  <1>3. \A r \in Rule, p \in Process :
          local'[p][r] \in LocalRow /\ LocalFits(local'[p][r], Aged(counted[r][p]))
    <2> TAKE r \in Rule, p \in Process
    <2>1. /\ local[p][r] \in LocalRow /\ LocalFits(local[p][r], counted[r][p])
          /\ counted[r][p] \in SUBSET Hit /\ IsFiniteSet(counted[r][p])
      BY RateShapes
    <2>2. LET v == IF local[p][r].age + 1 >= Window THEN Over ELSE [local[p][r] EXCEPT !.age = @ + 1]
          IN  v \in LocalRow /\ LocalFits(v, Aged(counted[r][p]))
      BY <2>1, LocalAges
    <2>3. local'[p][r] =
            IF local[p][r].age + 1 >= Window THEN Over ELSE [local[p][r] EXCEPT !.age = @ + 1]
      BY DEF RateTick
    <2> QED BY <2>2, <2>3
  <1>4. RateTypeOK'
    <2>1. log' \in [Rule -> LogRow]
      BY <1>2 DEF RateTick
    <2>2. local' \in [Process -> [Rule -> LocalRow]]
      BY <1>3 DEF RateTick
    <2>3. counted' \in [Rule -> [Counter -> SUBSET Hit]]
      BY <1>1 DEF RateTick
    <2>4. ahead' = ahead /\ check' = check
      BY DEF RateTick
    <2> QED BY <2>1, <2>2, <2>3, <2>4 DEF RateInv, RateTypeOK, LogRow, LocalRow
  <1>5. Redis \in Counter /\ Process \subseteq Counter
    BY RateShapes
  <1>6. \A r \in Rule : /\ LogFits(log'[r], counted'[r][Redis])
                        /\ \A p \in Process : LocalFits(local'[p][r], counted'[r][p])
    BY <1>1, <1>2, <1>3, <1>5
  <1> QED BY <1>1, <1>4, <1>6 DEF RateInv
-----------------------------------------------------------------------------
(* A rule is checked: by the script, by the process, or by both. *)
Checks(p, r, scripted, hit) ==
  /\ IF scripted THEN Script(p, r) ELSE UNCHANGED log
  /\ IF hit THEN HitLocal(p, r) ELSE UNCHANGED local
  /\ Counts(p, r, scripted /\ Room(p, r), hit /\ Fits(p, r))

LEMMA ChecksInv ==
  ASSUME RateInv, NEW p \in Process, NEW r \in Rule, NEW scripted \in BOOLEAN, NEW hit \in BOOLEAN,
         Checks(p, r, scripted, hit), check' \in [Process -> 0..Rules], ahead' = ahead
  PROVE  RateInv'
  <1> DEFINE R == counted[r][Redis]
             C == counted[r][p]
             h == NewHit(log[r].members, ahead[p])
             n == NewHit(counted[r][p], ahead[p])
  <1>0. /\ Redis \in Counter /\ p \in Counter /\ p # Redis
        /\ log[r] \in LogRow /\ LogFits(log[r], R) /\ log[r].members \in SUBSET Hit
        /\ local[p][r] \in LocalRow /\ LocalFits(local[p][r], C)
        /\ IsFiniteSet(log[r].members) /\ R \in SUBSET Hit /\ IsFiniteSet(R)
        /\ C \in SUBSET Hit /\ IsFiniteSet(C) /\ ahead[p] \in Clock
    BY RateShapes
  <1>1. /\ counted' = [counted EXCEPT ![r] = counted'[r]]
        /\ counted'[r] = [counted[r] EXCEPT
             ![Redis] = R \cup (IF scripted /\ Room(p, r) THEN {h} ELSE {}),
             ![p] = C \cup (IF hit /\ Fits(p, r) THEN {n} ELSE {})]
    <2>1. counted[r] \in [Counter -> SUBSET Hit] /\ counted \in [Rule -> [Counter -> SUBSET Hit]]
      BY DEF RateInv, RateTypeOK
    <2>2. counted' = [counted EXCEPT
             ![r][Redis] = @ \cup (IF scripted /\ Room(p, r) THEN {h} ELSE {}),
             ![r][p] = @ \cup (IF hit /\ Fits(p, r) THEN {NewHit(@, ahead[p])} ELSE {})]
      BY DEF Checks, Counts
    <2> QED BY <1>0, <2>1, <2>2
  <1>2. /\ counted'[r][Redis] = R \cup (IF scripted /\ Room(p, r) THEN {h} ELSE {})
        /\ counted'[r][p] = C \cup (IF hit /\ Fits(p, r) THEN {n} ELSE {})
        /\ \A q \in Counter \ {p, Redis} : counted'[r][q] = counted[r][q]
        /\ \A s \in Rule \ {r} : counted'[s] = counted[s]
        /\ counted'[r] \in [Counter -> {counted'[r][c] : c \in Counter}]
    BY <1>0, <1>1 DEF RateInv, RateTypeOK
  <1>3. /\ log'[r] \in LogRow /\ LogFits(log'[r], counted'[r][Redis])
        /\ counted'[r][Redis] \in SUBSET Hit /\ IsFiniteSet(counted'[r][Redis])
    <2> DEFINE P == Pruned(p, r)
    <2>1. /\ P \in SUBSET log[r].members
          /\ \A g \in log[r].members : g.age < Window - Skew => g \in P
      <3>1. ASSUME NEW g \in log[r].members, g.age < Window - Skew
            PROVE  g.age + ahead[p] < Window + g.clock
        <4>1. /\ g.age \in Nat /\ g.clock \in Nat /\ ahead[p] \in Nat /\ ahead[p] <= Skew
              /\ Window \in Nat /\ Skew \in Nat
          BY <1>0, RateAssumption DEF Hit, Age, Clock
        <4> QED BY <3>1, <4>1
      <3> QED BY <3>1 DEF Pruned
    <2>2. /\ [members |-> P, idle |-> 0] \in LogRow /\ LogFits([members |-> P, idle |-> 0], R)
          /\ Cardinality(P) < Limit =>
               LET Q == [members |-> P \cup {h}, idle |-> 0]
               IN  Q \in LogRow /\ LogFits(Q, R \cup {h}) /\ R \cup {h} \in SUBSET Hit
                   /\ IsFiniteSet(R \cup {h})
      <3> HIDE DEF P
      <3> QED BY <1>0, <2>1, LogScripted
    <2>3. CASE ~scripted
      BY <1>0, <1>2, <2>3 DEF Checks
    <2>4. CASE scripted /\ Room(p, r)
      <3>1. log'[r] = [members |-> P \cup {h}, idle |-> 0]
        BY <2>4 DEF Checks, Script, RateInv, RateTypeOK
      <3>2. Cardinality(P) < Limit /\ counted'[r][Redis] = R \cup {h}
        BY <1>2, <2>4 DEF Room
      <3> QED BY <2>2, <3>1, <3>2
    <2>5. CASE scripted /\ ~Room(p, r)
      <3>1. log'[r] = [members |-> P, idle |-> 0]
        BY <2>5 DEF Checks, Script, RateInv, RateTypeOK
      <3>2. counted'[r][Redis] = R
        BY <1>2, <2>5
      <3> QED BY <1>0, <2>2, <3>1, <3>2
    <2> QED BY <2>3, <2>4, <2>5
  <1>4. /\ local'[p][r] \in LocalRow /\ LocalFits(local'[p][r], counted'[r][p])
        /\ counted'[r][p] \in SUBSET Hit /\ IsFiniteSet(counted'[r][p])
    <2> DEFINE w == local[p][r]
               v == IF w = Over THEN [age |-> 0, count |-> 1]
                    ELSE IF w.count < Limit THEN [w EXCEPT !.count = @ + 1] ELSE w
    <2>1. n \in Hit /\ n \notin C /\ n.age = 0
      BY <1>0, NewHitIsNew
    <2>2. CASE ~hit
      BY <1>0, <1>2, <2>2 DEF Checks
    <2>3. CASE hit
      <3>1. local'[p][r] = v
        <4>1. local \in [Process -> [Rule -> LocalRow]]
          BY DEF RateInv, RateTypeOK, LocalRow
        <4>2. local' = [local EXCEPT ![p] = [local[p] EXCEPT ![r] = v]]
          BY <1>0, <2>3, <4>1 DEF Checks, HitLocal, Fits, LocalRow
        <4> HIDE DEF v, w
        <4> QED BY <4>1, <4>2
      <3>2. counted'[r][p] = C \cup (IF w.count < Limit THEN {n} ELSE {})
        BY <1>2, <2>3 DEF Fits
      <3>3. v \in LocalRow /\ LocalFits(v, C \cup (IF w.count < Limit THEN {n} ELSE {}))
        <4> HIDE DEF n, C
        <4> QED BY <1>0, <2>1, LocalHits
      <3>4. IsFiniteSet(C \cup {n}) /\ C \cup {n} \in SUBSET Hit
        BY <1>0, <2>1, FS_AddElement
      <3> HIDE DEF v, w, n, C
      <3> QED BY <1>0, <3>1, <3>2, <3>3, <3>4
    <2> QED BY <2>2, <2>3
  <1>5. /\ log' \in [Rule -> LogRow]
        /\ \A s \in Rule \ {r} : log'[s] = log[s] /\ \A q \in Process : local'[q][s] = local[q][s]
        /\ \A q \in Process \ {p} : local'[q] = local[q]
        /\ local' \in [Process -> [Rule -> LocalRow]]
    <2>1. log \in [Rule -> LogRow] /\ local \in [Process -> [Rule -> LocalRow]]
      BY DEF RateInv, RateTypeOK, LogRow, LocalRow
    <2>2. log' = [log EXCEPT ![r] = log'[r]]
      BY <2>1 DEF Checks, Script
    <2>3. local' = [local EXCEPT ![p] = [local[p] EXCEPT ![r] = local'[p][r]]]
      BY <2>1 DEF Checks, HitLocal
    <2> QED BY <1>3, <1>4, <2>1, <2>2, <2>3
  <1>6. \A s \in Rule, c \in Counter : counted'[s][c] \in SUBSET Hit /\ IsFiniteSet(counted'[s][c])
    <2> TAKE s \in Rule, c \in Counter
    <2>1. counted[s][c] \in SUBSET Hit /\ IsFiniteSet(counted[s][c])
      BY RateShapes
    <2> QED BY <1>2, <1>3, <1>4, <2>1
  <1>7. \A s \in Rule : /\ LogFits(log'[s], counted'[s][Redis])
                        /\ \A q \in Process : LocalFits(local'[q][s], counted'[s][q])
    <2> TAKE s \in Rule
    <2>1. LogFits(log[s], counted[s][Redis]) /\ \A q \in Process : LocalFits(local[q][s], counted[s][q])
      BY RateShapes
    <2>2. CASE s # r
      BY <1>2, <1>5, <2>1, <2>2
    <2>3. CASE s = r
      <3>1. ASSUME NEW q \in Process PROVE LocalFits(local'[q][r], counted'[r][q])
        <4>1. CASE q = p
          BY <1>4, <4>1
        <4>2. CASE q # p
          <5>1. q \in Counter \ {p, Redis}
            BY <4>2, RateShapes
          <5>2. local'[q][r] = local[q][r] /\ counted'[r][q] = counted[r][q]
            BY <1>2, <1>5, <4>2, <5>1
          <5> QED BY <2>1, <2>3, <5>2
        <4> QED BY <4>1, <4>2
      <3> QED BY <1>3, <2>3, <3>1
    <2> QED BY <2>2, <2>3
  <1>8. RateTypeOK'
    <2>1. counted' \in [Rule -> [Counter -> SUBSET Hit]]
      <3>1. counted \in [Rule -> [Counter -> SUBSET Hit]]
        BY DEF RateInv, RateTypeOK
      <3>2. counted'[r] \in [Counter -> SUBSET Hit]
        BY <1>2, <1>6
      <3> QED BY <1>1, <3>1, <3>2
    <2> QED BY <1>5, <2>1 DEF RateInv, RateTypeOK, LogRow, LocalRow
  <1> HIDE DEF R, C, h, n
  <1> QED BY <1>6, <1>7, <1>8 DEF RateInv

LEMMA RateNextInv == RateInv /\ [RateNext]_rateVars => RateInv'
  <1> SUFFICES ASSUME RateInv, [RateNext]_rateVars PROVE RateInv'
    OBVIOUS
  <1>0. check \in [Process -> 0..Rules] /\ Rules \in Nat /\ \A p \in Process : check[p] \in 0..Rules
    BY RateAssumption DEF RateInv, RateTypeOK
  <1>1. CASE RateTick
    BY <1>1, TickInv
  <1>2. ASSUME NEW p \in Process, CheckBegins(p) PROVE RateInv'
    <2>1. check' \in [Process -> 0..Rules]
      BY <1>0, <1>2, RateAssumption DEF CheckBegins
    <2>2. UNCHANGED <<ahead, log, local, counted>>
      BY <1>2 DEF CheckBegins
    <2> QED BY <2>1, <2>2 DEF RateInv, RateTypeOK
  <1>3. ASSUME NEW p \in Process, check[p] # 0, Goes(p)
        PROVE  check[p] \in Rule /\ check' \in [Process -> 0..Rules]
    BY <1>0, <1>3 DEF Goes, Rule
  <1>4. ASSUME NEW p \in Process, Slide(p) PROVE RateInv'
    <2>1. check[p] # 0 /\ Goes(p) /\ Checks(p, check[p], TRUE, FALSE) /\ ahead' = ahead
      BY <1>4 DEF Slide, Checks, Counts
    <2>2. check[p] \in Rule /\ check' \in [Process -> 0..Rules]
      BY <1>3, <2>1
    <2> QED BY <2>1, <2>2, ChecksInv
  <1>5. ASSUME NEW p \in Process, NEW ran \in BOOLEAN, FallBack(p, ran) PROVE RateInv'
    <2>1. check[p] # 0 /\ Goes(p) /\ Checks(p, check[p], ran, TRUE) /\ ahead' = ahead
      BY <1>5 DEF FallBack, Checks, Counts
    <2>2. check[p] \in Rule /\ check' \in [Process -> 0..Rules]
      BY <1>3, <2>1
    <2> QED BY <2>1, <2>2, ChecksInv
  <1>6. CASE UNCHANGED rateVars
    BY <1>6 DEF rateVars, RateInv, RateTypeOK
  <1> QED BY <1>1, <1>2, <1>4, <1>5, <1>6 DEF RateNext

LEMMA RateInvLimits == RateInv => LimitsHold
  <1> SUFFICES ASSUME RateInv PROVE LimitsHold
    OBVIOUS
  <1>0. Window \in Nat /\ Skew \in Nat /\ Skew < Window /\ Limit \in Nat /\ Limit > 0
    BY RateAssumption
  <1>1. \A h \in Hit : h.age \in Nat /\ h.clock \in Nat /\ h.clock <= Skew
    BY RateAssumption DEF Hit, Age, Clock
  <1>2. ASSUME NEW r \in Rule
        PROVE  Cardinality({h \in counted[r][Redis] : h.age < Window - Skew}) <= Limit
    <2> DEFINE A == {h \in counted[r][Redis] : h.age < Window - Skew}
    <2>1. A \subseteq log[r].members /\ IsFiniteSet(log[r].members)
          /\ Cardinality(log[r].members) <= Limit
      BY RateShapes DEF LogFits
    <2> HIDE DEF A
    <2>2. /\ Cardinality(A) <= Cardinality(log[r].members) /\ Cardinality(A) \in Nat
          /\ Cardinality(log[r].members) \in Nat
      BY <2>1, FS_Subset, FS_CardinalityType
    <2>3. Cardinality(A) <= Limit
      BY <1>0, <2>1, <2>2
    <2> QED BY <2>3 DEF A
  <1>3. ASSUME NEW r \in Rule, NEW p \in Process
        PROVE  /\ Cardinality({h \in counted[r][p] : h.age < Window}) < 2 * Limit
               /\ ~Fits(p, r) => Cardinality({h \in counted[r][p] : h.age < Window}) >= Limit
    <2> DEFINE C == counted[r][p]
               w == local[p][r]
               B == Band(C, 0, Window)
    <2>1. C \in SUBSET Hit /\ IsFiniteSet(C) /\ w \in LocalRow /\ LocalFits(w, C)
      BY RateShapes
    <2>2. w.age \in Nat /\ w.count \in Nat /\ w.count <= Limit /\ Over.count = 0
      BY <1>0, <2>1 DEF LocalRow, Over
    <2>3. {h \in C : h.age < Window} = B /\ IsFiniteSet(B) /\ Cardinality(B) \in Nat
      BY <1>1, <2>1, BandFinite DEF Band
    <2>4. CASE w.age < Window
      <3> DEFINE X == Band(C, 0, w.age + 1)
                 Y == Band(C, w.age + 1, Window)
      <3>1. B = X \cup Y /\ X \cap Y = {}
        BY <1>0, <1>1, <2>1, <2>2, <2>4 DEF Band
      <3>2. IsFiniteSet(X) /\ IsFiniteSet(Y) /\ Cardinality(X) \in Nat /\ Cardinality(Y) \in Nat
        BY <2>1, BandFinite
      <3>3. Cardinality(X) = w.count /\ Cardinality(Y) < Limit
        BY <2>1, <2>4 DEF LocalFits
      <3> HIDE DEF X, Y, B
      <3>4. Cardinality(B) = Cardinality(X) + Cardinality(Y) - Cardinality({})
        BY <3>1, <3>2, FS_Union
      <3>5. Cardinality(B) = Cardinality(X) + Cardinality(Y)
        BY <3>2, <3>4, FS_EmptySet
      <3>6. Cardinality(B) < 2 * Limit /\ (~(w.count < Limit) => Cardinality(B) >= Limit)
        <4> HIDE DEF w
        <4> QED BY <1>0, <2>2, <3>2, <3>3, <3>5
      <3> QED BY <2>3, <3>6 DEF Fits
    <2>5. CASE ~(w.age < Window)
      <3>1. Cardinality(B) < Limit /\ w = Over
        BY <2>1, <2>5 DEF LocalFits
      <3>2. Fits(p, r)
        BY <1>0, <2>2, <3>1 DEF Fits
      <3>3. Cardinality(B) < 2 * Limit
        <4> HIDE DEF B
        <4> QED BY <1>0, <2>3, <3>1
      <3> QED BY <2>3, <3>2, <3>3
    <2> QED BY <2>4, <2>5
  <1>4. ASSUME NEW r \in Rule, NEW p \in Process, ~Room(p, r)
        PROVE  Cardinality({h \in counted[r][Redis] : h.age < Window + Skew}) >= Limit
    <2> DEFINE A == {h \in counted[r][Redis] : h.age < Window + Skew}
    <2>1. /\ log[r].members \subseteq counted[r][Redis] /\ counted[r][Redis] \in SUBSET Hit
          /\ IsFiniteSet(counted[r][Redis]) /\ IsFiniteSet(log[r].members) /\ ahead[p] \in Nat
      BY RateShapes, <1>0 DEF LogFits, Clock
    <2>2. Pruned(p, r) \subseteq A
      <3>1. ASSUME NEW h \in Pruned(p, r) PROVE h.age < Window + Skew
        <4>1. /\ h.age + ahead[p] < Window + h.clock /\ h.age \in Nat /\ h.clock \in Nat
              /\ h.clock <= Skew
          BY <1>1, <2>1 DEF Pruned
        <4> QED BY <1>0, <2>1, <4>1
      <3> QED BY <2>1, <3>1 DEF Pruned
    <2>3. IsFiniteSet(A)
      BY <2>1, FS_Subset
    <2> HIDE DEF A
    <2>4. /\ Cardinality(Pruned(p, r)) <= Cardinality(A) /\ Cardinality(A) \in Nat
          /\ Cardinality(Pruned(p, r)) \in Nat
      BY <2>2, <2>3, FS_Subset, FS_CardinalityType
    <2>5. Cardinality(A) >= Limit
      BY <1>0, <1>4, <2>4 DEF Room
    <2> QED BY <2>5 DEF A
  <1> QED BY <1>2, <1>3, <1>4 DEF LimitsHold, NeverOver, RefusedFull

(* The state of the rate limits has its type. *)
THEOREM RateTypesCorrect == RateSpec => []RateTypeOK
  <1>1. RateInv => RateTypeOK
    BY DEF RateInv
  <1> QED BY <1>1, RateInitInv, RateNextInv, PTL DEF RateSpec

(***************************************************************************)
(* In every trailing window Redis counts at most the limit, and a process  *)
(* on its own less than twice of it; and who is refused has used it up     *)
(* (BR-014): for any number of replicas, rules and hits, whatever their    *)
(* clocks, and however often Redis fails in between.                       *)
(***************************************************************************)
THEOREM LimitsAlwaysHold == RateSpec => []LimitsHold
  <1> QED BY RateInitInv, RateNextInv, RateInvLimits, PTL DEF RateSpec
=============================================================================
