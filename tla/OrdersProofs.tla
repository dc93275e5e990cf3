---------------------------- MODULE OrdersProofs ----------------------------
(***************************************************************************)
(* What module Orders promises, proved for any set of orders and customers *)
(* and any amounts.                                                        *)
(*                                                                         *)
(* Almost everything said of an order is said of one row and its audit     *)
(* rows.  So the actions are first brought down to what they do to a       *)
(* single order: a step leaves it alone, or it is one of the five changes  *)
(* below (lemma OneOrder); the invariants then go by those five.           *)
(***************************************************************************)
EXTENDS Orders, SequenceTheorems, TLAPS

Same(o) == orders'[o] = orders[o] /\ audit'[o] = audit[o]

Logged(o, to, by) == audit'[o] = Append(audit[o], [to |-> to, by |-> by])

Born(o) ==
  \E method \in Method, c \in Customer, ship \in Nat, courier \in BOOLEAN,
     by \in Actor :
    /\ orders[o].status = "none"
    /\ orders'[o] = NewRow(method, c, ship, courier)
    /\ Logged(o, "pending", by)

MovedTo(o, to, by) ==
  /\ orders[o].status # "none"
  /\ to \in Allowed[orders[o].status]
  /\ orders'[o] = MovedRow(orders[o], to)
  /\ Logged(o, to, by)

Moved(o) == \E to \in Status, by \in Actor : MovedTo(o, to, by)

Edited(o) ==
  \E ship \in Nat, readdress \in BOOLEAN :
    /\ orders[o].status = "pending"
    /\ copy[o].version = orders[o].version
    /\ orders'[o] = EditedRow(orders[o], ship, readdress)
    /\ audit'[o] = audit[o]

Refunds(o) ==
  /\ orders[o].status = "cancelled"
  /\ "paid" \in orders[o].stamps /\ "refunded" \notin orders[o].stamps
  /\ orders'[o] = RefundedRow(orders[o])
  /\ Logged(o, "refunded", "staff")

Scrubbed(o) ==
  /\ orders[o].status # "none"
  /\ orders'[o] = Redacted(orders[o])
  /\ audit'[o] = audit[o]

Change(o) == \/ Same(o) \/ Born(o) \/ Moved(o) \/ Edited(o) \/ Refunds(o)
             \/ Scrubbed(o)
-----------------------------------------------------------------------------
LEMMA RoutesAreMoves ==
  ASSUME NEW o \in Order, TypeOK, NEW to \in Status, NEW named, NEW by \in Actor,
         Transition(o, to, named, by)
  PROVE  MovedTo(o, to, by) /\ \A p \in Order : p # o => Same(p)
  BY DEF Transition, MovedTo, Logged, Log, Same, TypeOK, Placed

(* Each action, seen from one order. *)
LEMMA OneOrder ==
  ASSUME TypeOK, [Next]_orderVars
  PROVE  \A p \in Order : Change(p)
<1> SUFFICES ASSUME NEW p \in Order PROVE Change(p)
  OBVIOUS
<1> USE DEF Change
<1>1. ASSUME NEW o \in Order, Read(o) PROVE Change(p)
  BY <1>1 DEF Read, Same
<1>2. ASSUME NEW o \in Order, StaffNext(o) PROVE Change(p)
  <2>1. ASSUME NEW c \in Customer, NEW ship \in Shipping, NEW courier \in BOOLEAN,
               Place(o, "bank_transfer", c, ship, courier, "staff")
        PROVE  Change(p)
    <3>1. ship \in Nat
      BY OrdersAssumption
    <3>2. CASE p # o
      BY <2>1, <3>2 DEF Place, Log, Same, TypeOK
    <3>3. CASE p = o
      <4>1. Born(p)
        BY <2>1, <3>1, <3>3 DEF Place, Placed, Log, Logged, Born, TypeOK,
           Method, Actor
      <4> QED BY <4>1
    <3> QED BY <3>2, <3>3
  <2>2. ASSUME NEW to \in Routes, NEW named \in BOOLEAN,
               Transition(o, to, named, "staff")
        PROVE  Change(p)
    <3>1. to \in Status /\ "staff" \in Actor
      BY OrdersAssumption DEF Status, Actor
    <3> QED BY <2>2, <3>1, RoutesAreMoves DEF Moved
  <2>3. ASSUME NEW ship \in Shipping \cup {orders[o].ship}, NEW readdress \in BOOLEAN,
               UpdatePending(o, ship, readdress)
        PROVE  Change(p)
    <3>1. ship \in Nat
      BY OrdersAssumption DEF TypeOK, Row
    <3>2. CASE p # o
      BY <2>3, <3>2 DEF UpdatePending, Same, TypeOK
    <3>3. CASE p = o
      <4>1. Edited(p)
        BY <2>3, <3>1, <3>3 DEF UpdatePending, Editable, Edited, TypeOK
      <4> QED BY <4>1
    <3> QED BY <3>2, <3>3
  <2>4. ASSUME Refund(o) PROVE Change(p)
    <3>1. CASE p # o
      BY <2>4, <3>1 DEF Refund, Log, Same, TypeOK
    <3>2. CASE p = o
      <4>1. Refunds(p)
        BY <2>4, <3>2 DEF Refund, Refundable, Refunds, Log, Logged, TypeOK
      <4> QED BY <4>1
    <3> QED BY <3>1, <3>2
  <2> QED BY <1>2, <2>1, <2>2, <2>3, <2>4 DEF StaffNext
<1>3. ASSUME NEW o \in Order, ShopperNext(o) PROVE Change(p)
  <2> PICK method \in Method, c \in Customer, ship \in Shipping :
         Place(o, method, c, ship, TRUE, "shopper")
    BY <1>3 DEF ShopperNext
  <2>1. ship \in Nat
    BY OrdersAssumption
  <2>2. CASE p # o
    BY <2>2 DEF Place, Log, Same, TypeOK
  <2>3. CASE p = o
    <3>1. Born(p)
      BY <2>1, <2>3 DEF Place, Placed, Log, Logged, Born, TypeOK, Actor
    <3> QED BY <3>1
  <2> QED BY <2>2, <2>3
<1>4. ASSUME NEW o \in Order, MidtransNext(o) PROVE Change(p)
  <2>1. "paid" \in Status /\ "midtrans" \in Actor
    BY DEF Status, Actor
  <2> QED BY <1>4, <2>1, RoutesAreMoves DEF MidtransNext, Moved
<1>5. ASSUME NEW c \in Customer, Redact(c) PROVE Change(p)
  <2>1. CASE p \in OrdersOf(c)
    <3>1. Scrubbed(p)
      BY <1>5, <2>1 DEF Redact, OrdersOf, Scrubbed, Placed
    <3> QED BY <3>1
  <2>2. CASE p \notin OrdersOf(c)
    BY <1>5, <2>2 DEF Redact, Same
  <2> QED BY <2>1, <2>2
<1>6. ASSUME UNCHANGED orderVars PROVE Change(p)
  BY <1>6 DEF orderVars, Same
<1> QED BY <1>1, <1>2, <1>3, <1>4, <1>5, <1>6 DEF Next
-----------------------------------------------------------------------------
(* The rows the handlers write are rows. *)
LEMMA RowsAreRows ==
  /\ NoRow \in Row
  /\ \A method \in Method, c \in Customer, ship \in Nat, courier \in BOOLEAN :
       NewRow(method, c, ship, courier) \in Row
  /\ \A row \in Row :
       /\ \A to \in Status : MovedRow(row, to) \in Row
       /\ \A ship \in Nat, readdress \in BOOLEAN : EditedRow(row, ship, readdress) \in Row
       /\ RefundedRow(row) \in Row
       /\ Redacted(row) \in Row
<1>1. NoRow \in Row
  <2>1. (CHOOSE c \in Customer : TRUE) \in Customer
    BY OrdersAssumption
  <2> QED BY <2>1 DEF NoRow, Row, Status, Method, Stamp
<1>2. ASSUME NEW method \in Method, NEW c \in Customer, NEW ship \in Nat,
             NEW courier \in BOOLEAN
      PROVE  NewRow(method, c, ship, courier) \in Row
  BY OrdersAssumption DEF NewRow, Row, Status, TotalWith
<1>3. ASSUME NEW row \in Row, NEW to \in Status PROVE MovedRow(row, to) \in Row
  <2> DEFINE tracked == IF to = "shipped" THEN TRUE ELSE row.tracked
  <2>1. tracked \in BOOLEAN
    BY DEF Row
  <2>2. MovedRow(row, to) =
          [row EXCEPT !.status = to, !.stamps = row.stamps \cup ({to} \cap Stamp),
                      !.tracked = tracked, !.version = row.version + 1]
    BY DEF MovedRow
  <2>3. row.stamps \cup ({to} \cap Stamp) \in SUBSET Stamp /\ row.version + 1 \in Nat
    BY DEF Row
  <2> HIDE DEF tracked
  <2> QED BY <2>1, <2>2, <2>3 DEF Row
<1>4. ASSUME NEW row \in Row, NEW ship \in Nat, NEW readdress \in BOOLEAN
      PROVE  EditedRow(row, ship, readdress) \in Row
  <2> DEFINE private == IF readdress THEN TRUE ELSE row.private
  <2>1. private \in BOOLEAN
    BY DEF Row
  <2>2. TotalWith(ship) \in Nat
    BY OrdersAssumption DEF TotalWith
  <2>3. EditedRow(row, ship, readdress) =
          [row EXCEPT !.ship = ship, !.total = TotalWith(ship),
                      !.private = private, !.version = row.version + 1]
    BY DEF EditedRow
  <2>4. row.version + 1 \in Nat
    BY DEF Row
  <2> HIDE DEF private
  <2> QED BY <2>1, <2>2, <2>3, <2>4 DEF Row
<1>5. ASSUME NEW row \in Row
      PROVE  RefundedRow(row) \in Row /\ Redacted(row) \in Row
  <2>1. row.stamps \cup {"refunded"} \in SUBSET Stamp /\ row.version + 1 \in Nat
    BY DEF Row, Stamp
  <2> QED BY <2>1 DEF RefundedRow, Redacted, Row
<1> QED BY <1>1, <1>2, <1>3, <1>4, <1>5

LEMMA LogKeepsType ==
  ASSUME TypeOK, NEW o \in Order, NEW to \in Status \cup {"refunded"},
         NEW by \in Actor, Log(o, to, by)
  PROVE  audit' \in [Order -> Seq(Entry)]
<1>1. [to |-> to, by |-> by] \in Entry
  BY DEF Entry
<1>2. Append(audit[o], [to |-> to, by |-> by]) \in Seq(Entry)
  BY <1>1, AppendProperties DEF TypeOK
<1> QED BY <1>2 DEF Log, TypeOK

LEMMA TransitionKeepsType ==
  ASSUME TypeOK, NEW o \in Order, NEW to \in Status, NEW named, NEW by \in Actor,
         Transition(o, to, named, by)
  PROVE  TypeOK'
<1>1. audit' \in [Order -> Seq(Entry)]
  BY LogKeepsType DEF Transition
<1> QED BY <1>1, RowsAreRows DEF Transition, TypeOK

LEMMA PlaceKeepsType ==
  ASSUME TypeOK, NEW o \in Order, NEW method \in Method, NEW c \in Customer,
         NEW ship \in Shipping, NEW courier \in BOOLEAN, NEW by \in Actor,
         Place(o, method, c, ship, courier, by)
  PROVE  TypeOK'
<1>1. audit' \in [Order -> Seq(Entry)]
  BY LogKeepsType DEF Place, Status
<1>2. ship \in Nat
  BY OrdersAssumption
<1> QED BY <1>1, <1>2, RowsAreRows DEF Place, TypeOK

LEMMA TypeStep ==
  ASSUME TypeOK, [Next]_orderVars
  PROVE  TypeOK'
<1>1. ASSUME NEW o \in Order, Read(o) PROVE TypeOK'
  BY <1>1 DEF Read, TypeOK
<1>2. ASSUME NEW o \in Order, StaffNext(o) PROVE TypeOK'
  <2>1. ASSUME NEW c \in Customer, NEW ship \in Shipping, NEW courier \in BOOLEAN,
               Place(o, "bank_transfer", c, ship, courier, "staff")
        PROVE  TypeOK'
    BY <2>1, PlaceKeepsType DEF Method, Actor
  <2>2. ASSUME NEW to \in Routes, NEW named \in BOOLEAN,
               Transition(o, to, named, "staff")
        PROVE  TypeOK'
    <3>1. to \in Status /\ "staff" \in Actor
      BY OrdersAssumption DEF Status, Actor
    <3> QED BY <2>2, <3>1, TransitionKeepsType
  <2>3. ASSUME NEW ship \in Shipping \cup {orders[o].ship}, NEW readdress \in BOOLEAN,
               UpdatePending(o, ship, readdress)
        PROVE  TypeOK'
    <3>1. ship \in Nat
      BY OrdersAssumption DEF TypeOK, Row
    <3> QED BY <2>3, <3>1, RowsAreRows DEF UpdatePending, TypeOK
  <2>4. ASSUME Refund(o) PROVE TypeOK'
    <3>1. audit' \in [Order -> Seq(Entry)]
      BY <2>4, LogKeepsType DEF Refund, Actor
    <3> QED BY <2>4, <3>1, RowsAreRows DEF Refund, TypeOK
  <2> QED BY <1>2, <2>1, <2>2, <2>3, <2>4 DEF StaffNext
<1>3. ASSUME NEW o \in Order, ShopperNext(o) PROVE TypeOK'
  BY <1>3, PlaceKeepsType DEF ShopperNext, Actor
<1>4. ASSUME NEW o \in Order, MidtransNext(o) PROVE TypeOK'
  <2>1. "paid" \in Status /\ "midtrans" \in Actor
    BY DEF Status, Actor
  <2> QED BY <1>4, <2>1, TransitionKeepsType DEF MidtransNext
<1>5. ASSUME NEW c \in Customer, Redact(c) PROVE TypeOK'
  BY <1>5, RowsAreRows DEF Redact, TypeOK
<1>6. ASSUME UNCHANGED orderVars PROVE TypeOK'
  BY <1>6 DEF orderVars, TypeOK
<1> QED BY <1>1, <1>2, <1>3, <1>4, <1>5, <1>6 DEF Next

(***************************************************************************)
(* The tables hold rows of the schema's shape, whatever the handlers do.   *)
(***************************************************************************)
THEOREM TypeCorrect == Spec => []TypeOK
<1>1. Init => TypeOK
  BY RowsAreRows, EmptySeq DEF Init, TypeOK
<1>2. TypeOK /\ [Next]_orderVars => TypeOK'
  BY TypeStep
<1> QED BY <1>1, <1>2, PTL DEF Spec
-----------------------------------------------------------------------------
(***************************************************************************)
(* The invariant that carries the rest.  A row alone does not say enough:  *)
(* that a paid order is refunded at most once, or packed only when paid,   *)
(* needs to know that a pending row carries no timestamp yet.              *)
(***************************************************************************)
Standing(row) ==
  /\ row.status \in {"none", "pending"} => row.stamps = {}
  /\ row.status \in {"paid", "processing", "shipped", "completed"} =>
       "paid" \in row.stamps
  /\ row.status \in {"shipped", "completed"} => row.tracked
  /\ "refunded" \in row.stamps => row.status = "cancelled" /\ "paid" \in row.stamps
  /\ row.status # "none" => row.total = Net + row.ship

Sound == \A o \in Order : Standing(orders[o])

LEMMA SoundStep ==
  ASSUME TypeOK, Sound, [Next]_orderVars
  PROVE  Sound'
<1> SUFFICES ASSUME NEW o \in Order PROVE Standing(orders'[o])
  BY DEF Sound
<1> DEFINE row == orders[o]
<1>0. row \in Row /\ Standing(row) /\ Change(o)
  BY OneOrder DEF TypeOK, Sound
<1>1. CASE Same(o)
  BY <1>0, <1>1 DEF Same
<1>2. CASE Born(o)
  BY <1>2 DEF Born, NewRow, TotalWith, Standing
<1>3. CASE Moved(o)
  <2> PICK to \in Status, by \in Actor : MovedTo(o, to, by)
    BY <1>3 DEF Moved
  <2>1. /\ orders'[o].status = to
        /\ orders'[o].stamps = row.stamps \cup ({to} \cap Stamp)
        /\ orders'[o].total = row.total /\ orders'[o].ship = row.ship
        /\ row.status # "none" /\ to \in Allowed[row.status]
    BY <1>0 DEF MovedTo, MovedRow, Row
  <2>2. row.tracked \/ to = "shipped" => orders'[o].tracked
    BY <1>0 DEF MovedTo, MovedRow, Row
  <2>3. row.status \in Status
    BY <1>0, <2>1 DEF Row
  <2>4. \A s : s \in orders'[o].stamps <=> s \in row.stamps \/ (s = to /\ to \in Stamp)
    BY <2>1
  <2>5. /\ row.status # "cancelled"
        /\ to # "pending"
        /\ to \in {"processing", "shipped", "completed"} =>
             row.status \in {"paid", "processing", "shipped", "completed"}
        /\ to = "completed" => row.status = "shipped"
    BY <2>1, <2>3 DEF Allowed, Status
  <2> HIDE DEF row
  <2>6. "refunded" \notin row.stamps /\ to # "refunded" /\ to # "none"
    BY <1>0, <2>5 DEF Standing, Status
  <2> QED BY <1>0, <2>1, <2>2, <2>4, <2>5, <2>6 DEF Standing, Stamp, Status
<1>4. CASE Edited(o)
  BY <1>0, <1>4 DEF Edited, EditedRow, TotalWith, Standing, Row
<1>5. CASE Refunds(o)
  <2>1. /\ orders'[o].status = row.status /\ row.status = "cancelled"
        /\ orders'[o].stamps = row.stamps \cup {"refunded"}
        /\ orders'[o].total = row.total /\ orders'[o].ship = row.ship
        /\ "paid" \in row.stamps
    BY <1>0, <1>5 DEF Refunds, RefundedRow, Row
  <2> HIDE DEF row
  <2> QED BY <1>0, <2>1 DEF Standing
<1>6. CASE Scrubbed(o)
  BY <1>0, <1>6 DEF Scrubbed, Redacted, Standing, Row
<1> QED BY <1>0, <1>1, <1>2, <1>3, <1>4, <1>5, <1>6 DEF Change

LEMMA SoundAlways == Spec => []Sound
<1>1. Init => Sound
  <2>1. Standing(NoRow)
    BY DEF Standing, NoRow
  <2> QED BY <2>1 DEF Init, Sound
<1>2. TypeOK /\ Sound /\ [Next]_orderVars => Sound'
  BY SoundStep
<1> QED BY <1>1, <1>2, TypeCorrect, PTL DEF Spec

(***************************************************************************)
(* The CHECKs on the orders table never refuse a handler's write.          *)
(***************************************************************************)
THEOREM ChecksAlwaysHold == Spec => []ChecksHold
<1>1. Sound => ChecksHold
  BY DEF Sound, Standing, ChecksHold, Placed
<1> QED BY <1>1, SoundAlways, PTL

(***************************************************************************)
(* No order is packed, sent or received before it was paid.                *)
(***************************************************************************)
THEOREM NeverWorkUnpaid == Spec => []PaidBeforeWork
<1>1. Sound => PaidBeforeWork
  BY DEF Sound, Standing, PaidBeforeWork
<1> QED BY <1>1, SoundAlways, PTL
-----------------------------------------------------------------------------
(* One entry more: what stays, what is last, and what the log now holds. *)
LEMMA OneMoreEntry ==
  ASSUME NEW log \in Seq(Entry), NEW e \in Entry
  PROVE  /\ Append(log, e) \in Seq(Entry) /\ Append(log, e) # <<>>
         /\ Len(log) \in Nat /\ Len(Append(log, e)) = Len(log) + 1
         /\ \A i \in 1..Len(log) : Append(log, e)[i] = log[i]
         /\ Append(log, e)[Len(log) + 1] = e
  BY AppendProperties, LenProperties

LEMMA WroteOneMore ==
  ASSUME NEW log \in Seq(Entry), NEW e \in Entry, NEW t
  PROVE  Wrote(Append(log, e), t) <=> Wrote(log, t) \/ e.to = t
<1>1. ASSUME Wrote(log, t) PROVE Wrote(Append(log, e), t)
  BY <1>1, OneMoreEntry DEF Wrote
<1>2. ASSUME e.to = t PROVE Wrote(Append(log, e), t)
  <2>1. Len(log) + 1 \in 1..Len(Append(log, e))
    BY OneMoreEntry
  <2> QED BY <1>2, <2>1, OneMoreEntry DEF Wrote
<1>3. ASSUME Wrote(Append(log, e), t), e.to # t PROVE Wrote(log, t)
  <2> PICK i \in 1..Len(Append(log, e)) : Append(log, e)[i].to = t
    BY <1>3 DEF Wrote
  <2>1. i # Len(log) + 1 /\ i \in 1..Len(log)
    BY <1>3, OneMoreEntry
  <2> QED BY <2>1, OneMoreEntry DEF Wrote
<1> QED BY <1>1, <1>2, <1>3

(* A log that ends where its row was still replays with one more entry,
   when the entry follows and the row takes its status and timestamp. *)
LEMMA ReplaysOn ==
  ASSUME NEW log \in Seq(Entry), NEW row, NEW e \in Entry, NEW row2,
         Replays(log, row), Follows(log[Len(log)].to, e.to),
         e.to = IF "refunded" \in row2.stamps THEN "refunded" ELSE row2.status,
         \A t \in Stamp : t \in row2.stamps <=> t \in row.stamps \/ t = e.to
  PROVE  Replays(Append(log, e), row2)
<1> DEFINE log2 == Append(log, e)
<1>1. /\ log2 # <<>> /\ Len(log) \in Nat /\ Len(log2) = Len(log) + 1
      /\ \A i \in 1..Len(log) : log2[i] = log[i]
      /\ log2[Len(log) + 1] = e
  BY OneMoreEntry
<1>2. log # <<>> /\ Len(log) \in Nat \ {0}
  BY EmptySeq DEF Replays
<1>3. \A t \in Stamp : t \in row2.stamps <=> Wrote(log2, t)
  BY WroteOneMore DEF Replays
<1> HIDE DEF log2
<1>4. log2[1].to = "pending"
  BY <1>1, <1>2 DEF Replays
<1>5. ASSUME NEW i \in 1..(Len(log2) - 1)
      PROVE  Follows(log2[i].to, log2[i + 1].to)
  <2>1. CASE i = Len(log)
    BY <1>1, <1>2, <2>1
  <2>2. CASE i # Len(log)
    <3>1. i \in 1..(Len(log) - 1) /\ i \in 1..Len(log) /\ i + 1 \in 1..Len(log)
      BY <1>1, <1>2, <2>2
    <3>2. Follows(log[i].to, log[i + 1].to)
      BY <3>1 DEF Replays
    <3> QED BY <1>1, <3>1, <3>2
  <2> QED BY <2>1, <2>2
<1>6. Replays(log2, row2)
  BY <1>1, <1>3, <1>4, <1>5 DEF Replays
<1> QED BY <1>6 DEF log2

LEMMA AuditStep ==
  ASSUME TypeOK, Sound, AuditReplays, [Next]_orderVars
  PROVE  AuditReplays'
<1> SUFFICES ASSUME NEW o \in Order
             PROVE  IF orders'[o].status # "none" THEN Replays(audit'[o], orders'[o])
                    ELSE audit'[o] = <<>>
  BY DEF AuditReplays, Placed
<1> DEFINE row == orders[o]
           row2 == orders'[o]
           log == audit[o]
           log2 == audit'[o]
<1>0. /\ row \in Row /\ log \in Seq(Entry) /\ Standing(row) /\ Change(o)
      /\ row.status # "none" => Replays(log, row)
      /\ row.status = "none" => log = <<>>
  BY OneOrder DEF TypeOK, Sound, AuditReplays, Placed
<1>1. CASE Same(o)
  BY <1>0, <1>1 DEF Same
<1>2. CASE Born(o)
  <2> PICK by \in Actor : Logged(o, "pending", by)
    BY <1>2 DEF Born
  <2> DEFINE e == [to |-> "pending", by |-> by]
  <2>1. e \in Entry /\ e.to = "pending"
    BY DEF Entry, Status
  <2>2. log = <<>> /\ row2.status = "pending" /\ row2.stamps = {}
    BY <1>0, <1>2 DEF Born, NewRow
  <2>3. log2 = Append(log, e)
    BY DEF Logged
  <2> HIDE DEF e, log, log2, row2
  <2>4. /\ log2 # <<>> /\ Len(log2) = 1 /\ log2[1] = e
        /\ \A t \in Stamp : ~Wrote(log2, t)
    <3>1. Len(log) = 0
      BY <2>2, EmptySeq
    <3>2. \A t : ~Wrote(log, t)
      BY <3>1 DEF Wrote
    <3>3. \A t \in Stamp : ~Wrote(log2, t)
      BY <1>0, <2>1, <2>3, <3>2, WroteOneMore DEF Stamp
    <3> QED BY <1>0, <2>1, <2>3, <3>1, <3>3, OneMoreEntry
  <2>5. Replays(log2, row2)
    BY <2>1, <2>2, <2>4 DEF Replays
  <2> QED BY <2>2, <2>5 DEF log2, row2
<1>3. CASE Moved(o)
  <2> PICK to \in Status, by \in Actor : MovedTo(o, to, by)
    BY <1>3 DEF Moved
  <2> DEFINE e == [to |-> to, by |-> by]
  <2>1. e \in Entry /\ e.to = to /\ log2 = Append(log, e)
    BY DEF Entry, MovedTo, Logged
  <2>2. /\ row2.status = to /\ row2.stamps = row.stamps \cup ({to} \cap Stamp)
        /\ row.status # "none" /\ to \in Allowed[row.status]
    BY <1>0 DEF MovedTo, MovedRow, Row
  <2>3. row.status \in Status
    BY <1>0, <2>2 DEF Row
  <2>4. row.status # "cancelled" /\ to # "refunded" /\ to # "none"
    BY <2>2, <2>3 DEF Allowed, Status
  <2>5. "refunded" \notin row.stamps
    BY <1>0, <2>4 DEF Standing
  <2>6. Follows(log[Len(log)].to, e.to)
    BY <1>0, <2>1, <2>2, <2>3, <2>5 DEF Replays, Follows
  <2>7. /\ e.to = IF "refunded" \in row2.stamps THEN "refunded" ELSE row2.status
        /\ \A t \in Stamp : t \in row2.stamps <=> t \in row.stamps \/ t = e.to
    BY <2>1, <2>2, <2>4, <2>5
  <2> HIDE DEF e, row, row2, log, log2
  <2>8. Replays(log2, row2)
    BY <1>0, <2>1, <2>2, <2>6, <2>7, ReplaysOn
  <2> QED BY <2>2, <2>4, <2>8 DEF log2, row2
<1>4. CASE Edited(o)
  <2>1. /\ row2.status = row.status /\ row2.stamps = row.stamps /\ log2 = log
        /\ row.status # "none"
    BY <1>0, <1>4 DEF Edited, EditedRow, Row
  <2> QED BY <1>0, <2>1 DEF Replays
<1>5. CASE Refunds(o)
  <2> DEFINE e == [to |-> "refunded", by |-> "staff"]
  <2>1. e \in Entry /\ e.to = "refunded" /\ log2 = Append(log, e)
    BY <1>5 DEF Entry, Actor, Refunds, Logged
  <2>2. /\ row2.status = row.status /\ row.status = "cancelled"
        /\ row2.stamps = row.stamps \cup {"refunded"}
        /\ "refunded" \notin row.stamps
    BY <1>0, <1>5 DEF Refunds, RefundedRow, Row
  <2>3. Follows(log[Len(log)].to, e.to)
    BY <1>0, <2>1, <2>2 DEF Replays, Follows
  <2>4. /\ e.to = IF "refunded" \in row2.stamps THEN "refunded" ELSE row2.status
        /\ \A t \in Stamp : t \in row2.stamps <=> t \in row.stamps \/ t = e.to
    BY <2>1, <2>2
  <2> HIDE DEF e, row, row2, log, log2
  <2>5. Replays(log2, row2)
    BY <1>0, <2>1, <2>2, <2>3, <2>4, ReplaysOn
  <2> QED BY <2>2, <2>5 DEF row2, log2
<1>6. CASE Scrubbed(o)
  <2>1. /\ row2.status = row.status /\ row2.stamps = row.stamps /\ log2 = log
        /\ row.status # "none"
    BY <1>0, <1>6 DEF Scrubbed, Redacted, Row
  <2> QED BY <1>0, <2>1 DEF Replays
<1> QED BY <1>0, <1>1, <1>2, <1>3, <1>4, <1>5, <1>6 DEF Change

(***************************************************************************)
(* The audit log of every order replays to the order as it is (BR-073),    *)
(* whatever the handlers did and in whichever order.                       *)
(***************************************************************************)
THEOREM AuditAlwaysReplays == Spec => []AuditReplays
<1>1. Init => AuditReplays
  <2>1. NoRow.status = "none"
    BY DEF NoRow
  <2> QED BY <2>1 DEF Init, AuditReplays, Placed
<1>2. TypeOK /\ Sound /\ AuditReplays /\ [Next]_orderVars => AuditReplays'
  BY AuditStep
<1> QED BY <1>1, <1>2, TypeCorrect, SoundAlways, PTL DEF Spec
-----------------------------------------------------------------------------
(***************************************************************************)
(* Version numbers can stand for rows in If-Match because each change of a *)
(* row moves its version on: a copy is never ahead of its row, and one     *)
(* that has the row's version is the row.                                  *)
(***************************************************************************)
CopyIsPast ==
  \A o \in Order :
    /\ copy[o].version =< orders[o].version
    /\ copy[o].version = orders[o].version => copy[o] = orders[o]
    /\ orders[o].status = "none" => orders[o].version = 0

LEMMA CopyChanges ==
  ASSUME TypeOK, [Next]_orderVars, NEW p \in Order
  PROVE  copy'[p] = copy[p] \/ (copy'[p] = orders[p] /\ Same(p))
<1>1. ASSUME NEW o \in Order, Read(o)
      PROVE  copy'[p] = copy[p] \/ (copy'[p] = orders[p] /\ Same(p))
  BY <1>1 DEF Read, Same, TypeOK
<1>2. ASSUME NEW o \in Order, StaffNext(o) PROVE copy'[p] = copy[p]
  BY <1>2 DEF StaffNext, Place, Transition, UpdatePending, Refund
<1>3. ASSUME NEW o \in Order, ShopperNext(o) PROVE copy'[p] = copy[p]
  BY <1>3 DEF ShopperNext, Place
<1>4. ASSUME NEW o \in Order, MidtransNext(o) PROVE copy'[p] = copy[p]
  BY <1>4 DEF MidtransNext, Transition
<1>5. ASSUME NEW c \in Customer, Redact(c) PROVE copy'[p] = copy[p]
  BY <1>5 DEF Redact
<1>6. ASSUME UNCHANGED orderVars PROVE copy'[p] = copy[p]
  BY <1>6 DEF orderVars
<1> QED BY <1>1, <1>2, <1>3, <1>4, <1>5, <1>6 DEF Next

(* What a change does to the version. *)
LEMMA VersionMovesOn ==
  ASSUME TypeOK, CopyIsPast, NEW o \in Order, Change(o), ~Same(o)
  PROVE  orders'[o].version = orders[o].version + 1 /\ orders'[o].status # "none"
<1> orders[o] \in Row
  BY DEF TypeOK
<1>1. CASE Born(o)
  BY <1>1 DEF Born, NewRow, CopyIsPast
<1>2. CASE Moved(o)
  <2> PICK to \in Status, by \in Actor : MovedTo(o, to, by)
    BY <1>2 DEF Moved
  <2> QED BY DEF MovedTo, MovedRow, Row, Status
<1>3. CASE Edited(o)
  BY <1>3 DEF Edited, EditedRow, Row
<1>4. CASE Refunds(o)
  BY <1>4 DEF Refunds, RefundedRow, Row
<1>5. CASE Scrubbed(o)
  BY <1>5 DEF Scrubbed, Redacted, Row
<1> QED BY <1>1, <1>2, <1>3, <1>4, <1>5 DEF Change

LEMMA CopyStep ==
  ASSUME TypeOK, CopyIsPast, [Next]_orderVars
  PROVE  CopyIsPast'
<1> SUFFICES ASSUME NEW o \in Order
             PROVE  /\ copy'[o].version =< orders'[o].version
                    /\ copy'[o].version = orders'[o].version => copy'[o] = orders'[o]
                    /\ orders'[o].status = "none" => orders'[o].version = 0
  BY DEF CopyIsPast
<1>0. orders[o].version \in Nat /\ copy[o].version \in Nat
  BY DEF TypeOK, Row
<1>1. CASE Same(o)
  BY <1>0, <1>1, CopyChanges DEF CopyIsPast, Same
<1>2. CASE ~Same(o)
  <2>1. copy'[o] = copy[o]
    BY <1>2, CopyChanges
  <2>2. orders'[o].version = orders[o].version + 1 /\ orders'[o].status # "none"
    BY <1>2, OneOrder, VersionMovesOn
  <2> QED BY <1>0, <2>1, <2>2 DEF CopyIsPast
<1> QED BY <1>1, <1>2

(***************************************************************************)
(* No PATCH is accepted over a row its author has not seen (BR-010).       *)
(***************************************************************************)
THEOREM NoUpdateIsLost == Spec => NoLostUpdate
<1>1. Init => CopyIsPast
  <2>1. NoRow.version = 0
    BY DEF NoRow
  <2>2. ASSUME Init, NEW o \in Order PROVE orders[o] = NoRow /\ copy[o] = NoRow
    BY <2>2 DEF Init
  <2>3. NoRow.version =< NoRow.version
    BY <2>1
  <2> QED BY <2>1, <2>2, <2>3 DEF CopyIsPast
<1>2. TypeOK /\ CopyIsPast /\ [Next]_orderVars => CopyIsPast'
  BY CopyStep
<1>3. CopyIsPast =>
        [\A o \in Order :
           (\E ship \in Shipping \cup {orders[o].ship}, readdress \in BOOLEAN :
              UpdatePending(o, ship, readdress)) => copy[o] = orders[o]]_orderVars
  BY DEF CopyIsPast, UpdatePending
<1> QED BY <1>1, <1>2, <1>3, TypeCorrect, PTL DEF Spec, NoLostUpdate

(***************************************************************************)
(* The amounts of an order that has left pending are settled, and its      *)
(* timestamps are there to stay (BR-079).                                  *)
(***************************************************************************)
THEOREM TermsStaySettled == Spec => SettledTerms
<1>1. ASSUME TypeOK, [Next]_orderVars, NEW o \in Order, Placed(o)
      PROVE  /\ orders[o].stamps \subseteq orders'[o].stamps
             /\ orders[o].status # "pending" =>
                  /\ orders'[o].total = orders[o].total
                  /\ orders'[o].ship = orders[o].ship
  <2>0. orders[o] \in Row /\ orders[o].status # "none" /\ Change(o)
    BY <1>1, OneOrder DEF TypeOK, Placed
  <2>1. CASE Same(o)
    BY <2>1 DEF Same
  <2>2. CASE Moved(o)
    BY <2>0, <2>2 DEF Moved, MovedTo, MovedRow, Row
  <2>3. CASE Edited(o)
    BY <2>0, <2>3 DEF Edited, EditedRow, Row
  <2>4. CASE Refunds(o)
    BY <2>0, <2>4 DEF Refunds, RefundedRow, Row
  <2>5. CASE Scrubbed(o)
    BY <2>0, <2>5 DEF Scrubbed, Redacted, Row
  <2> QED BY <2>0, <2>1, <2>2, <2>3, <2>4, <2>5 DEF Change, Born
<1>2. TypeOK /\ [Next]_orderVars =>
        [\A o \in Order : Placed(o) =>
           /\ orders[o].stamps \subseteq orders'[o].stamps
           /\ orders[o].status # "pending" =>
                /\ orders'[o].total = orders[o].total
                /\ orders'[o].ship = orders[o].ship]_orderVars
  BY <1>1
<1> QED BY <1>2, TypeCorrect, PTL DEF Spec, SettledTerms
-----------------------------------------------------------------------------
(* A purge redacts several rows; every other step changes one. *)
LEMMA OneAtATime ==
  ASSUME TypeOK, [Next]_orderVars
  PROVE  \/ \A p \in Order : Same(p) \/ Scrubbed(p)
         \/ \E o \in Order : \A p \in Order : p # o => Same(p)
<1>1. ASSUME NEW o \in Order, Read(o) PROVE \A p \in Order : Same(p)
  BY <1>1 DEF Read, Same
<1>2. ASSUME NEW o \in Order, StaffNext(o) \/ ShopperNext(o) \/ MidtransNext(o)
      PROVE  \A p \in Order : p # o => Same(p)
  BY <1>2 DEF StaffNext, ShopperNext, MidtransNext, Place, Transition,
     UpdatePending, Refund, Log, Same, TypeOK
<1>3. ASSUME NEW c \in Customer, Redact(c)
      PROVE  \A p \in Order : Same(p) \/ Scrubbed(p)
  BY <1>3 DEF Redact, OrdersOf, Placed, Same, Scrubbed
<1>4. ASSUME UNCHANGED orderVars PROVE \A p \in Order : Same(p)
  BY <1>4 DEF orderVars, Same
<1> QED BY <1>1, <1>2, <1>3, <1>4 DEF Next

(* What a change does to the stage of an order. *)
LEMMA StageMoves ==
  ASSUME NEW o \in Order, orders[o] \in Row, Standing(orders[o]), Change(o)
  PROVE  LET from == StageOf(orders[o])
             to == StageOf(orders'[o])
         IN  \/ to = from
             \/ from = "unplaced" /\ to = "awaited"
             \/ from = "awaited" /\ to \in {"funded", "dropped"}
             \/ from = "funded" /\ to \in {"earned", "owed"}
             \/ from = "owed" /\ to = "returned"
<1> DEFINE row == orders[o]
           row2 == orders'[o]
<1>1. CASE Same(o)
  BY <1>1 DEF Same
<1>2. CASE Born(o)
  BY <1>2 DEF Born, NewRow, StageOf
<1>3. CASE Moved(o)
  <2> PICK to \in Status, by \in Actor : MovedTo(o, to, by)
    BY <1>3 DEF Moved
  <2>1. /\ row2.status = to /\ row2.stamps = row.stamps \cup ({to} \cap Stamp)
        /\ row.status \in Status /\ to \in Allowed[row.status]
    BY DEF MovedTo, MovedRow, Row
  <2>2. \A t : t \in row2.stamps <=> t \in row.stamps \/ (t = to /\ to \in Stamp)
    BY <2>1
  <2> HIDE DEF row, row2
  <2>3. \/ row.status = "pending" /\ to \in {"paid", "cancelled"}
        \/ row.status = "paid" /\ to \in {"processing", "cancelled"}
        \/ row.status = "processing" /\ to \in {"shipped", "cancelled"}
        \/ row.status = "shipped" /\ to = "completed"
    BY <2>1 DEF Allowed, Status
  <2>4. "refunded" \notin row.stamps /\ "refunded" \notin row2.stamps
    BY <2>2, <2>3 DEF Standing, row
  <2>5. CASE row.status = "pending"
    <3>1. "paid" \notin row.stamps
      BY <2>5 DEF Standing, row
    <3>2. to = "cancelled" => "paid" \notin row2.stamps
      BY <2>2, <3>1
    <3> QED BY <2>1, <2>3, <2>4, <2>5, <3>2 DEF StageOf, row, row2
  <2>6. CASE row.status \in {"paid", "processing"}
    <3>1. "paid" \in row2.stamps
      BY <2>2, <2>6 DEF Standing, row
    <3> QED BY <2>1, <2>3, <2>4, <2>6, <3>1 DEF StageOf, row, row2
  <2>7. CASE row.status = "shipped"
    BY <2>1, <2>3, <2>7 DEF StageOf, row, row2
  <2> QED BY <2>3, <2>5, <2>6, <2>7
<1>4. CASE Edited(o)
  <2>1. row.status = "pending" /\ row2.status = "pending"
    BY <1>4 DEF Edited, EditedRow, Row
  <2> QED BY <2>1 DEF StageOf
<1>5. CASE Refunds(o)
  <2>1. /\ row.status = "cancelled" /\ row2.status = "cancelled"
        /\ "paid" \in row.stamps /\ "refunded" \notin row.stamps
        /\ "paid" \in row2.stamps /\ "refunded" \in row2.stamps
    BY <1>5 DEF Refunds, RefundedRow, Row
  <2> QED BY <2>1 DEF StageOf
<1>6. CASE Scrubbed(o)
  <2>1. row2.status = row.status /\ row2.stamps = row.stamps
    BY <1>6 DEF Scrubbed, Redacted, Row
  <2> QED BY <2>1 DEF StageOf
<1> QED BY <1>1, <1>2, <1>3, <1>4, <1>5, <1>6 DEF Change

LEMMA LifecycleStep ==
  ASSUME TypeOK, Sound, [Next]_orderVars
  PROVE  [Lifecycle!Next]_([o \in Order |-> StageOf(orders[o])])
<1> DEFINE stage == [o \in Order |-> StageOf(orders[o])]
           stage2 == [o \in Order |-> StageOf(orders'[o])]
<1>1. CASE \A p \in Order : Same(p) \/ Scrubbed(p)
  <2>1. ASSUME NEW p \in Order PROVE StageOf(orders'[p]) = StageOf(orders[p])
    <3>0. orders[p] \in Row
      BY DEF TypeOK
    <3>1. orders'[p].status = orders[p].status /\ orders'[p].stamps = orders[p].stamps
      BY <1>1, <3>0 DEF Same, Scrubbed, Redacted, Row
    <3> QED BY <3>1 DEF StageOf
  <2> QED BY <2>1
<1>2. CASE \E o \in Order : \A p \in Order : p # o => Same(p)
  <2> PICK o \in Order : \A p \in Order : p # o => Same(p)
    BY <1>2
  <2>1. stage2 = [stage EXCEPT ![o] = StageOf(orders'[o])]
    BY DEF Same
  <2>2. LET from == StageOf(orders[o])
            to == StageOf(orders'[o])
        IN  \/ to = from
            \/ from = "unplaced" /\ to = "awaited"
            \/ from = "awaited" /\ to \in {"funded", "dropped"}
            \/ from = "funded" /\ to \in {"earned", "owed"}
            \/ from = "owed" /\ to = "returned"
    <3>1. orders[o] \in Row /\ Standing(orders[o]) /\ Change(o)
      BY OneOrder DEF TypeOK, Sound
    <3> QED BY <3>1, StageMoves
  <2>3. CASE stage2 = stage
    BY <2>3
  <2>4. CASE StageOf(orders'[o]) # StageOf(orders[o])
    BY <2>1, <2>2, <2>4 DEF Lifecycle!Next, Lifecycle!Step
  <2> QED BY <2>1, <2>3, <2>4
<1> QED BY <1>1, <1>2, OneAtATime

(***************************************************************************)
(* The handlers implement the lifecycle the shop is promised: each of them *)
(* takes one order one stage on, or changes no stage (BR-070, BR-075).     *)
(***************************************************************************)
THEOREM HandlersKeepLifecycle == Spec => ImplementsLifecycle
<1>1. Init => Lifecycle!Init
  <2>1. StageOf(NoRow) = "unplaced"
    BY DEF StageOf, NoRow
  <2> QED BY <2>1 DEF Init, Lifecycle!Init
<1>2. TypeOK /\ Sound /\ [Next]_orderVars
        => [Lifecycle!Next]_([o \in Order |-> StageOf(orders[o])])
  BY LifecycleStep
<1> QED BY <1>1, <1>2, TypeCorrect, SoundAlways, PTL
        DEF Spec, ImplementsLifecycle, Lifecycle!Spec
=============================================================================
