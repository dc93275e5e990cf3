--------------------------- MODULE PaymentsProofs ---------------------------
(***************************************************************************)
(* What module Payments promises, proved for any orders, attempts and      *)
(* handlers at work.  The orders' part is not proved again: a step of      *)
(* Payments is, for the orders, one of Orders' own steps or none           *)
(* (OrdersStep), so the theorems of OrdersProofs carry over.               *)
(***************************************************************************)
EXTENDS Payments, OrdersProofs

(* The payments, Midtrans' and handlers' part of PayTypeOK. *)
OwnTypeOK ==
  /\ pay \in [Order -> [Attempts -> Payment]]
  /\ latest \in [Order -> 0..MaxAttempts]
  /\ asking \in [Order -> BOOLEAN]
  /\ snap \in [Order -> {"idle", "asking", "storing"}]
  /\ taking \in BOOLEAN
  /\ flagged \subseteq Order \X Attempts
  /\ mt \in [Order -> [Attempts -> Transaction]]
  /\ notes \subseteq Note
  /\ hooks \subseteq Hook

(* Pay-again waits only for an attempt there is room for. *)
AskingFits == \A o \in Order : asking[o] => latest[o] < MaxAttempts

AskingPlaced == \A o \in Order : asking[o] => Placed(o)

(* Midtrans notifies of what the shopper has begun. *)
NotesTold == \A o \in Order, a \in Attempts, told \in Told :
               <<o, a, told>> \in notes => mt[o][a].state \in Told

LEMMA TypeParts == PayTypeOK <=> TypeOK /\ OwnTypeOK
  BY DEF PayTypeOK, OwnTypeOK
-----------------------------------------------------------------------------
(* A step of Payments is a step of Orders, or does nothing to them. *)
LEMMA OrdersStep ==
  ASSUME OwnTypeOK, [PayNext]_vars
  PROVE  [Next]_orderVars
<1>1. ASSUME OrderSteps PROVE [Next]_orderVars
  BY <1>1 DEF OrderSteps, Next
<1>2. ASSUME NEW o \in Order, NEW c \in Customer, NEW ship \in Shipping,
             Checkout(o, c, ship)
      PROVE  Next
  BY <1>2 DEF Checkout, Next, ShopperNext, Method
<1>3. ASSUME NEW o \in Order, LinkSteps(o) PROVE UNCHANGED orderVars
  BY <1>3 DEF LinkSteps, SnapAnswers, SnapFails, StoreLink, StoreFails, PayAgain,
     PayAgainOpens, PayAgainFails, PayAgainDies, Commit
<1>4. ASSUME NEW o \in Order, NEW a \in Attempts,
             \/ LinkExpires(o, a) \/ MidtransSteps(o, a)
             \/ \E told \in Told : NoteSteps(o, a, told)
      PROVE  UNCHANGED orderVars
  BY <1>4 DEF LinkExpires, MidtransSteps, ShopperPicks, ShopperPays, MidtransEnds,
     MidtransMoves, NoteSteps, Receive, Ignore
<1>5. ASSUME NEW h \in hooks, NEW acked \in BOOLEAN, Apply(h, acked)
      PROVE  [Next]_orderVars
  <2>1. h.note[1] \in Order
    BY <1>5 DEF OwnTypeOK, Hook, Note
  <2> DEFINE o == h.note[1]
             a == h.note[2]
  <2>2. MoneyArrives(o, a) \/ UNCHANGED orderVars
    BY <1>5 DEF Apply
  <2>3. MoneyArrives(o, a) => MidtransNext(o) \/ UNCHANGED orderVars
    BY DEF MoneyArrives, MidtransNext
  <2> QED BY <2>1, <2>2, <2>3 DEF Next
<1>6. ASSUME NEW h \in hooks, HookDies(h) PROVE UNCHANGED orderVars
  BY <1>6 DEF HookDies
<1>7. ASSUME SetTaking \/ UNCHANGED vars PROVE UNCHANGED orderVars
  BY <1>7 DEF SetTaking, vars
<1> QED BY <1>1, <1>2, <1>3, <1>4, <1>5, <1>6, <1>7 DEF PayNext, HandlerEnds
-----------------------------------------------------------------------------
LEMMA UpdateAt ==
  ASSUME NEW S, NEW f \in [Order -> [Attempts -> S]], NEW o \in Order,
         NEW a \in Attempts, NEW v \in S
  PROVE  [f EXCEPT ![o][a] = v] \in [Order -> [Attempts -> S]]
  OBVIOUS

(* The values the actions write. *)
LEMMA PaymentsArePayments ==
  /\ NoPayment \in Payment
  /\ \A o \in Order, link \in BOOLEAN :
       orders[o] \in Row => NewAttempt(o, link) \in Payment
  /\ \A p \in Payment :
       /\ [p EXCEPT !.link = TRUE] \in Payment
       /\ [p EXCEPT !.expired = TRUE] \in Payment
       /\ FailStale(p) \in Payment
       /\ \A status \in PayStatus \cup {"none"} :
            [p EXCEPT !.status = status] \in Payment
  /\ \A amount \in Nat :
       [NoPayment EXCEPT !.status = "pending", !.amount = amount] \in Payment
<1>1. NoPayment \in Payment
  BY DEF NoPayment, Payment
<1>2. ASSUME NEW o \in Order, NEW link \in BOOLEAN, orders[o] \in Row
      PROVE  NewAttempt(o, link) \in Payment
  <2>1. orders[o].total \in Nat
    BY <1>2 DEF Row
  <2> QED BY <2>1 DEF NewAttempt, NoPayment, Payment, PayStatus
<1>3. ASSUME NEW p \in Payment
      PROVE  /\ [p EXCEPT !.link = TRUE] \in Payment
             /\ [p EXCEPT !.expired = TRUE] \in Payment
             /\ FailStale(p) \in Payment
  BY DEF Payment, FailStale, PayStatus
<1>4. ASSUME NEW p \in Payment, NEW status \in PayStatus \cup {"none"}
      PROVE  [p EXCEPT !.status = status] \in Payment
  BY DEF Payment
<1>5. ASSUME NEW amount \in Nat
      PROVE  [NoPayment EXCEPT !.status = "pending", !.amount = amount] \in Payment
  BY DEF NoPayment, Payment, PayStatus
<1> QED BY <1>1, <1>2, <1>3, <1>4, <1>5

LEMMA OpenedIsTyped ==
  ASSUME OwnTypeOK, NEW o \in Order, NEW a \in Attempts
  PROVE  Opened(o, a) \in [Order -> [Attempts -> Transaction]]
<1> DEFINE t == [mt[o][a] EXCEPT !.state = "open"]
<1>0. mt[o][a] \in Transaction
  BY DEF OwnTypeOK
<1>1. t \in Transaction
  BY <1>0 DEF Transaction
<1>2. [mt EXCEPT ![o][a].state = "open"] = [mt EXCEPT ![o][a] = t]
  OBVIOUS
<1> QED BY <1>1, <1>2, UpdateAt DEF Opened, OwnTypeOK

LEMMA OutcomeIsStatus ==
  ASSUME NEW p \in Payment, NEW total, NEW answer \in Told, NEW exact
  PROVE  Outcome(p, total, answer, exact) \in PayStatus \cup {"none"}
  BY DEF Outcome, Payment, PayStatus

(* What Midtrans does is a move to a status it can tell. *)
LEMMA SomeMove ==
  ASSUME NEW o \in Order, NEW a \in Attempts, MidtransSteps(o, a)
  PROVE  \E from \in {{"open"}, {"open", "pending"}}, to \in Told, exact \in BOOLEAN :
           MidtransMoves(o, a, from, to, exact)
<1>1. CASE ShopperPicks(o, a)
  <2>1. MidtransMoves(o, a, {"open"}, "pending", TRUE)
    BY <1>1 DEF ShopperPicks
  <2> QED BY <2>1 DEF Told
<1>2. CASE MidtransEnds(o, a)
  <2>1. MidtransMoves(o, a, {"open", "pending"}, "expire", TRUE)
    BY <1>2 DEF MidtransEnds
  <2> QED BY <2>1 DEF Told
<1>3. ASSUME NEW exact \in BOOLEAN, ShopperPays(o, a, exact)
      PROVE  \E from \in {{"open"}, {"open", "pending"}}, to \in Told :
               MidtransMoves(o, a, from, to, exact)
  <2>1. MidtransMoves(o, a, {"open", "pending"}, "settlement", exact)
    BY <1>3 DEF ShopperPays
  <2> QED BY <2>1 DEF Told
<1> QED BY <1>1, <1>2, <1>3 DEF MidtransSteps

LEMMA OwnTypeStep ==
  ASSUME TypeOK, OwnTypeOK, AskingFits, AskingPlaced, NotesTold, [PayNext]_vars
  PROVE  OwnTypeOK' /\ AskingFits'
<1> USE PaymentsAssumption DEF OwnTypeOK, AskingFits
<1>1. ASSUME OrderSteps PROVE OwnTypeOK' /\ AskingFits'
  BY <1>1 DEF OrderSteps, payVars, mtVars
<1>2. ASSUME NEW o \in Order, NEW c \in Customer, NEW ship \in Shipping,
             Checkout(o, c, ship)
      PROVE  OwnTypeOK' /\ AskingFits'
  <2>1. TotalWith(ship) \in Nat
    BY OrdersAssumption DEF TotalWith
  <2> DEFINE p == [NoPayment EXCEPT !.status = "pending", !.amount = TotalWith(ship)]
  <2>2. p \in Payment
    BY <2>1, PaymentsArePayments
  <2>3. 1 \in Attempts /\ 1 \in 0..MaxAttempts
    BY DEF Attempts
  <2> HIDE DEF p
  <2>4. [pay EXCEPT ![o][1] = p] \in [Order -> [Attempts -> Payment]]
    BY <2>2, <2>3, UpdateAt
  <2>5. CASE UNCHANGED <<payVars, mtVars>>
    BY <2>5 DEF payVars, mtVars
  <2>6. CASE /\ pay' = [pay EXCEPT ![o][1] = p]
             /\ latest' = [latest EXCEPT ![o] = 1]
             /\ snap' = [snap EXCEPT ![o] = "asking"]
             /\ UNCHANGED <<asking, taking, flagged, mtVars>>
             /\ ~asking[o]
    BY <2>3, <2>4, <2>6 DEF mtVars
  <2>7. ~Placed(o) /\ (asking[o] => Placed(o))
    BY <1>2 DEF Checkout, Place, AskingPlaced
  <2> QED BY <1>2, <2>5, <2>6, <2>7 DEF Checkout, p
<1>3. ASSUME NEW o \in Order, LinkSteps(o) PROVE OwnTypeOK' /\ AskingFits'
  <2>0. \A a \in Attempts : Opened(o, a) \in [Order -> [Attempts -> Transaction]]
    BY OpenedIsTyped
  <2>1. 1 \in Attempts
    BY DEF Attempts
  <2>2. CASE SnapAnswers(o) \/ SnapFails(o)
    BY <2>0, <2>1, <2>2 DEF SnapAnswers, SnapFails
  <2>3. CASE StoreLink(o)
    <3> DEFINE p == [pay[o][1] EXCEPT !.link = TRUE]
    <3>1. p \in Payment /\ pay' = [pay EXCEPT ![o][1] = p]
      BY <2>1, <2>3, PaymentsArePayments DEF StoreLink
    <3> HIDE DEF p
    <3>2. pay' \in [Order -> [Attempts -> Payment]]
      BY <2>1, <3>1, UpdateAt
    <3> QED BY <2>3, <3>2 DEF StoreLink, mtVars
  <2>4. CASE StoreFails(o)
    BY <2>4 DEF StoreFails, mtVars
  <2>5. CASE PayAgain(o)
    BY <2>5 DEF PayAgain, mtVars
  <2>6. CASE PayAgainOpens(o) \/ PayAgainFails(o)
    <3> PICK link \in BOOLEAN : Commit(o, link) /\ asking[o]
      BY <2>6 DEF PayAgainOpens, PayAgainFails
    <3> DEFINE n == latest[o] + 1
    <3>1. n \in Attempts /\ n \in 0..MaxAttempts
      BY DEF Attempts
    <3>2. NewAttempt(o, link) \in Payment
      BY PaymentsArePayments DEF TypeOK
    <3>3. \A a \in Attempts : FailStale(pay[o][a]) \in Payment
      BY PaymentsArePayments
    <3>4. pay' \in [Order -> [Attempts -> Payment]]
      BY <3>2, <3>3 DEF Commit
    <3>5. latest' \in [Order -> 0..MaxAttempts] /\ asking' = [asking EXCEPT ![o] = FALSE]
      BY <3>1 DEF Commit
    <3>6. AskingFits'
      BY <3>5 DEF Commit
    <3>7. mt' = mt \/ mt' = Opened(o, n)
      BY <2>6 DEF PayAgainOpens, PayAgainFails
    <3> QED BY <2>0, <3>1, <3>4, <3>5, <3>6, <3>7 DEF Commit
  <2>7. CASE PayAgainDies(o)
    <3>1. asking[o] /\ latest[o] + 1 \in Attempts
      BY <2>7 DEF PayAgainDies, Attempts
    <3> QED BY <2>0, <2>7, <3>1 DEF PayAgainDies
  <2> QED BY <1>3, <2>2, <2>3, <2>4, <2>5, <2>6, <2>7 DEF LinkSteps
<1>4. ASSUME NEW o \in Order, NEW a \in Attempts, LinkExpires(o, a)
      PROVE  OwnTypeOK' /\ AskingFits'
  <2> DEFINE p == [pay[o][a] EXCEPT !.expired = TRUE]
  <2>0. pay[o][a] \in Payment
    OBVIOUS
  <2>1. p \in Payment /\ pay' = [pay EXCEPT ![o][a] = p]
    BY <1>4, <2>0, PaymentsArePayments DEF LinkExpires
  <2> HIDE DEF p
  <2>2. pay' \in [Order -> [Attempts -> Payment]]
    BY <2>1, UpdateAt
  <2> QED BY <1>4, <2>2 DEF LinkExpires, mtVars
<1>5. ASSUME NEW o \in Order, NEW a \in Attempts, MidtransSteps(o, a)
      PROVE  OwnTypeOK' /\ AskingFits'
  <2> PICK from \in {{"open"}, {"open", "pending"}}, to \in Told, exact \in BOOLEAN :
         MidtransMoves(o, a, from, to, exact)
    BY <1>5, SomeMove
  <2> DEFINE t == [state |-> to, exact |-> exact]
  <2>1. t \in Transaction /\ mt' = [mt EXCEPT ![o][a] = t]
    BY DEF Transaction, MidtransMoves
  <2> HIDE DEF t
  <2>2. mt' \in [Order -> [Attempts -> Transaction]]
    BY <2>1, UpdateAt
  <2>3. notes' \subseteq Note
    BY DEF MidtransMoves, Note
  <2> QED BY <2>2, <2>3 DEF MidtransMoves, payVars
<1>6. ASSUME NEW o \in Order, NEW a \in Attempts, NEW told \in Told,
             Receive(o, a, told) \/ Ignore(o, a, told)
      PROVE  OwnTypeOK' /\ AskingFits'
  <2>1. CASE Receive(o, a, told)
    <3>1. PICK h : /\ hooks' = hooks \cup {h}
                   /\ h = [note |-> <<o, a, told>>, answer |-> mt[o][a].state,
                           exact |-> mt[o][a].exact]
      BY <2>1 DEF Receive
    <3>2. h \in Hook
      <4>1. mt[o][a].state \in Told /\ mt[o][a].exact \in BOOLEAN
        BY <2>1 DEF Receive, NotesTold, Transaction
      <4> QED BY <3>1, <4>1 DEF Hook, Note
    <3> QED BY <2>1, <3>1, <3>2 DEF Receive, payVars
  <2>2. CASE Ignore(o, a, told)
    BY <2>2 DEF Ignore, payVars
  <2> QED BY <1>6, <2>1, <2>2
<1>7. ASSUME NEW h \in hooks, HookDies(h) PROVE OwnTypeOK' /\ AskingFits'
  BY <1>7 DEF HookDies, payVars
<1>8. ASSUME NEW h \in hooks, NEW acked \in BOOLEAN, Apply(h, acked)
      PROVE  OwnTypeOK' /\ AskingFits'
  <2> DEFINE o == h.note[1]
             a == h.note[2]
             next == Outcome(pay[o][a], orders[o].total, h.answer, h.exact)
  <2>1. o \in Order /\ a \in Attempts /\ h.answer \in Told
    BY <1>8 DEF Hook, Note
  <2>2. next \in PayStatus \cup {"none"}
    BY <2>1, OutcomeIsStatus
  <2>3. pay' = [pay EXCEPT ![o][a] = [@ EXCEPT !.status = next]]
    BY <1>8 DEF Apply
  <2> DEFINE p == [pay[o][a] EXCEPT !.status = next]
  <2>4. pay' \in [Order -> [Attempts -> Payment]]
    <3>0. pay[o][a] \in Payment
      BY <2>1
    <3>1. p \in Payment /\ pay' = [pay EXCEPT ![o][a] = p]
      BY <2>1, <2>2, <2>3, <3>0, PaymentsArePayments
    <3> HIDE DEF p
    <3> QED BY <2>1, <3>1, UpdateAt
  <2>5. flagged' \subseteq Order \X Attempts
    <3>1. <<o, a>> \in Order \X Attempts
      BY <2>1
    <3>2. MoneyArrives(o, a) \/ UNCHANGED flagged
      BY <1>8 DEF Apply
    <3>3. flagged' = flagged \/ flagged' = flagged \cup {<<o, a>>}
      BY <3>2 DEF MoneyArrives
    <3> QED BY <3>1, <3>3
  <2>6. hooks' \subseteq Hook /\ notes' \subseteq Note
    BY <1>8 DEF Apply
  <2> QED BY <1>8, <2>4, <2>5, <2>6 DEF Apply
<1>9. ASSUME SetTaking \/ UNCHANGED vars PROVE OwnTypeOK' /\ AskingFits'
  BY <1>9 DEF SetTaking, vars, payVars, mtVars
<1> QED BY <1>1, <1>2, <1>3, <1>4, <1>5, <1>6, <1>7, <1>8, <1>9
        DEF PayNext, HandlerEnds, NoteSteps

(* Only a pay-again sets out to ask. *)
LEMMA AskingStarts ==
  ASSUME OwnTypeOK, [PayNext]_vars, NEW p \in Order, asking'[p]
  PROVE  asking[p] \/ PayAgain(p)
<1>1. ASSUME OrderSteps \/ SetTaking \/ UNCHANGED vars \/ HandlerEnds PROVE asking' = asking
  BY <1>1 DEF OrderSteps, SetTaking, vars, payVars, HandlerEnds, HookDies, Apply
<1>2. ASSUME NEW o \in Order, NEW c \in Customer, NEW ship \in Shipping,
             Checkout(o, c, ship)
      PROVE  asking' = asking
  BY <1>2 DEF Checkout, payVars
<1>3. ASSUME NEW o \in Order, LinkSteps(o), ~PayAgain(o)
      PROVE  asking' = asking \/ asking' = [asking EXCEPT ![o] = FALSE]
  BY <1>3 DEF LinkSteps, SnapAnswers, SnapFails, StoreLink, StoreFails,
     PayAgainOpens, PayAgainFails, PayAgainDies, Commit
<1>4. ASSUME NEW o \in Order, PayAgain(o) PROVE asking[p] \/ PayAgain(p)
  BY <1>4 DEF PayAgain, OwnTypeOK
<1>5. ASSUME NEW o \in Order, NEW a \in Attempts,
             \/ LinkExpires(o, a) \/ MidtransSteps(o, a)
             \/ \E told \in Told : NoteSteps(o, a, told)
      PROVE  asking' = asking
  BY <1>5 DEF LinkExpires, MidtransSteps, ShopperPicks, ShopperPays, MidtransEnds,
     MidtransMoves, NoteSteps, Receive, Ignore, payVars
<1> QED BY <1>1, <1>2, <1>3, <1>4, <1>5 DEF PayNext, OwnTypeOK

(* What a step does to transaction a of order p. *)
LEMMA TransactionMoves ==
  ASSUME OwnTypeOK, AskingFits, [PayNext]_vars, NEW p \in Order, NEW a \in Attempts
  PROVE  \/ mt'[p][a] = mt[p][a]
         \/ mt[p][a].state = "none" /\ mt'[p][a].state = "open"
         \/ /\ mt[p][a].state \in {"open", "pending"}
            /\ mt'[p][a].state \in Told
            /\ pay' = pay /\ hooks' = hooks
<1>0. ASSUME NEW o \in Order, NEW b \in Attempts, mt' \in {mt, Opened(o, b)}
      PROVE  \/ mt'[p][a] = mt[p][a]
             \/ mt[p][a].state = "none" /\ mt'[p][a].state = "open"
  <2> DEFINE t == [mt[o][b] EXCEPT !.state = "open"]
  <2>1. mt[o][b] \in Transaction
    BY DEF OwnTypeOK
  <2>2. t.state = "open"
    BY <2>1 DEF Transaction
  <2>3. \/ mt' = mt
        \/ mt[o][b].state = "none" /\ mt' = [mt EXCEPT ![o][b] = t]
    BY <1>0 DEF Opened
  <2> HIDE DEF t
  <2>4. CASE mt' = mt
    BY <2>4
  <2>5. CASE mt[o][b].state = "none" /\ mt' = [mt EXCEPT ![o][b] = t]
    <3>1. mt'[o][b] = t /\ (p # o \/ a # b => mt'[p][a] = mt[p][a])
      BY <2>5 DEF OwnTypeOK
    <3> QED BY <2>2, <2>5, <3>1
  <2> QED BY <2>3, <2>4, <2>5
<1>1. ASSUME OrderSteps \/ SetTaking \/ UNCHANGED vars \/ HandlerEnds PROVE mt' = mt
  BY <1>1 DEF OrderSteps, SetTaking, vars, mtVars, HandlerEnds, HookDies, Apply
<1>2. ASSUME NEW o \in Order, NEW c \in Customer, NEW ship \in Shipping,
             Checkout(o, c, ship)
      PROVE  mt' = mt
  BY <1>2 DEF Checkout, mtVars
<1>3. ASSUME NEW o \in Order, LinkSteps(o)
      PROVE  \E b \in Attempts : mt' \in {mt, Opened(o, b)}
  <2>1. 1 \in Attempts /\ (asking[o] => latest[o] + 1 \in Attempts)
    BY PaymentsAssumption DEF OwnTypeOK, AskingFits, Attempts
  <2>2. CASE SnapAnswers(o) \/ SnapFails(o) \/ StoreLink(o) \/ StoreFails(o) \/ PayAgain(o)
    BY <2>1, <2>2 DEF SnapAnswers, SnapFails, StoreLink, StoreFails, PayAgain, mtVars
  <2>3. CASE PayAgainOpens(o) \/ PayAgainFails(o) \/ PayAgainDies(o)
    BY <2>1, <2>3 DEF PayAgainOpens, PayAgainFails, PayAgainDies
  <2> QED BY <1>3, <2>2, <2>3 DEF LinkSteps
<1>4. ASSUME NEW o \in Order, NEW b \in Attempts,
             LinkExpires(o, b) \/ \E told \in Told : NoteSteps(o, b, told)
      PROVE  mt' = mt
  BY <1>4 DEF LinkExpires, NoteSteps, Receive, Ignore, mtVars
<1>5. ASSUME NEW o \in Order, NEW b \in Attempts, MidtransSteps(o, b)
      PROVE  \/ mt'[p][a] = mt[p][a]
             \/ /\ mt[p][a].state \in {"open", "pending"}
                /\ mt'[p][a].state \in Told
                /\ pay' = pay /\ hooks' = hooks
  <2> PICK from \in {{"open"}, {"open", "pending"}}, to \in Told, exact \in BOOLEAN :
         MidtransMoves(o, b, from, to, exact)
    BY <1>5, SomeMove
  <2> QED BY DEF MidtransMoves, payVars, OwnTypeOK
<1> QED BY <1>0, <1>1, <1>2, <1>3, <1>4, <1>5 DEF PayNext

LEMMA NotesAreOwed ==
  ASSUME OwnTypeOK, [PayNext]_vars, NEW o \in Order, NEW a \in Attempts, NEW told \in Told,
         <<o, a, told>> \in notes', <<o, a, told>> \notin notes
  PROVE  mt'[o][a].state \in Told
<1>1. ASSUME OrderSteps \/ SetTaking \/ UNCHANGED vars \/ HandlerEnds
      PROVE  notes' \subseteq notes
  BY <1>1 DEF OrderSteps, SetTaking, vars, mtVars, HandlerEnds, HookDies, Apply
<1>2. ASSUME NEW p \in Order, NEW c \in Customer, NEW ship \in Shipping,
             Checkout(p, c, ship)
      PROVE  notes' = notes
  BY <1>2 DEF Checkout, mtVars
<1>3. ASSUME NEW p \in Order, LinkSteps(p) PROVE notes' = notes
  BY <1>3 DEF LinkSteps, SnapAnswers, SnapFails, StoreLink, StoreFails, PayAgain,
     PayAgainOpens, PayAgainFails, PayAgainDies, Commit, mtVars
<1>4. ASSUME NEW p \in Order, NEW b \in Attempts,
             LinkExpires(p, b) \/ \E t \in Told : NoteSteps(p, b, t)
      PROVE  notes' \subseteq notes
  BY <1>4 DEF LinkExpires, NoteSteps, Receive, Ignore, mtVars
<1>5. ASSUME NEW p \in Order, NEW b \in Attempts, MidtransSteps(p, b)
      PROVE  mt'[o][a].state \in Told
  <2> PICK from \in {{"open"}, {"open", "pending"}}, to \in Told, exact \in BOOLEAN :
         MidtransMoves(p, b, from, to, exact)
    BY <1>5, SomeMove
  <2>1. <<o, a, told>> = <<p, b, to>>
    BY DEF MidtransMoves
  <2> QED BY <2>1 DEF MidtransMoves, OwnTypeOK
<1> QED BY <1>1, <1>2, <1>3, <1>4, <1>5 DEF PayNext

(* An order that is there stays there. *)
LEMMA PlacedStays ==
  ASSUME TypeOK, OwnTypeOK, [PayNext]_vars, NEW o \in Order, Placed(o)
  PROVE  Placed(o)'
<1>1. Change(o) /\ orders[o] \in Row /\ orders[o].status # "none"
  BY OrdersStep, OneOrder DEF TypeOK, Placed
<1>2. CASE Moved(o)
  BY <1>1, <1>2 DEF Moved, MovedTo, MovedRow, Row, Placed, Status
<1> QED BY <1>1, <1>2 DEF Change, Same, Born, Edited, EditedRow, Refunds,
        RefundedRow, Scrubbed, Redacted, Row, Placed

LEMMA FramesStep ==
  ASSUME TypeOK, OwnTypeOK, AskingFits, AskingPlaced, NotesTold, [PayNext]_vars
  PROVE  AskingPlaced' /\ NotesTold'
<1>0. ASSUME NEW o \in Order, Placed(o) PROVE Placed(o)'
  BY <1>0, PlacedStays
<1>1. AskingPlaced'
  <2> SUFFICES ASSUME NEW o \in Order, asking'[o] PROVE Placed(o)'
    BY DEF AskingPlaced
  <2>1. CASE asking[o]
    BY <1>0, <2>1 DEF AskingPlaced
  <2>2. CASE PayAgain(o)
    BY <1>0, <2>2 DEF PayAgain, Placed
  <2> QED BY <2>1, <2>2, AskingStarts
<1>2. NotesTold'
  <2> SUFFICES ASSUME NEW o \in Order, NEW a \in Attempts, NEW told \in Told,
                      <<o, a, told>> \in notes'
               PROVE  mt'[o][a].state \in Told
    BY DEF NotesTold
  <2>1. CASE <<o, a, told>> \in notes
    <3>1. mt[o][a].state \in Told
      BY <2>1 DEF NotesTold
    <3>2. mt[o][a].state \notin {"none"}
      BY <3>1 DEF Told
    <3> QED BY <3>1, <3>2, TransactionMoves
  <2>2. CASE <<o, a, told>> \notin notes
    BY <2>2, NotesAreOwed
  <2> QED BY <2>1, <2>2
<1> QED BY <1>1, <1>2

LEMMA OwnTypeInit ==
  PayInit => TypeOK /\ OwnTypeOK /\ AskingFits /\ AskingPlaced /\ NotesTold
<1> SUFFICES ASSUME PayInit
             PROVE  TypeOK /\ OwnTypeOK /\ AskingFits /\ AskingPlaced /\ NotesTold
  OBVIOUS
<1>1. TypeOK
  BY RowsAreRows, EmptySeq DEF PayInit, Init, TypeOK
<1>2. pay \in [Order -> [Attempts -> Payment]]
  BY PaymentsArePayments DEF PayInit
<1>3. mt \in [Order -> [Attempts -> Transaction]]
  BY DEF PayInit, Transaction
<1>4. OwnTypeOK
  BY <1>2, <1>3, PaymentsAssumption DEF PayInit, OwnTypeOK
<1>5. AskingFits /\ AskingPlaced /\ NotesTold
  BY DEF PayInit, AskingFits, AskingPlaced, NotesTold
<1> QED BY <1>1, <1>4, <1>5

TypesHold == TypeOK /\ OwnTypeOK /\ AskingFits /\ AskingPlaced /\ NotesTold

LEMMA TypesAlways == PaySpec => []TypesHold
<1>1. PayInit => TypesHold
  BY OwnTypeInit DEF TypesHold
<1>2. TypesHold /\ [PayNext]_vars => TypesHold'
  <2> SUFFICES ASSUME TypesHold, [PayNext]_vars PROVE TypesHold'
    OBVIOUS
  <2>1. TypeOK'
    BY OrdersStep, TypeStep DEF TypesHold
  <2>2. OwnTypeOK' /\ AskingFits'
    BY OwnTypeStep DEF TypesHold
  <2>3. AskingPlaced' /\ NotesTold'
    BY FramesStep DEF TypesHold
  <2> QED BY <2>1, <2>2, <2>3 DEF TypesHold
<1> QED BY <1>1, <1>2, PTL DEF PaySpec

(***************************************************************************)
(* The orders and payments tables, and what Midtrans and the handlers      *)
(* hold, keep their shape.                                                 *)
(***************************************************************************)
THEOREM PayTypeCorrect == PaySpec => []PayTypeOK
<1>1. TypesHold => PayTypeOK
  BY TypeParts DEF TypesHold
<1> QED BY <1>1, TypesAlways, PTL

(***************************************************************************)
(* Payments move orders only as module Orders lets them be moved.          *)
(***************************************************************************)
THEOREM PaymentsKeepOrders == PaySpec => ImplementsOrders
<1>1. PayInit => Init
  BY DEF PayInit
<1>2. TypesHold /\ [PayNext]_vars => [Next]_orderVars
  BY OrdersStep DEF TypesHold
<1> QED BY <1>1, <1>2, TypesAlways, PTL DEF PaySpec, Spec, ImplementsOrders
-----------------------------------------------------------------------------
(***************************************************************************)
(* What a step does to the attempts of one order: nothing that matters     *)
(* here, a first attempt with the order, the next one, or an answer of     *)
(* Midtrans applied to one of them.                                        *)
(***************************************************************************)
Alike(o, a) == /\ pay'[o][a].status = pay[o][a].status
               /\ pay'[o][a].amount = pay[o][a].amount

Kept(o) == latest'[o] = latest[o] /\ \A a \in Attempts : Alike(o, a)

First(o) ==
  /\ ~Placed(o) /\ orders'[o].status = "pending"
  /\ latest'[o] = 1
  /\ pay'[o][1].status = "pending"
  /\ \A a \in Attempts : a # 1 => Alike(o, a)

Further(o) ==
  /\ Placed(o)
  /\ latest[o] < MaxAttempts /\ latest'[o] = latest[o] + 1
  /\ pay'[o][latest[o] + 1].status = "pending"
  /\ \A a \in Attempts : a # latest[o] + 1 =>
       \/ Alike(o, a)
       \/ /\ pay[o][a].status = "pending" /\ pay'[o][a].status = "failed"
          /\ pay'[o][a].amount = pay[o][a].amount
  /\ \A a \in Attempts : a = latest[o] => pay'[o][a].status # "pending"
  /\ UNCHANGED orderVars

AnsweredBy(o, h) ==
  LET a == h.note[2]
      p == pay[o][a]
      next == Outcome(p, orders[o].total, h.answer, h.exact)
  IN  /\ h.note[1] = o
      /\ latest'[o] = latest[o]
      /\ pay'[o][a].status = next /\ pay'[o][a].amount = p.amount
      /\ \A b \in Attempts : b # a => Alike(o, b)
      /\ IF next = "paid" /\ p.status # "paid" THEN MoneyArrives(o, a)
         ELSE UNCHANGED orderVars

Answered(o) == \E h \in hooks : AnsweredBy(o, h)

LEMMA AttemptMoves ==
  ASSUME TypesHold, [PayNext]_vars, NEW p \in Order
  PROVE  Kept(p) \/ First(p) \/ Further(p) \/ Answered(p)
<1> USE PaymentsAssumption DEF TypesHold
<1>0. 1 \in Attempts
  BY DEF Attempts
<1>1. ASSUME \/ OrderSteps \/ SetTaking \/ UNCHANGED vars
             \/ \E h \in hooks : HookDies(h)
      PROVE  Kept(p)
  BY <1>1 DEF OrderSteps, SetTaking, vars, payVars, HookDies, Kept, Alike
<1>2. ASSUME NEW o \in Order, NEW c \in Customer, NEW ship \in Shipping,
             Checkout(o, c, ship)
      PROVE  Kept(p) \/ First(p)
  <2>1. CASE UNCHANGED payVars
    BY <2>1 DEF payVars, Kept, Alike
  <2> DEFINE q == [NoPayment EXCEPT !.status = "pending", !.amount = TotalWith(ship)]
  <2>2. CASE /\ pay' = [pay EXCEPT ![o][1] = q]
             /\ latest' = [latest EXCEPT ![o] = 1]
             /\ Place(o, "midtrans", c, ship, TRUE, "shopper")
    <3>1. q.status = "pending" /\ ~Placed(o) /\ orders'[o].status = "pending"
      BY <2>2 DEF NoPayment, Place, NewRow, TypeOK
    <3> HIDE DEF q
    <3> QED BY <1>0, <2>2, <3>1 DEF Kept, First, Alike, OwnTypeOK
  <2> QED BY <1>2, <2>1, <2>2 DEF Checkout
<1>3. ASSUME NEW o \in Order, LinkSteps(o) PROVE Kept(p) \/ Further(p)
  <2>1. CASE \/ SnapAnswers(o) \/ SnapFails(o) \/ StoreFails(o) \/ PayAgain(o)
             \/ PayAgainDies(o)
    BY <2>1 DEF SnapAnswers, SnapFails, StoreFails, PayAgain, PayAgainDies, Kept, Alike
  <2>2. CASE StoreLink(o)
    <3> DEFINE q == [pay[o][1] EXCEPT !.link = TRUE]
    <3>0. pay[o][1] \in Payment
      BY <1>0 DEF OwnTypeOK
    <3>1. q.status = pay[o][1].status /\ q.amount = pay[o][1].amount
      BY <3>0 DEF Payment
    <3>2. pay' = [pay EXCEPT ![o][1] = q] /\ latest' = latest
      BY <2>2 DEF StoreLink
    <3> HIDE DEF q
    <3> QED BY <1>0, <3>1, <3>2 DEF Kept, Alike, OwnTypeOK
  <2>3. CASE PayAgainOpens(o) \/ PayAgainFails(o)
    <3> PICK link \in BOOLEAN : Commit(o, link) /\ asking[o]
      BY <2>3 DEF PayAgainOpens, PayAgainFails
    <3>1. CASE p = o
      <4>1. latest[o] < MaxAttempts /\ Placed(o) /\ latest[o] \in Nat
        BY DEF AskingFits, AskingPlaced, OwnTypeOK
      <4>2. NewAttempt(o, link).status = "pending"
        BY DEF NewAttempt, NoPayment
      <4>3. ASSUME NEW a \in Attempts
            PROVE  LET old == pay[o][a]
                       new == FailStale(old)
                   IN  /\ new.amount = old.amount
                       /\ new.status # "pending"
                       /\ \/ new.status = old.status
                          \/ old.status = "pending" /\ new.status = "failed"
        <5> pay[o][a] \in Payment
          BY DEF OwnTypeOK
        <5> QED BY DEF FailStale, Payment
      <4>4. /\ latest'[o] = latest[o] + 1
            /\ \A a \in Attempts :
                 pay'[o][a] = IF a = latest[o] + 1 THEN NewAttempt(o, link)
                              ELSE IF a = latest[o] THEN FailStale(pay[o][a])
                              ELSE pay[o][a]
        BY DEF Commit, OwnTypeOK
      <4>5. UNCHANGED orderVars
        BY DEF Commit
      <4>6. latest[o] + 1 \in Attempts /\ latest[o] # latest[o] + 1
        BY <4>1 DEF Attempts
      <4>7. Further(o)
        BY <4>1, <4>2, <4>3, <4>4, <4>5, <4>6 DEF Further, Alike
      <4> QED BY <3>1, <4>7
    <3>2. CASE p # o
      BY <3>2 DEF Commit, Kept, Alike, OwnTypeOK
    <3> QED BY <3>1, <3>2
  <2> QED BY <1>3, <2>1, <2>2, <2>3 DEF LinkSteps
<1>4. ASSUME NEW o \in Order, NEW a \in Attempts, LinkExpires(o, a) PROVE Kept(p)
  <2> DEFINE q == [pay[o][a] EXCEPT !.expired = TRUE]
  <2>0. pay[o][a] \in Payment
    BY DEF OwnTypeOK
  <2>1. q.status = pay[o][a].status /\ q.amount = pay[o][a].amount
    BY <2>0 DEF Payment
  <2>2. pay' = [pay EXCEPT ![o][a] = q] /\ latest' = latest
    BY <1>4 DEF LinkExpires
  <2> HIDE DEF q
  <2> QED BY <2>1, <2>2 DEF Kept, Alike, OwnTypeOK
<1>5. ASSUME NEW o \in Order, NEW a \in Attempts,
             MidtransSteps(o, a) \/ \E told \in Told : NoteSteps(o, a, told)
      PROVE  Kept(p)
  BY <1>5 DEF MidtransSteps, ShopperPicks, ShopperPays, MidtransEnds, MidtransMoves,
     NoteSteps, Receive, Ignore, payVars, Kept, Alike
<1>6. ASSUME NEW h \in hooks, NEW acked \in BOOLEAN, Apply(h, acked)
      PROVE  Kept(p) \/ AnsweredBy(p, h)
  <2> DEFINE o == h.note[1]
             a == h.note[2]
             next == Outcome(pay[o][a], orders[o].total, h.answer, h.exact)
             q == [pay[o][a] EXCEPT !.status = next]
  <2>1. o \in Order /\ a \in Attempts
    BY DEF Hook, Note, OwnTypeOK
  <2>2. pay[o][a] \in Payment
    BY <2>1 DEF OwnTypeOK
  <2>3. q.status = next /\ q.amount = pay[o][a].amount
    BY <2>2 DEF Payment
  <2>4. /\ pay' = [pay EXCEPT ![o][a] = q] /\ latest' = latest
        /\ IF next = "paid" /\ pay[o][a].status # "paid" THEN MoneyArrives(o, a)
           ELSE UNCHANGED orderVars
    BY <1>6 DEF Apply
  <2> HIDE DEF q, next
  <2>5. CASE p # o
    BY <2>1, <2>4, <2>5 DEF Kept, Alike, OwnTypeOK
  <2>6. CASE p = o
    <3>1. /\ pay'[o][a].status = next /\ pay'[o][a].amount = pay[o][a].amount
          /\ \A b \in Attempts : b # a => Alike(o, b)
      BY <2>1, <2>3, <2>4 DEF Alike, OwnTypeOK
    <3> QED BY <2>4, <2>6, <3>1 DEF AnsweredBy, next
  <2> QED BY <2>5, <2>6
<1> QED BY <1>1, <1>2, <1>3, <1>4, <1>5, <1>6 DEF PayNext, HandlerEnds, Answered
-----------------------------------------------------------------------------
(***************************************************************************)
(* OnePending, made inductive: no attempt comes before its order, and a    *)
(* handler only ever holds an answer about an attempt that exists.         *)
(***************************************************************************)
NoneBefore == \A o \in Order : ~Placed(o) => latest[o] = 0

HooksKnown ==
  \A h \in hooks : pay[h.note[1]][h.note[2]].status # "none"

Numbered == OnePending /\ NoneBefore /\ HooksKnown

(* A handler's answer is new only when it has just asked Midtrans. *)
LEMMA HooksMove ==
  ASSUME OwnTypeOK, [PayNext]_vars, NEW h \in hooks', h \notin hooks
  PROVE  LET o == h.note[1]
             a == h.note[2]
         IN  /\ o \in Order /\ a \in Attempts
             /\ pay[o][a].status # "none"
             /\ h.answer = mt[o][a].state /\ h.exact = mt[o][a].exact
             /\ pay' = pay /\ mt' = mt
<1>1. ASSUME OrderSteps \/ SetTaking \/ UNCHANGED vars \/ HandlerEnds
      PROVE  hooks' \subseteq hooks
  BY <1>1 DEF OrderSteps, SetTaking, vars, mtVars, HandlerEnds, HookDies, Apply
<1>2. ASSUME NEW p \in Order, NEW c \in Customer, NEW ship \in Shipping,
             Checkout(p, c, ship)
      PROVE  hooks' = hooks
  BY <1>2 DEF Checkout, mtVars
<1>3. ASSUME NEW p \in Order, LinkSteps(p) PROVE hooks' = hooks
  BY <1>3 DEF LinkSteps, SnapAnswers, SnapFails, StoreLink, StoreFails, PayAgain,
     PayAgainOpens, PayAgainFails, PayAgainDies, Commit, mtVars
<1>4. ASSUME NEW p \in Order, NEW b \in Attempts, NEW told \in Told,
             LinkExpires(p, b) \/ MidtransSteps(p, b) \/ Ignore(p, b, told)
      PROVE  hooks' = hooks
  BY <1>4 DEF LinkExpires, MidtransSteps, ShopperPicks, ShopperPays, MidtransEnds,
     MidtransMoves, Ignore, mtVars
<1>5. ASSUME NEW p \in Order, NEW b \in Attempts, NEW told \in Told, Receive(p, b, told)
      PROVE  /\ h.note[1] = p /\ h.note[2] = b
             /\ pay[p][b].status # "none"
             /\ h.answer = mt[p][b].state /\ h.exact = mt[p][b].exact
             /\ pay' = pay /\ mt' = mt
  BY <1>5 DEF Receive, payVars
<1>6. Told # {}
  BY DEF Told
<1> QED BY <1>1, <1>2, <1>3, <1>4, <1>5, <1>6 DEF PayNext, NoteSteps

LEMMA OutcomeOfKnown ==
  ASSUME NEW p \in Payment, NEW total, NEW answer \in Told, NEW exact,
         p.status # "none"
  PROVE  LET next == Outcome(p, total, answer, exact)
         IN  /\ next # "none"
             /\ next = "pending" => p.status = "pending"
             /\ p.status = "paid" => next = "paid"
             /\ next = "paid" => \/ p.status = "paid"
                                 \/ answer = "settlement" /\ exact /\ p.amount = total
  BY DEF Outcome, Payment, PayStatus, Told

(* Once there, an attempt stays, and its order does. *)
LEMMA KnownStays ==
  ASSUME TypesHold, Numbered, [PayNext]_vars, NEW o \in Order, NEW a \in Attempts,
         pay[o][a].status # "none"
  PROVE  /\ pay'[o][a].status # "none"
         /\ pay'[o][a].amount = pay[o][a].amount
         /\ pay[o][a].status = "paid" => pay'[o][a].status = "paid"
<1>1. CASE Kept(o)
  BY <1>1 DEF Kept, Alike
<1>2. CASE First(o)
  <2>1. FALSE
    BY <1>2, PaymentsAssumption DEF First, Numbered, NoneBefore, OnePending, Attempts
  <2> QED BY <2>1
<1>3. CASE Further(o)
  <2>1. a # latest[o] + 1
    BY PaymentsAssumption DEF Numbered, OnePending, Attempts, TypesHold, OwnTypeOK
  <2> QED BY <1>3, <2>1 DEF Further, Alike
<1>4. CASE Answered(o)
  <2> PICK h \in hooks : AnsweredBy(o, h)
    BY <1>4 DEF Answered
  <2>1. CASE a # h.note[2]
    BY <2>1 DEF AnsweredBy, Alike
  <2>2. CASE a = h.note[2]
    <3>1. h.answer \in Told /\ pay[o][a] \in Payment
      BY DEF TypesHold, OwnTypeOK, Hook
    <3>2. /\ pay'[o][a].status = Outcome(pay[o][a], orders[o].total, h.answer, h.exact)
          /\ pay'[o][a].amount = pay[o][a].amount
      BY <2>2 DEF AnsweredBy
    <3> QED BY <3>1, <3>2, OutcomeOfKnown
  <2> QED BY <2>1, <2>2
<1> QED BY <1>1, <1>2, <1>3, <1>4, AttemptMoves

LEMMA NumberedStep ==
  ASSUME TypesHold, Numbered, [PayNext]_vars
  PROVE  Numbered'
<1>1. OnePending'
  <2> SUFFICES ASSUME NEW o \in Order, NEW a \in Attempts
               PROVE  /\ pay'[o][a].status # "none" <=> a <= latest'[o]
                      /\ pay'[o][a].status = "pending" => a = latest'[o]
    BY DEF OnePending
  <2>0. /\ latest[o] \in Nat /\ a \in Nat \ {0} /\ 1 \in Attempts
        /\ pay[o][a].status # "none" <=> a <= latest[o]
        /\ pay[o][a].status = "pending" => a = latest[o]
    BY PaymentsAssumption DEF TypesHold, OwnTypeOK, Attempts, Numbered, OnePending
  <2>1. CASE Kept(o)
    BY <2>0, <2>1 DEF Kept, Alike
  <2>2. CASE First(o)
    <3>1. latest[o] = 0
      BY <2>2 DEF First, Numbered, NoneBefore
    <3> QED BY <2>0, <2>2, <3>1 DEF First, Alike
  <2>3. CASE Further(o)
    BY <2>0, <2>3 DEF Further, Alike
  <2>4. CASE Answered(o)
    <3> PICK h \in hooks : AnsweredBy(o, h)
      BY <2>4 DEF Answered
    <3>1. CASE a # h.note[2]
      BY <2>0, <3>1 DEF AnsweredBy, Alike
    <3>2. CASE a = h.note[2]
      <4>1. /\ h.answer \in Told /\ pay[o][a] \in Payment
            /\ pay[o][a].status # "none" /\ latest'[o] = latest[o]
            /\ pay'[o][a].status = Outcome(pay[o][a], orders[o].total, h.answer, h.exact)
        BY <3>2 DEF TypesHold, OwnTypeOK, Hook, AnsweredBy, Numbered, HooksKnown
      <4>2. /\ pay'[o][a].status # "none"
            /\ pay'[o][a].status = "pending" => pay[o][a].status = "pending"
        BY <4>1, OutcomeOfKnown
      <4> QED BY <2>0, <4>1, <4>2
    <3> QED BY <3>1, <3>2
  <2> QED BY <2>1, <2>2, <2>3, <2>4, AttemptMoves
<1>2. NoneBefore'
  <2> SUFFICES ASSUME NEW o \in Order, ~Placed(o)' PROVE latest'[o] = 0
    BY DEF NoneBefore
  <2>1. ~Placed(o)
    BY PlacedStays DEF TypesHold
  <2>2. latest[o] = 0
    BY <2>1 DEF Numbered, NoneBefore
  <2>3. ~First(o)
    BY DEF First, Placed
  <2> QED BY <2>1, <2>2, <2>3, AttemptMoves DEF Kept, Further, Answered, AnsweredBy
<1>3. HooksKnown'
  <2> SUFFICES ASSUME NEW h \in hooks' PROVE pay'[h.note[1]][h.note[2]].status # "none"
    BY DEF HooksKnown
  <2>1. CASE h \in hooks
    <3>1. h.note[1] \in Order /\ h.note[2] \in Attempts
      BY <2>1 DEF TypesHold, OwnTypeOK, Hook, Note
    <3> QED BY <2>1, <3>1, KnownStays DEF Numbered, HooksKnown
  <2>2. CASE h \notin hooks
    BY <2>2, HooksMove DEF TypesHold
  <2> QED BY <2>1, <2>2
<1> QED BY <1>1, <1>2, <1>3 DEF Numbered

LEMMA NumberedAlways == PaySpec => []Numbered
<1>1. PayInit => Numbered
  BY PaymentsAssumption DEF PayInit, Numbered, OnePending, NoneBefore, HooksKnown,
     NoPayment, Attempts
<1>2. TypesHold /\ Numbered /\ [PayNext]_vars => Numbered'
  BY NumberedStep
<1> QED BY <1>1, <1>2, TypesAlways, PTL DEF PaySpec

(***************************************************************************)
(* The one-pending index and the attempt numbers never refuse a write.     *)
(***************************************************************************)
THEOREM OnePendingAlways == PaySpec => []OnePending
<1>1. Numbered => OnePending
  BY DEF Numbered
<1> QED BY <1>1, NumberedAlways, PTL

(***************************************************************************)
(* An attempt that was paid stays paid, at the amount it was opened for.   *)
(***************************************************************************)
THEOREM PaidStaysFinal == PaySpec => PaidIsFinal
<1>1. TypesHold /\ Numbered /\ [PayNext]_vars =>
        [\A o \in Order, a \in Attempts :
           /\ pay[o][a].status = "paid" => pay'[o][a].status = "paid"
           /\ pay[o][a].status # "none" => pay'[o][a].amount = pay[o][a].amount]_vars
  BY KnownStays
<1> QED BY <1>1, TypesAlways, NumberedAlways, PTL DEF PaySpec, PaidIsFinal
-----------------------------------------------------------------------------
(***************************************************************************)
(* Money.  The three promises about it lean on one another: an attempt is  *)
(* paid in full for good only because its order is then no longer pending, *)
(* and so can no longer be edited (PaidTogether); and a cancelled order is *)
(* told of only because it was paid by way of a row that says so.  Besides,*)
(* a settled answer in a handler's hand must still be what Midtrans says.  *)
(***************************************************************************)
Heard ==
  \A h \in hooks : h.answer = "settlement" =>
    /\ mt[h.note[1]][h.note[2]].state = "settlement"
    /\ mt[h.note[1]][h.note[2]].exact = h.exact

Money == Heard /\ PaidInFull /\ PaidTogether /\ AfterCancelTold

(* A settled transaction stays as it is. *)
LEMMA SettledStays ==
  ASSUME TypesHold, [PayNext]_vars, NEW o \in Order, NEW a \in Attempts,
         mt[o][a].state = "settlement"
  PROVE  mt'[o][a] = mt[o][a]
  BY TransactionMoves DEF TypesHold

LEMMA HeardStep ==
  ASSUME TypesHold, Heard, [PayNext]_vars
  PROVE  Heard'
<1> SUFFICES ASSUME NEW h \in hooks', h.answer = "settlement"
             PROVE  /\ mt'[h.note[1]][h.note[2]].state = "settlement"
                    /\ mt'[h.note[1]][h.note[2]].exact = h.exact
  BY DEF Heard
<1>1. CASE h \in hooks
  <2>1. h.note[1] \in Order /\ h.note[2] \in Attempts
    BY <1>1 DEF TypesHold, OwnTypeOK, Hook, Note
  <2> QED BY <1>1, <2>1, SettledStays DEF Heard
<1>2. CASE h \notin hooks
  BY <1>2, HooksMove DEF TypesHold
<1> QED BY <1>1, <1>2

(* What an order that has left pending keeps. *)
LEMMA SettledOrder ==
  ASSUME TypeOK, [Next]_orderVars, NEW o \in Order, Placed(o),
         orders[o].status # "pending"
  PROVE  /\ orders'[o].status # "pending" /\ orders'[o].total = orders[o].total
         /\ orders[o].stamps \subseteq orders'[o].stamps
         /\ orders[o].status = "cancelled" => orders'[o].status = "cancelled"
<1>0. orders[o] \in Row /\ orders[o].status \in Status /\ Change(o)
  BY OneOrder DEF TypeOK, Placed, Row
<1>1. CASE Same(o)
  BY <1>1 DEF Same
<1>2. CASE Moved(o)
  <2> PICK to \in Status, by \in Actor : MovedTo(o, to, by)
    BY <1>2 DEF Moved
  <2>1. /\ orders'[o].status = to /\ orders'[o].total = orders[o].total
        /\ orders[o].stamps \subseteq orders'[o].stamps
    BY <1>0 DEF MovedTo, MovedRow, Row
  <2>2. to \in Allowed[orders[o].status]
    BY DEF MovedTo
  <2> QED BY <1>0, <2>1, <2>2 DEF Allowed, Status
<1>3. CASE Refunds(o)
  BY <1>0, <1>3 DEF Refunds, RefundedRow, Row
<1>4. CASE Scrubbed(o)
  BY <1>0, <1>4 DEF Scrubbed, Redacted, Row
<1> QED BY <1>0, <1>1, <1>2, <1>3, <1>4 DEF Change, Born, Edited, Placed

(* An attempt becomes paid only by a settled answer, for the full amount. *)
LEMMA NewlyPaid ==
  ASSUME TypesHold, Numbered, [PayNext]_vars, NEW o \in Order, NEW a \in Attempts,
         pay'[o][a].status = "paid", pay[o][a].status # "paid"
  PROVE  /\ \E h \in hooks : /\ h.note[1] = o /\ h.note[2] = a
                             /\ h.answer = "settlement" /\ h.exact
         /\ pay[o][a].amount = orders[o].total /\ pay'[o][a].amount = pay[o][a].amount
         /\ MoneyArrives(o, a)
<1>1. ~Kept(o) /\ ~First(o)
  BY DEF Kept, First, Alike
<1>2. ~Further(o)
  BY DEF Further, Alike
<1> PICK h \in hooks : AnsweredBy(o, h)
  BY <1>1, <1>2, AttemptMoves DEF Answered
<1>3. h.note[2] = a /\ h.note[1] = o
  BY DEF AnsweredBy, Alike
<1>4. /\ h.answer \in Told /\ pay[o][a] \in Payment /\ pay[o][a].status # "none"
      /\ pay'[o][a].status = Outcome(pay[o][a], orders[o].total, h.answer, h.exact)
      /\ pay'[o][a].amount = pay[o][a].amount
  BY <1>3 DEF TypesHold, OwnTypeOK, Hook, AnsweredBy, Numbered, HooksKnown
<1>5. h.answer = "settlement" /\ h.exact /\ pay[o][a].amount = orders[o].total
  BY <1>4, OutcomeOfKnown
<1>6. MoneyArrives(o, a)
  BY <1>3, <1>4 DEF AnsweredBy
<1> QED BY <1>3, <1>4, <1>5, <1>6

LEMMA PaidIsPlaced ==
  ASSUME TypesHold, Numbered, NEW o \in Order, NEW a \in Attempts,
         pay[o][a].status # "none"
  PROVE  Placed(o)
  BY PaymentsAssumption DEF Numbered, NoneBefore, OnePending, Attempts

LEMMA PaidInFullStep ==
  ASSUME TypesHold, Numbered, Money, [PayNext]_vars
  PROVE  PaidInFull'
<1> SUFFICES ASSUME NEW o \in Order, NEW a \in Attempts, pay'[o][a].status = "paid"
             PROVE  /\ mt'[o][a].state = "settlement" /\ mt'[o][a].exact
                    /\ pay'[o][a].amount = orders'[o].total
  BY DEF PaidInFull
<1>1. CASE pay[o][a].status = "paid"
  <2>1. mt'[o][a] = mt[o][a] /\ mt[o][a].state = "settlement" /\ mt[o][a].exact
    BY <1>1, SettledStays DEF Money, PaidInFull
  <2>2. pay'[o][a].amount = pay[o][a].amount /\ pay[o][a].amount = orders[o].total
    BY <1>1, KnownStays DEF Money, PaidInFull
  <2>3. orders'[o].total = orders[o].total
    BY <1>1, PaidIsPlaced, SettledOrder, OrdersStep DEF Money, PaidTogether, TypesHold
  <2> QED BY <2>1, <2>2, <2>3
<1>2. CASE pay[o][a].status # "paid"
  <2>1. mt[o][a].state = "settlement" /\ mt[o][a].exact
    BY <1>2, NewlyPaid DEF Money, Heard
  <2>2. mt'[o][a] = mt[o][a]
    BY <2>1, SettledStays
  <2>3. orders'[o].total = orders[o].total
    <3>1. MoneyArrives(o, a) /\ orders[o] \in Row
      BY <1>2, NewlyPaid DEF TypesHold, TypeOK
    <3>2. Transition(o, "paid", FALSE, "midtrans") \/ UNCHANGED orderVars
      BY <3>1 DEF MoneyArrives, orderVars
    <3>3. ASSUME Transition(o, "paid", FALSE, "midtrans")
          PROVE  orders'[o] = MovedRow(orders[o], "paid")
      BY <3>3 DEF Transition, TypesHold, TypeOK
    <3>4. MovedRow(orders[o], "paid").total = orders[o].total
      BY <3>1 DEF MovedRow, Row
    <3> QED BY <3>2, <3>3, <3>4 DEF orderVars
  <2> QED BY <1>2, <2>1, <2>2, <2>3, NewlyPaid
<1> QED BY <1>1, <1>2

(* Where money that has just arrived leaves its order. *)
LEMMA ArrivalsLand ==
  ASSUME TypeOK, NEW o \in Order, NEW a \in Attempts, MoneyArrives(o, a)
  PROVE  /\ orders'[o].status # "pending"
         /\ orders'[o].status = "cancelled" => <<o, a>> \in flagged'
<1>1. CASE orders[o].status = "pending"
  <2>1. Transition(o, "paid", FALSE, "midtrans") /\ orders[o] \in Row
    BY <1>1 DEF MoneyArrives, TypeOK
  <2>2. orders'[o].status = "paid"
    BY <2>1 DEF Transition, MovedRow, TypeOK, Row
  <2> QED BY <2>2
<1>2. CASE orders[o].status = "cancelled"
  BY <1>2 DEF MoneyArrives, orderVars
<1>3. CASE orders[o].status \notin {"pending", "cancelled"}
  BY <1>3 DEF MoneyArrives, orderVars
<1> QED BY <1>1, <1>2, <1>3

LEMMA FlagsStay ==
  ASSUME TypesHold, [PayNext]_vars
  PROVE  flagged \subseteq flagged'
<1>1. ASSUME OrderSteps \/ SetTaking \/ UNCHANGED vars \/ (\E h \in hooks : HookDies(h))
      PROVE  flagged' = flagged
  BY <1>1 DEF OrderSteps, SetTaking, vars, payVars, HookDies
<1>2. ASSUME NEW p \in Order, NEW c \in Customer, NEW ship \in Shipping,
             Checkout(p, c, ship)
      PROVE  flagged' = flagged
  BY <1>2 DEF Checkout, payVars
<1>3. ASSUME NEW p \in Order, LinkSteps(p) PROVE flagged' = flagged
  BY <1>3 DEF LinkSteps, SnapAnswers, SnapFails, StoreLink, StoreFails, PayAgain,
     PayAgainOpens, PayAgainFails, PayAgainDies, Commit
<1>4. ASSUME NEW p \in Order, NEW b \in Attempts, NEW told \in Told,
             LinkExpires(p, b) \/ MidtransSteps(p, b) \/ NoteSteps(p, b, told)
      PROVE  flagged' = flagged
  BY <1>4 DEF LinkExpires, MidtransSteps, ShopperPicks, ShopperPays, MidtransEnds,
     MidtransMoves, NoteSteps, Receive, Ignore, payVars
<1>5. ASSUME NEW h \in hooks, NEW acked \in BOOLEAN, Apply(h, acked)
      PROVE  flagged \subseteq flagged'
  <2>1. MoneyArrives(h.note[1], h.note[2]) \/ UNCHANGED flagged
    BY <1>5 DEF Apply
  <2> QED BY <2>1 DEF MoneyArrives
<1>6. Told # {}
  BY DEF Told
<1> QED BY <1>1, <1>2, <1>3, <1>4, <1>5, <1>6 DEF PayNext, HandlerEnds

LEMMA AfterCancelStep ==
  ASSUME TypesHold, Sound, Numbered, Money, [PayNext]_vars
  PROVE  AfterCancelTold'
<1> SUFFICES ASSUME NEW o \in Order, NEW a \in Attempts, pay'[o][a].status = "paid",
                    orders'[o].status = "cancelled", "paid" \notin orders'[o].stamps
             PROVE  <<o, a>> \in flagged'
  BY DEF AfterCancelTold
<1>1. CASE pay[o][a].status = "paid"
  <2>1. Placed(o) /\ orders[o].status # "pending" /\ orders[o] \in Row
    BY <1>1, PaidIsPlaced DEF Money, PaidTogether, TypesHold, TypeOK
  <2>2. "paid" \notin orders[o].stamps
    BY <2>1, OrdersStep, SettledOrder DEF TypesHold
  <2>3. orders[o].status = "cancelled"
    BY <2>1, <2>2 DEF Sound, Standing, Placed, Row, Status
  <2> QED BY <1>1, <2>2, <2>3, FlagsStay DEF Money, AfterCancelTold
<1>2. CASE pay[o][a].status # "paid"
  BY <1>2, NewlyPaid, ArrivalsLand DEF TypesHold
<1> QED BY <1>1, <1>2

(* The audit rows that do not speak of money through Midtrans. *)
LogKept(o) ==
  \/ audit'[o] = audit[o]
  \/ \E e \in Entry : e.by # "midtrans" /\ audit'[o] = Append(audit[o], e)

(* A handler writes that Midtrans paid an order only as it makes an attempt of
   the order's paid. *)
LEMMA LogMoves ==
  ASSUME TypesHold, [PayNext]_vars, NEW p \in Order
  PROVE  LogKept(p) \/ \E a \in Attempts : pay'[p][a].status = "paid"
<1> USE DEF TypesHold
<1>0. ASSUME NEW o \in Order, NEW to \in Status \cup {"refunded"},
             NEW by \in {"staff", "shopper"}, Log(o, to, by)
      PROVE  LogKept(p)
  <2>1. [to |-> to, by |-> by] \in Entry /\ [to |-> to, by |-> by].by # "midtrans"
    BY DEF Entry, Actor
  <2> QED BY <1>0, <2>1 DEF Log, LogKept, TypeOK
<1>1. ASSUME OrderSteps PROVE LogKept(p)
  <2>1. ASSUME NEW o \in Order, StaffNext(o) PROVE LogKept(p)
    <3>1. ASSUME NEW to \in Routes, NEW named \in BOOLEAN,
                 Transition(o, to, named, "staff")
          PROVE  LogKept(p)
      <4>1. to \in Status \cup {"refunded"}
        BY OrdersAssumption DEF Status
      <4> QED BY <1>0, <3>1, <4>1 DEF Transition
    <3>2. ASSUME \E c \in Customer, ship \in Shipping, courier \in BOOLEAN :
                   Place(o, "bank_transfer", c, ship, courier, "staff")
          PROVE  LogKept(p)
      <4>1. Log(o, "pending", "staff")
        BY <3>2 DEF Place
      <4> QED BY <1>0, <4>1 DEF Status
    <3>3. ASSUME Refund(o) PROVE LogKept(p)
      BY <1>0, <3>3 DEF Refund
    <3>4. ASSUME \E ship \in Shipping \cup {orders[o].ship}, readdress \in BOOLEAN :
                   UpdatePending(o, ship, readdress)
          PROVE  LogKept(p)
      BY <3>4 DEF UpdatePending, LogKept
    <3> QED BY <2>1, <3>1, <3>2, <3>3, <3>4 DEF StaffNext
  <2> QED BY <1>1, <2>1 DEF OrderSteps, Read, Redact, LogKept
<1>2. ASSUME NEW o \in Order, NEW c \in Customer, NEW ship \in Shipping,
             Checkout(o, c, ship)
      PROVE  LogKept(p)
  <2>1. Log(o, "pending", "shopper") \/ UNCHANGED audit
    BY <1>2 DEF Checkout, Place
  <2> QED BY <1>0, <2>1 DEF LogKept, Status
<1>3. ASSUME \/ SetTaking \/ UNCHANGED vars
             \/ (\E o \in Order : LinkSteps(o))
             \/ (\E h \in hooks : HookDies(h))
      PROVE  LogKept(p)
  BY <1>3 DEF SetTaking, vars, LinkSteps, SnapAnswers, SnapFails, StoreLink, StoreFails,
     PayAgain, PayAgainOpens, PayAgainFails, PayAgainDies, Commit, HookDies, orderVars,
     LogKept
<1>4. ASSUME NEW o \in Order, NEW b \in Attempts, NEW told \in Told,
             LinkExpires(o, b) \/ MidtransSteps(o, b) \/ NoteSteps(o, b, told)
      PROVE  LogKept(p)
  BY <1>4 DEF LinkExpires, MidtransSteps, ShopperPicks, ShopperPays, MidtransEnds,
     MidtransMoves, NoteSteps, Receive, Ignore, orderVars, LogKept
<1>5. ASSUME NEW h \in hooks, NEW acked \in BOOLEAN, Apply(h, acked)
      PROVE  LogKept(p) \/ \E a \in Attempts : pay'[p][a].status = "paid"
  <2> DEFINE o == h.note[1]
             a == h.note[2]
             next == Outcome(pay[o][a], orders[o].total, h.answer, h.exact)
             q == [pay[o][a] EXCEPT !.status = next]
  <2>1. o \in Order /\ a \in Attempts
    BY DEF Hook, Note, OwnTypeOK
  <2>2. pay[o][a] \in Payment
    BY <2>1 DEF OwnTypeOK
  <2>3. q.status = next
    BY <2>2 DEF Payment
  <2>4. /\ pay' = [pay EXCEPT ![o][a] = q]
        /\ next = "paid" \/ UNCHANGED audit
        /\ MoneyArrives(o, a) \/ UNCHANGED audit
    BY <1>5 DEF Apply, orderVars
  <2> HIDE DEF q, next
  <2>5. CASE UNCHANGED audit
    BY <2>5 DEF LogKept
  <2>6. CASE next = "paid" /\ p = o
    <3>1. pay'[p][a].status = "paid"
      BY <2>1, <2>3, <2>4, <2>6 DEF OwnTypeOK
    <3> QED BY <2>1, <3>1
  <2>7. CASE MoneyArrives(o, a) /\ p # o
    <3>1. audit'[p] = audit[p]
      BY <2>1, <2>7 DEF MoneyArrives, Transition, Log, TypeOK, orderVars
    <3> QED BY <3>1 DEF LogKept
  <2> QED BY <2>4, <2>5, <2>6, <2>7
<1>6. Told # {}
  BY DEF Told
<1> QED BY <1>1, <1>2, <1>3, <1>4, <1>5, <1>6 DEF PayNext, HandlerEnds

LEMMA PaidTogetherStep ==
  ASSUME TypesHold, Numbered, Money, [PayNext]_vars
  PROVE  PaidTogether'
<1>1. ASSUME NEW o \in Order, NEW a \in Attempts, pay'[o][a].status = "paid"
      PROVE  orders'[o].status # "pending"
  <2>1. CASE pay[o][a].status = "paid"
    BY <2>1, PaidIsPlaced, SettledOrder, OrdersStep DEF Money, PaidTogether, TypesHold
  <2>2. CASE pay[o][a].status # "paid"
    BY <1>1, <2>2, NewlyPaid, ArrivalsLand DEF TypesHold
  <2> QED BY <2>1, <2>2
<1>2. ASSUME NEW o \in Order, PaidByMidtrans(o)'
      PROVE  \E a \in Attempts : pay'[o][a].status = "paid"
  <2>1. CASE PaidByMidtrans(o)
    <3> PICK a \in Attempts : pay[o][a].status = "paid"
      BY <2>1 DEF Money, PaidTogether
    <3> QED BY KnownStays
  <2>2. CASE ~PaidByMidtrans(o)
    <3>1. ~LogKept(o)
      <4>1. SUFFICES ASSUME LogKept(o) PROVE FALSE
        OBVIOUS
      <4>2. audit[o] \in Seq(Entry)
        BY DEF TypesHold, TypeOK
      <4>3. CASE audit'[o] = audit[o]
        BY <1>2, <2>2, <4>3 DEF PaidByMidtrans
      <4>4. CASE audit'[o] # audit[o]
        <5> PICK e \in Entry : e.by # "midtrans" /\ audit'[o] = Append(audit[o], e)
          BY <4>1, <4>4 DEF LogKept
        <5> PICK i \in 1..Len(audit'[o]) :
              audit'[o][i] = [to |-> "paid", by |-> "midtrans"]
          BY <1>2 DEF PaidByMidtrans
        <5>1. i # Len(audit[o]) + 1 /\ i \in 1..Len(audit[o])
          BY <4>2, OneMoreEntry
        <5>2. audit[o][i] = [to |-> "paid", by |-> "midtrans"]
          BY <4>2, <5>1, OneMoreEntry
        <5> QED BY <2>2, <5>1, <5>2 DEF PaidByMidtrans
      <4> QED BY <4>3, <4>4
    <3> QED BY <3>1, LogMoves
  <2> QED BY <2>1, <2>2
<1> QED BY <1>1, <1>2 DEF PaidTogether

LEMMA MoneyAlways == PaySpec => []Money
<1>1. PayInit => Money
  BY EmptySeq DEF PayInit, Init, Money, Heard, PaidInFull, PaidTogether, PaidByMidtrans,
     AfterCancelTold, NoPayment
<1>2. TypesHold /\ Sound /\ Numbered /\ Money /\ [PayNext]_vars => Money'
  <2> SUFFICES ASSUME TypesHold, Sound, Numbered, Money, [PayNext]_vars PROVE Money'
    OBVIOUS
  <2>1. Heard'
    BY HeardStep DEF Money
  <2> QED BY <2>1, PaidInFullStep, PaidTogetherStep, AfterCancelStep DEF Money
<1>3. PaySpec => []Sound
  BY PaymentsKeepOrders, SoundAlways DEF ImplementsOrders
<1> QED BY <1>1, <1>2, <1>3, TypesAlways, NumberedAlways, PTL DEF PaySpec

(***************************************************************************)
(* An attempt is only ever paid with a settled transaction of exactly its  *)
(* amount, which is the order's total then and for good.                   *)
(***************************************************************************)
THEOREM AlwaysPaidInFull == PaySpec => []PaidInFull
<1>1. Money => PaidInFull
  BY DEF Money
<1> QED BY <1>1, MoneyAlways, PTL

(***************************************************************************)
(* An attempt is paid together with its order, and never one of them only. *)
(***************************************************************************)
THEOREM AlwaysPaidTogether == PaySpec => []PaidTogether
<1>1. Money => PaidTogether
  BY DEF Money
<1> QED BY <1>1, MoneyAlways, PTL

(***************************************************************************)
(* Money that comes in for an order already cancelled unpaid is written to *)
(* the audit log.                                                          *)
(***************************************************************************)
THEOREM AfterCancelAlwaysTold == PaySpec => []AfterCancelTold
<1>1. Money => AfterCancelTold
  BY DEF Money
<1> QED BY <1>1, MoneyAlways, PTL
=============================================================================
