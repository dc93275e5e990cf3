------------------------------ MODULE Payments ------------------------------
(***************************************************************************)
(* Midtrans payment attempts on orders (src/internal/orders: payments.go,  *)
(* the link half of checkout.go, notify.go).  The orders are those of      *)
(* module Orders; here are the payments table, the calls to Midtrans that  *)
(* are under way, and Midtrans itself as the code sees it: an id it has    *)
(* been asked to open, the shopper paying it, and notifications sent again *)
(* until one is answered 200.                                              *)
(*                                                                         *)
(* A transaction that only touches the database is one action.  Two things *)
(* outlive a statement and so are state: pay-again holds the order's row   *)
(* lock while it waits for Midtrans (asking), and checkout asks for its    *)
(* link after the commit, under no lock at all (snap).                     *)
(***************************************************************************)
EXTENDS Orders, FiniteSets

CONSTANTS
  MaxAttempts,  (* bound: pay-again opens no attempt past this one         *)
  MaxHooks      (* bound: notifications being handled at one time          *)

ASSUME PaymentsAssumption == MaxAttempts \in Nat \ {0} /\ MaxHooks \in Nat

VARIABLES
  pay,          (* the payments table, by order and attempt                *)
  latest,       (* LatestPayment's attempt number, 0 without a row         *)
  asking,       (* pay-again holds the order's lock, waiting for Midtrans  *)
  snap,         (* how far the openSnap of the order's checkout has come   *)
  taking,       (* the shop's settings take Midtrans                       *)
  flagged,      (* audit_log: payment.after_cancel rows                    *)
  mt,           (* Midtrans: each transaction's status, and whether the    *)
                (* amount it reports is the one it was asked for           *)
  notes,        (* notifications Midtrans still has to deliver             *)
  hooks         (* Get Status answers that a handler is about to apply     *)

payVars == <<pay, latest, asking, snap, taking, flagged>>
mtVars  == <<mt, notes, hooks>>
vars    == <<orderVars, payVars, mtVars>>

Attempts  == 1..MaxAttempts
PayStatus == {"pending", "paid", "failed", "amount_mismatch"}

(* A transaction's status: "expire" is also cancel and deny, "pending" also
   a capture still challenged; only settlement, or capture accepted, is it. *)
Told == {"pending", "settlement", "expire"}

Payment == [status : PayStatus \cup {"none"}, amount : Nat, link : BOOLEAN,
            expired : BOOLEAN]

NoPayment == [status |-> "none", amount |-> 0, link |-> FALSE,
              expired |-> FALSE]

Transaction == [state : Told \cup {"none", "open"}, exact : BOOLEAN]

Note == Order \X Attempts \X Told
Hook == [note : Note, answer : Told, exact : BOOLEAN]

PayTypeOK ==
  /\ TypeOK
  /\ pay \in [Order -> [Attempts -> Payment]]
  /\ latest \in [Order -> 0..MaxAttempts]
  /\ asking \in [Order -> BOOLEAN]
  /\ snap \in [Order -> {"idle", "asking", "storing"}]
  /\ taking \in BOOLEAN
  /\ flagged \subseteq Order \X Attempts
  /\ mt \in [Order -> [Attempts -> Transaction]]
  /\ notes \subseteq Note
  /\ hooks \subseteq Hook

(* wholeRupiah: Midtrans takes no sen. *)
Whole(total) == total % 100 = 0

(* newAttempt: for the order's total, before Midtrans is asked. *)
NewAttempt(o, link) == [NoPayment EXCEPT !.status = "pending", !.link = link,
                                         !.amount = orders[o].total]

(* live: this attempt's link may be offered to the shopper. *)
Live(o, p) == p.status = "pending" /\ p.link /\ ~p.expired
              /\ p.amount = orders[o].total

(* Mutation: the old attempt is left pending beside the new one. *)
FailStaleNever(p) == p

(* FailStalePayment *)
FailStale(p) == IF p.status = "pending" THEN [p EXCEPT !.status = "failed"] ELSE p

(* Midtrans opens id a of order o; it refuses an id it already has. *)
Opened(o, a) == IF mt[o][a].state = "none"
                THEN [mt EXCEPT ![o][a].state = "open"] ELSE mt
-----------------------------------------------------------------------------
PayInit ==
  /\ Init
  /\ pay = [o \in Order |-> [a \in Attempts |-> NoPayment]]
  /\ latest = [o \in Order |-> 0]
  /\ asking = [o \in Order |-> FALSE]
  /\ snap = [o \in Order |-> "idle"]
  /\ taking \in BOOLEAN
  /\ flagged = {}
  /\ mt = [o \in Order |-> [a \in Attempts |-> [state |-> "none", exact |-> TRUE]]]
  /\ notes = {}
  /\ hooks = {}

(* The owner turns Midtrans on or off in the storefront settings. *)
SetTaking == /\ taking' = ~taking
             /\ UNCHANGED <<orderVars, pay, latest, asking, snap, flagged, mtVars>>

(* A checkout's transaction: with Midtrans, attempt 1 commits with the order. *)
Checkout(o, c, ship) ==
  \/ /\ Place(o, "bank_transfer", c, ship, TRUE, "shopper")
     /\ UNCHANGED <<payVars, mtVars>>
  \/ /\ taking
     /\ Whole(TotalWith(ship))
     /\ Place(o, "midtrans", c, ship, TRUE, "shopper")
     /\ pay' = [pay EXCEPT ![o][1] =
          [NoPayment EXCEPT !.status = "pending", !.amount = TotalWith(ship)]]
     /\ latest' = [latest EXCEPT ![o] = 1]
     /\ snap' = [snap EXCEPT ![o] = "asking"]
     /\ UNCHANGED <<asking, taking, flagged, mtVars>>

(* openSnap, the call: Midtrans answers with a link ... *)
SnapAnswers(o) == /\ snap[o] = "asking"
                  /\ mt[o][1].state = "none"
                  /\ mt' = Opened(o, 1)
                  /\ snap' = [snap EXCEPT ![o] = "storing"]
                  /\ UNCHANGED <<orderVars, pay, latest, asking, taking, flagged,
                                 notes, hooks>>

(* ... or the caller gets none: whether Midtrans was reached is unknown. *)
SnapFails(o) == /\ snap[o] = "asking"
                /\ mt' \in {mt, Opened(o, 1)}
                /\ snap' = [snap EXCEPT ![o] = "idle"]
                /\ UNCHANGED <<orderVars, pay, latest, asking, taking, flagged,
                               notes, hooks>>

(* The row of attempt 1 is locked by a pay-again that has failed it. *)
RowLocked(o) == asking[o] /\ latest[o] = 1 /\ pay[o][1].status = "pending"

(* openSnap, SetPaymentLink: a transaction of its own, whatever the attempt
   has become since. *)
StoreLink(o) == /\ snap[o] = "storing"
                /\ ~RowLocked(o)
                /\ pay' = [pay EXCEPT ![o][1].link = TRUE]
                /\ snap' = [snap EXCEPT ![o] = "idle"]
                /\ UNCHANGED <<orderVars, latest, asking, taking, flagged, mtVars>>

(* openSnap ends between the answer and the row: a crash, a failed write. *)
StoreFails(o) == /\ snap[o] = "storing"
                 /\ snap' = [snap EXCEPT ![o] = "idle"]
                 /\ UNCHANGED <<orderVars, pay, latest, asking, taking, flagged,
                                mtVars>>

(* PayAgain, up to its call: no live link, so it will ask for the next
   attempt's under the order's lock.  With a live one it changes nothing. *)
PayAgain(o) ==
  /\ ~asking[o]
  /\ orders[o].status = "pending" /\ orders[o].method = "midtrans"
  /\ taking
  /\ latest[o] # 0 => ~Live(o, pay[o][latest[o]])
  /\ Whole(orders[o].total)
  /\ latest[o] < MaxAttempts
  /\ asking' = [asking EXCEPT ![o] = TRUE]
  /\ UNCHANGED <<orderVars, pay, latest, snap, taking, flagged, mtVars>>

(* PayAgain commits: the stale attempt failed, the next one written. *)
Commit(o, link) ==
  LET n == latest[o] + 1 IN
  /\ pay' = [pay EXCEPT ![o] =
       [a \in Attempts |-> IF a = n THEN NewAttempt(o, link)
                           ELSE IF a = latest[o] THEN FailStale(pay[o][a])
                           ELSE pay[o][a]]]
  /\ latest' = [latest EXCEPT ![o] = n]
  /\ asking' = [asking EXCEPT ![o] = FALSE]
  /\ UNCHANGED <<orderVars, snap, taking, flagged, notes, hooks>>

PayAgainOpens(o) == /\ asking[o]
                    /\ mt[o][latest[o] + 1].state = "none"
                    /\ mt' = Opened(o, latest[o] + 1)
                    /\ Commit(o, TRUE)

(* Midtrans gives no link: the attempt is kept, without one. *)
PayAgainFails(o) == /\ asking[o]
                    /\ mt' \in {mt, Opened(o, latest[o] + 1)}
                    /\ Commit(o, FALSE)

(* The process dies, or the shopper's connection goes, before the commit:
   everything is rolled back, Midtrans excepted. *)
PayAgainDies(o) == /\ asking[o]
                   /\ mt' \in {mt, Opened(o, latest[o] + 1)}
                   /\ asking' = [asking EXCEPT ![o] = FALSE]
                   /\ UNCHANGED <<orderVars, pay, latest, snap, taking, flagged,
                                  notes, hooks>>

(* Twenty-four hours pass for a pending attempt. *)
LinkExpires(o, a) == /\ pay[o][a].status = "pending" /\ ~pay[o][a].expired
                     /\ pay' = [pay EXCEPT ![o][a].expired = TRUE]
                     /\ UNCHANGED <<orderVars, latest, asking, snap, taking,
                                    flagged, mtVars>>
-----------------------------------------------------------------------------
(* Midtrans moves a transaction on and owes a notification of it. *)
MidtransMoves(o, a, from, to, exact) ==
  /\ mt[o][a].state \in from
  /\ mt' = [mt EXCEPT ![o][a] = [state |-> to, exact |-> exact]]
  /\ notes' = notes \cup {<<o, a, to>>}
  /\ UNCHANGED <<orderVars, payVars, hooks>>

(* The shopper, on a link the shop has given out, picks a bank ... *)
ShopperPicks(o, a) == /\ pay[o][a].link
                      /\ MidtransMoves(o, a, {"open"}, "pending", TRUE)

(* ... or pays; Midtrans may report another amount than it was asked for. *)
ShopperPays(o, a, exact) ==
  /\ pay[o][a].link
  /\ MidtransMoves(o, a, {"open", "pending"}, "settlement", exact)

(* The link runs out, or the transaction is cancelled or denied. *)
MidtransEnds(o, a) == MidtransMoves(o, a, {"open", "pending"}, "expire", TRUE)

(* Notify, up to Get Status: a verified notification of a known attempt. *)
Receive(o, a, told) ==
  /\ <<o, a, told>> \in notes
  /\ pay[o][a].status # "none"
  /\ Cardinality(hooks) < MaxHooks
  /\ hooks' = hooks \cup {[note |-> <<o, a, told>>, answer |-> mt[o][a].state,
                           exact |-> mt[o][a].exact]}
  /\ UNCHANGED <<orderVars, payVars, mt, notes>>

(* Notify, for an id that is no attempt's: 200, and nothing changes. *)
Ignore(o, a, told) == /\ <<o, a, told>> \in notes
                      /\ pay[o][a].status = "none"
                      /\ notes' = notes \ {<<o, a, told>>}
                      /\ UNCHANGED <<orderVars, payVars, mt, hooks>>

(* The handler ends before it applies: a crash, or the 503 for a Get Status
   that failed.  The notification stays due. *)
HookDies(h) == /\ h \in hooks
               /\ hooks' = hooks \ {h}
               /\ UNCHANGED <<orderVars, payVars, mt, notes>>

(* Mutation: an answer "pending", however old, is taken at its word. *)
OutcomeUnpays(p, total, answer, exact) ==
  CASE answer = "settlement" /\ exact /\ p.amount = total -> "paid"
    [] answer = "settlement" -> "amount_mismatch"
    [] answer = "pending"    -> "pending"
    [] answer = "expire" /\ p.status = "pending" -> "failed"
    [] OTHER                 -> p.status

(* Mutation: the attempt's own amount is enough. *)
OutcomeOfAttempt(p, total, answer, exact) ==
  CASE p.status = "paid"                                 -> "paid"
    [] answer = "settlement" /\ exact                    -> "paid"
    [] answer = "settlement"                             -> "amount_mismatch"
    [] answer = "expire" /\ p.status = "pending"         -> "failed"
    [] OTHER                                             -> p.status

(* Mutation: only a pending attempt can be paid. *)
OutcomeOfPending(p, total, answer, exact) ==
  CASE p.status # "pending"                              -> p.status
    [] answer = "settlement" /\ exact /\ p.amount = total -> "paid"
    [] answer = "settlement"                             -> "amount_mismatch"
    [] answer = "expire"                                 -> "failed"
    [] OTHER                                             -> p.status

(* apply's switch: what an answer leaves the attempt at. *)
Outcome(p, total, answer, exact) ==
  CASE p.status = "paid"                                 -> "paid"
    [] p.status # "paid" /\ answer = "settlement"
         /\ (~exact \/ p.amount # total)                 -> "amount_mismatch"
    [] p.status # "paid" /\ answer = "settlement"
         /\ exact /\ p.amount = total                    -> "paid"
    [] answer = "expire" /\ p.status = "pending"         -> "failed"
    [] OTHER                                             -> p.status

(* Mutation: the order follows only in the shape of an audit row. *)
MoneyArrivesUntold(o, a) ==
  IF orders[o].status = "pending"
  THEN Transition(o, "paid", FALSE, "midtrans") /\ UNCHANGED flagged
  ELSE UNCHANGED <<orderVars, flagged>>

(* Mutation: the order is left for the operator to move. *)
MoneyArrivesAlone(o, a) == UNCHANGED <<orderVars, flagged>>

(* Mutation: the status is set whatever the order has become. *)
MoneyArrivesAnyway(o, a) ==
  /\ orders' = [orders EXCEPT ![o] = [@ EXCEPT !.status = "paid",
                  !.stamps = @ \cup {"paid"}, !.version = @ + 1]]
  /\ Log(o, "paid", "midtrans")
  /\ UNCHANGED <<copy, flagged>>

(* apply, once an attempt is newly paid: a pending order is paid; a cancelled
   one is written to the audit log as owing a refund; others stay. *)
MoneyArrives(o, a) ==
  \/ /\ orders[o].status = "pending"
     /\ Transition(o, "paid", FALSE, "midtrans")
     /\ UNCHANGED flagged
  \/ /\ orders[o].status = "cancelled"
     /\ flagged' = flagged \cup {<<o, a>>}
     /\ UNCHANGED orderVars
  \/ /\ orders[o].status \notin {"pending", "cancelled"}
     /\ UNCHANGED <<orderVars, flagged>>

(***************************************************************************)
(* apply: the order's lock, then the attempt's; the answer is recorded and *)
(* the order moved in one transaction.  acked is whether the 200 reaches   *)
(* Midtrans, which sends the notification again if it does not.            *)
(***************************************************************************)
Apply(h, acked) ==
  LET o == h.note[1]
      a == h.note[2]
      p == pay[o][a]
      next == Outcome(p, orders[o].total, h.answer, h.exact)
  IN
  /\ h \in hooks
  /\ ~asking[o]
  /\ pay' = [pay EXCEPT ![o][a] = [@ EXCEPT !.status = next]]
  /\ IF next = "paid" /\ p.status # "paid" THEN MoneyArrives(o, a)
     ELSE UNCHANGED <<orderVars, flagged>>
  /\ hooks' = hooks \ {h}
  /\ notes' = IF acked THEN notes \ {h.note} ELSE notes
  /\ UNCHANGED <<latest, asking, snap, taking, mt>>
-----------------------------------------------------------------------------
(* The handlers of module Orders, which wait for the row lock. *)
OrderSteps ==
  \/ \E o \in Order : Read(o) /\ UNCHANGED <<payVars, mtVars>>
  \/ \E o \in Order : ~asking[o] /\ StaffNext(o) /\ UNCHANGED <<payVars, mtVars>>
  \/ \E c \in Customer : /\ \A o \in OrdersOf(c) : ~asking[o]
                         /\ Redact(c) /\ UNCHANGED <<payVars, mtVars>>

LinkSteps(o) == \/ SnapAnswers(o) \/ SnapFails(o) \/ StoreLink(o) \/ StoreFails(o)
                \/ PayAgain(o)
                \/ PayAgainOpens(o) \/ PayAgainFails(o) \/ PayAgainDies(o)

MidtransSteps(o, a) == \/ ShopperPicks(o, a) \/ MidtransEnds(o, a)
                       \/ \E exact \in BOOLEAN : ShopperPays(o, a, exact)

NoteSteps(o, a, told) == Receive(o, a, told) \/ Ignore(o, a, told)

HandlerEnds ==
  \E h \in hooks : HookDies(h) \/ \E acked \in BOOLEAN : Apply(h, acked)

PayNext ==
  \/ OrderSteps
  \/ SetTaking
  \/ \E o \in Order :
       \/ \E c \in Customer, ship \in Shipping : Checkout(o, c, ship)
       \/ LinkSteps(o)
       \/ \E a \in Attempts : \/ LinkExpires(o, a) \/ MidtransSteps(o, a)
                              \/ \E told \in Told : NoteSteps(o, a, told)
  \/ HandlerEnds

PaySpec == PayInit /\ [][PayNext]_vars

(***************************************************************************)
(* Fairness.  Midtrans sends a notification again until it is answered,    *)
(* so it is received (strongly, because MaxHooks, a bound of the model and *)
(* not of the server, turns one away while others are handled).  Handlers  *)
(* end, and those that reach the row lock get it (strongly: pay-again may  *)
(* hold it in between), and a Midtrans call has a deadline, so pay-again   *)
(* gives it up.  Crashes stop some day.  Nothing is assumed of shoppers,   *)
(* operators, or Midtrans' own clock.                                      *)
(***************************************************************************)
Settles(o, a) == \E h \in hooks, acked \in BOOLEAN :
                   h.note = <<o, a, "settlement">> /\ Apply(h, acked)

Fairness ==
  /\ <>[][~\E h \in hooks : HookDies(h)]_vars
  /\ WF_vars(HandlerEnds)
  /\ \A o \in Order :
       /\ WF_vars(PayAgainOpens(o) \/ PayAgainFails(o) \/ PayAgainDies(o))
       /\ \A a \in Attempts : /\ SF_vars(Receive(o, a, "settlement"))
                              /\ SF_vars(Settles(o, a))

FairPaySpec == PaySpec /\ Fairness
-----------------------------------------------------------------------------
(***************************************************************************)
(* The partial unique index payments_one_pending_per_order and UNIQUE      *)
(* (order_id, attempt) never refuse a write: whatever checkout, pay-again  *)
(* and late notifications have done, attempts are numbered without a gap   *)
(* and only the newest can be pending (BR-123).                            *)
(***************************************************************************)
OnePending ==
  \A o \in Order, a \in Attempts :
    /\ pay[o][a].status # "none" <=> a <= latest[o]
    /\ pay[o][a].status = "pending" => a = latest[o]

(***************************************************************************)
(* An attempt is paid only with money: Midtrans settled exactly the amount *)
(* asked, that amount is the order's total, and stays it, though the       *)
(* operator may edit the total until the moment it is paid (BR-124,        *)
(* BR-125).                                                                *)
(***************************************************************************)
PaidInFull ==
  \A o \in Order, a \in Attempts :
    pay[o][a].status = "paid" =>
      /\ mt[o][a].state = "settlement" /\ mt[o][a].exact
      /\ pay[o][a].amount = orders[o].total

(***************************************************************************)
(* An attempt and its order move together (BR-125): a paid attempt never   *)
(* leaves its order pending, and an order that the audit log says Midtrans *)
(* paid has a paid attempt.                                                *)
(***************************************************************************)
PaidByMidtrans(o) ==
  \E i \in 1..Len(audit[o]) : audit[o][i] = [to |-> "paid", by |-> "midtrans"]

PaidTogether ==
  \A o \in Order :
    /\ \A a \in Attempts : pay[o][a].status = "paid" => orders[o].status # "pending"
    /\ PaidByMidtrans(o) => \E a \in Attempts : pay[o][a].status = "paid"

(***************************************************************************)
(* Money for an order cancelled before it was paid is at least in the      *)
(* audit log: notify.go's "a cancelled one owes a refund, and the audit    *)
(* log says so", in every interleaving of Cancel and the notification.     *)
(***************************************************************************)
AfterCancelTold ==
  \A o \in Order, a \in Attempts :
    /\ pay[o][a].status = "paid"
    /\ orders[o].status = "cancelled" /\ "paid" \notin orders[o].stamps
    => <<o, a>> \in flagged

(***************************************************************************)
(* Paid is for good: no replayed, late or reordered answer unpays an       *)
(* attempt, and an attempt keeps the amount it was opened for.             *)
(***************************************************************************)
PaidIsFinal ==
  [][\A o \in Order, a \in Attempts :
       /\ pay[o][a].status = "paid" => pay'[o][a].status = "paid"
       /\ pay[o][a].status # "none" => pay'[o][a].amount = pay[o][a].amount]_vars

(***************************************************************************)
(* Whatever payments do to an order, they do it as one of its own handlers *)
(* would: this detailed system implements module Orders, and so every      *)
(* property of Orders holds of it.                                         *)
(***************************************************************************)
ImplementsOrders == Spec

(***************************************************************************)
(* A settled transaction of an attempt the shop knows is recorded in the   *)
(* end, as paid or flagged for an operator, whatever handler died on the   *)
(* way and however long pay-again held the lock (BR-124).                  *)
(***************************************************************************)
SettledIsRecorded ==
  \A o \in Order, a \in Attempts :
    mt[o][a].state = "settlement" /\ pay[o][a].status # "none"
      ~> pay[o][a].status \in {"paid", "amount_mismatch"}

-----------------------------------------------------------------------------
(* What a document says and the code does not keep. *)

(***************************************************************************)
(* "One order has at most one live attempt" (BR-123): no two links the     *)
(* shop has handed out can both be paid for the order's total.             *)
(***************************************************************************)
Payable(o, a) == /\ pay[o][a].link /\ ~pay[o][a].expired
                 /\ pay[o][a].amount = orders[o].total
                 /\ mt[o][a].state \in {"open", "pending"}

OnePayableLink ==
  \A o \in Order, a, b \in Attempts : Payable(o, a) /\ Payable(o, b) => a = b
=============================================================================
