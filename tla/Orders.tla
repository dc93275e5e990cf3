------------------------------- MODULE Orders -------------------------------
(***************************************************************************)
(* The orders table and the handlers that change a row of it               *)
(* (src/internal/orders: create, transition, update, refund, purge).  Each *)
(* handler is one database transaction that takes the order's row lock     *)
(* before it reads (LockOrder), so each is one action here; what staff     *)
(* read before they PATCH is state of its own, because If-Match compares   *)
(* against it much later.  A request the code refuses changes nothing and  *)
(* is a stuttering step, as is a move to the status an order already has.  *)
(***************************************************************************)
EXTENDS Integers, Sequences

CONSTANTS
  Order,        (* the orders the shop may come to have                    *)
  Customer,     (* whose orders they are: an account, or a guest's email   *)
  Net,          (* subtotal_amount - discount_amount, in sen               *)
  Shipping,     (* the shipping amounts a quote or an operator may set     *)
  Routes,       (* the status routes operators use: all, or fewer to bound *)
  MaxVersion    (* bound: no read to edit, edit or purge past this version *)

ASSUME OrdersAssumption == /\ Customer # {}
                           /\ Net \in Nat
                           /\ Shipping \subseteq Nat
                           /\ MaxVersion \in Nat
                           /\ Routes \subseteq {"paid", "processing", "shipped",
                                                "completed", "cancelled"}

VARIABLES
  orders,       (* the orders table                                        *)
  audit,        (* audit_log: an order's create, transition and refund rows*)
  copy          (* the row as the operator editing the order last read it  *)

orderVars == <<orders, audit, copy>>

Status == {"pending", "paid", "processing", "shipped", "completed", "cancelled"}
Stamp  == {"paid", "shipped", "completed", "cancelled", "refunded"}
Method == {"bank_transfer", "midtrans"}
Actor  == {"staff", "shopper", "midtrans"}

(***************************************************************************)
(* A row.  stamps holds the names of the timestamp columns that are set;   *)
(* courier says that shipping_courier is set, tracked that courier and     *)
(* tracking_number are, and private that the row still carries the         *)
(* shopper's name, address and note.                                       *)
(***************************************************************************)
Row == [status : Status \cup {"none"}, method : Method, customer : Customer,
        stamps : SUBSET Stamp, ship : Nat, total : Nat, courier : BOOLEAN,
        tracked : BOOLEAN, private : BOOLEAN, version : Nat]

(* An order id with no row yet. *)
NoRow == [status |-> "none", method |-> "bank_transfer",
          customer |-> CHOOSE c \in Customer : TRUE, stamps |-> {}, ship |-> 0,
          total |-> 0, courier |-> FALSE, tracked |-> FALSE, private |-> FALSE,
          version |-> 0]

Entry == [to : Status \cup {"refunded"}, by : Actor]

TypeOK == /\ orders \in [Order -> Row]
          /\ audit \in [Order -> Seq(Entry)]
          /\ copy \in [Order -> Row]

Placed(o) == orders[o].status # "none"

(* Mutation: packing may start on trust. *)
AllowedOnTrust == [pending    |-> {"paid", "processing", "cancelled"},
                   paid       |-> {"processing", "cancelled"},
                   processing |-> {"shipped", "cancelled"},
                   shipped    |-> {"completed"},
                   completed  |-> {},
                   cancelled  |-> {}]

(* Mutation: a parcel that came back may be cancelled. *)
AllowedReturn == [pending    |-> {"paid", "cancelled"},
                  paid       |-> {"processing", "cancelled"},
                  processing |-> {"shipped", "cancelled"},
                  shipped    |-> {"completed", "cancelled"},
                  completed  |-> {},
                  cancelled  |-> {}]

(* The status allow-list. *)
Allowed == [pending    |-> {"paid", "cancelled"},
            paid       |-> {"processing", "cancelled"},
            processing |-> {"shipped", "cancelled"},
            shipped    |-> {"completed"},
            completed  |-> {},
            cancelled  |-> {}]

(* Mutation: a refund that leaves no trace. *)
LogStatus(o, to, by) ==
  IF to = "refunded" THEN UNCHANGED audit
  ELSE audit' = [audit EXCEPT ![o] = Append(@, [to |-> to, by |-> by])]

(* db.Audit: one row more for order o, in the same transaction. *)
Log(o, to, by) == audit' = [audit EXCEPT ![o] = Append(@, [to |-> to, by |-> by])]
(* The total an order with this shipping amount comes to. *)
TotalWith(ship) == Net + ship

(* What an operator may still edit. *)
Editable(row) == row.status = "pending"

(* Mutation: any cancelled order. *)
RefundableUnpaid(row) == row.status = "cancelled" /\ "refunded" \notin row.stamps

(* What a refund may be recorded on. *)
Refundable(row) == /\ row.status = "cancelled"
                   /\ "paid" \in row.stamps
                   /\ "refunded" \notin row.stamps

(* What a row is after a move, an edit or a refund: one version on. *)
MovedRow(row, to) ==
  [row EXCEPT !.status = to, !.stamps = @ \cup ({to} \cap Stamp),
              !.tracked = IF to = "shipped" THEN TRUE ELSE @, !.version = @ + 1]

EditedRow(row, ship, readdress) ==
  [row EXCEPT !.ship = ship, !.total = TotalWith(ship),
              !.private = IF readdress THEN TRUE ELSE @, !.version = @ + 1]

RefundedRow(row) ==
  [row EXCEPT !.stamps = @ \cup {"refunded"}, !.version = @ + 1]

(* Mutation: a purge that does not move the version on. *)
RedactedQuietly(row) == [row EXCEPT !.private = FALSE]

(* What a purge leaves of a row. *)
Redacted(row) == [row EXCEPT !.private = FALSE, !.version = @ + 1]
-----------------------------------------------------------------------------
Init == /\ orders = [o \in Order |-> NoRow]
        /\ audit = [o \in Order |-> <<>>]
        /\ copy = [o \in Order |-> NoRow]

(* The row insert writes: pending, at version 1. *)
NewRow(method, c, ship, courier) ==
  [status |-> "pending", method |-> method, customer |-> c, stamps |-> {},
   ship |-> ship, total |-> TotalWith(ship), courier |-> courier,
   tracked |-> FALSE, private |-> TRUE, version |-> 1]

(***************************************************************************)
(* insert, for a checkout or for a manual order: its order.create row   *)
(* is written beside it.  A manual order is a bank transfer, and may have  *)
(* no courier.                                                             *)
(***************************************************************************)
Place(o, method, c, ship, courier, by) ==
  /\ ~Placed(o)
  /\ by = "staff" => method = "bank_transfer"
  /\ by = "shopper" => courier
  /\ orders' = [orders EXCEPT ![o] = NewRow(method, c, ship, courier)]
  /\ Log(o, "pending", by)
  /\ UNCHANGED copy

(***************************************************************************)
(* transition: on the allow-list, the new status, its timestamp, version+1 *)
(* and one audit row.  named says that a ship request names a courier; one *)
(* without a tracking number, or without any courier to use, is refused.   *)
(***************************************************************************)
Transition(o, to, named, by) ==
  /\ Placed(o)
  /\ to \in Allowed[orders[o].status]
  /\ to = "shipped" => named \/ orders[o].courier
  /\ orders' = [orders EXCEPT ![o] = MovedRow(@, to)]
  /\ Log(o, to, by)
  /\ UNCHANGED copy

(* An operator opens the order's page: the version is in the response. *)
Read(o) == /\ Placed(o)
           /\ orders[o].version < MaxVersion
           /\ copy' = [copy EXCEPT ![o] = orders[o]]
           /\ UNCHANGED <<orders, audit>>

(***************************************************************************)
(* UpdatePending: a PATCH whose If-Match is the version of the copy.  ship *)
(* is the shipping amount it leaves (the present one when it names none),  *)
(* readdress whether it carries an address or a note.                      *)
(***************************************************************************)
UpdatePending(o, ship, readdress) ==
  /\ Editable(orders[o])
  /\ copy[o].version = orders[o].version
  /\ orders[o].version < MaxVersion
  /\ orders' = [orders EXCEPT ![o] = EditedRow(@, ship, readdress)]
  /\ UNCHANGED <<audit, copy>>

(* Refund: once, on a cancelled order that was paid; the status stays. *)
Refund(o) ==
  /\ Refundable(orders[o])
  /\ orders' = [orders EXCEPT ![o] = RefundedRow(@)]
  /\ Log(o, "refunded", "staff")
  /\ UNCHANGED copy

(* The orders a purge of customer c redacts. *)
OrdersOf(c) == {o \in Order : Placed(o) /\ orders[o].customer = c}

(* PurgeHandler, its part on orders: every one of them in one UPDATE. *)
Redact(c) ==
  /\ \A o \in OrdersOf(c) : orders[o].version < MaxVersion
  /\ OrdersOf(c) # {}
  /\ orders' = [o \in Order |->
       IF o \in OrdersOf(c) THEN Redacted(orders[o]) ELSE orders[o]]
  /\ UNCHANGED <<audit, copy>>

(* What an operator's requests change. *)
StaffNext(o) ==
  \/ \E c \in Customer, ship \in Shipping, courier \in BOOLEAN :
       Place(o, "bank_transfer", c, ship, courier, "staff")
  \/ \E to \in Routes, named \in BOOLEAN : Transition(o, to, named, "staff")
  \/ \E ship \in Shipping \cup {orders[o].ship}, readdress \in BOOLEAN :
       UpdatePending(o, ship, readdress)
  \/ Refund(o)

(* What a shopper's checkout does. *)
ShopperNext(o) ==
  \E method \in Method, c \in Customer, ship \in Shipping :
    Place(o, method, c, ship, TRUE, "shopper")

(* What a settled Midtrans payment does to its order. *)
MidtransNext(o) == Transition(o, "paid", FALSE, "midtrans")

Next == \/ \E o \in Order : \/ Read(o) \/ StaffNext(o)
                            \/ ShopperNext(o) \/ MidtransNext(o)
        \/ \E c \in Customer : Redact(c)

Spec == Init /\ [][Next]_orderVars
-----------------------------------------------------------------------------
(***************************************************************************)
(* The audit log replays to the order: its rows form a walk of the status  *)
(* allow-list that starts at pending and ends where the row is, with the   *)
(* refund, if any, last, and a timestamp is set exactly when a row says    *)
(* so.  This is "every transition writes exactly one audit row" (BR-073)   *)
(* for any sequence of handlers (transition.go, refund.go, create.go).     *)
(***************************************************************************)
Wrote(log, s) == \E i \in 1..Len(log) : log[i].to = s

Follows(a, b) == \/ a \in Status /\ b \in Allowed[a]
                 \/ a = "cancelled" /\ b = "refunded"

Replays(log, row) ==
  /\ log # <<>> /\ log[1].to = "pending"
  /\ \A i \in 1..(Len(log) - 1) : Follows(log[i].to, log[i + 1].to)
  /\ log[Len(log)].to = IF "refunded" \in row.stamps THEN "refunded" ELSE row.status
  /\ \A s \in Stamp : s \in row.stamps <=> Wrote(log, s)

AuditReplays ==
  \A o \in Order : IF Placed(o) THEN Replays(audit[o], orders[o])
                  ELSE audit[o] = <<>>

(***************************************************************************)
(* The CHECKs of db/migrations/000018_orders.up.sql hold without their     *)
(* help, so no handler answers 500 because of one: a shipped order has a   *)
(* courier and tracking number, a refund sits on a cancelled order that    *)
(* was paid, and the total is the sum of its parts.                        *)
(***************************************************************************)
ChecksHold ==
  \A o \in Order : Placed(o) =>
    /\ orders[o].status \in {"shipped", "completed"} => orders[o].tracked
    /\ "refunded" \in orders[o].stamps =>
         orders[o].status = "cancelled" /\ "paid" \in orders[o].stamps
    /\ orders[o].total = Net + orders[o].ship

(***************************************************************************)
(* Goods never leave before the money: an order being packed, sent or      *)
(* received has been paid for (BR-070), whoever moved it and in whichever  *)
(* order their requests took the row lock.                                 *)
(***************************************************************************)
PaidBeforeWork ==
  \A o \in Order :
    orders[o].status \in {"paid", "processing", "shipped", "completed"} =>
      "paid" \in orders[o].stamps

(***************************************************************************)
(* No lost update (BR-010): a PATCH that is accepted was written against   *)
(* the row exactly as it still is.  The handler compares version numbers   *)
(* only, so this needs every other handler, the purge included, to move    *)
(* the version on.                                                         *)
(***************************************************************************)
NoLostUpdate ==
  [][\A o \in Order :
       (\E ship \in Shipping \cup {orders[o].ship}, readdress \in BOOLEAN :
          UpdatePending(o, ship, readdress)) => copy[o] = orders[o]]_orderVars

(***************************************************************************)
(* What a paid order agreed on stays: once an order has left pending, its  *)
(* amounts never change again (BR-079), and a timestamp, once set, is      *)
(* never cleared by a later move.                                          *)
(***************************************************************************)
SettledTerms ==
  [][\A o \in Order : Placed(o) =>
       /\ orders[o].stamps \subseteq orders'[o].stamps
       /\ orders[o].status # "pending" =>
            /\ orders'[o].total = orders[o].total
            /\ orders'[o].ship = orders[o].ship]_orderVars

(* How far an order has come, as OrderLifecycle tells it. *)
StageOf(row) ==
  CASE row.status = "none"                      -> "unplaced"
    [] row.status = "pending"                   -> "awaited"
    [] row.status \in {"paid", "processing"}    -> "funded"
    [] row.status \in {"shipped", "completed"}  -> "earned"
    [] row.status = "cancelled" /\ "paid" \notin row.stamps -> "dropped"
    [] row.status = "cancelled" /\ "paid" \in row.stamps
         /\ "refunded" \notin row.stamps        -> "owed"
    [] OTHER                                    -> "returned"

Lifecycle == INSTANCE OrderLifecycle WITH stage <- [o \in Order |-> StageOf(orders[o])]

(***************************************************************************)
(* Every handler, in any order, takes an order through its lifecycle and   *)
(* no other way: money that is in is earned or owed back, and is given     *)
(* back at most once (BR-070, BR-075).                                     *)
(***************************************************************************)
ImplementsLifecycle == Lifecycle!Spec
=============================================================================
