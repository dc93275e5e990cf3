---------------------------- MODULE CartCheckout ----------------------------
(***************************************************************************)
(* Carts and their checkout (src/internal/carts, the first half of         *)
(* src/internal/orders/checkout.go, the cart half of the nightly sweep).   *)
(*                                                                         *)
(* A checkout holds the cart's row lock from LockCart to its commit, and   *)
(* waits for Biteship in between; it is two actions, and whoever else      *)
(* needs the row waits.  SetItem holds the lock too but waits for nobody,  *)
(* so it is one action.  Get takes no lock before it claims, and is two.   *)
(* Postgres runs READ COMMITTED: an UPDATE or DELETE that waited for a row *)
(* tests its WHERE again on the row it gets.                               *)
(***************************************************************************)
EXTENDS Integers

CONSTANTS
  Cart,         (* cart ids                                                *)
  Variant,      (* the variants of the catalog                             *)
  MaxQty,       (* bound on a line's quantity (999 in the code)            *)
  Customer,     (* shoppers who may sign in                                *)
  Guest,        (* a request without a customer token; a cart's NULL owner *)
  Request,      (* checkout requests                                       *)
  None          (* no request, no cart: a free lock, an order not there    *)

ASSUME CartAssumption == /\ MaxQty \in Nat \ {0}
                         /\ Guest \notin Customer
                         /\ None \notin Request \cup Cart

VARIABLES
  carts,        (* the carts and cart_items tables                         *)
  visible,      (* storefront_variants: what shoppers can buy now          *)
  lock,         (* the request that holds a cart's row lock                *)
  getting,      (* Get requests between GetCart and ClaimCart              *)
  orders,       (* the orders table, by the request that inserted the row  *)
  req           (* the checkout requests                                   *)

vars == <<carts, visible, lock, getting, orders, req>>

Who == Customer \cup {Guest}
Qty == 0..MaxQty

CartRow == [status : {"none", "open", "checked_out", "swept"}, owner : Who,
            expired : BOOLEAN, items : [Variant -> Qty]]

NoItems == [v \in Variant |-> 0]
NoCart  == [status |-> "none", owner |-> Guest, expired |-> FALSE,
            items |-> NoItems]

OrderRow == [placed : BOOLEAN, cart : Cart \cup {None}, owner : Who,
             lines : [Variant -> Qty]]

(* state is where a request is; told is the order it was answered with. *)
RequestRow == [state : {"new", "waiting", "quoting", "done"},
               cart : Cart \cup {None}, who : Who, lines : [Variant -> Qty], told : Request \cup {None}]

TypeOK == /\ carts \in [Cart -> CartRow]
          /\ visible \subseteq Variant
          /\ lock \in [Cart -> Request \cup {None}]
          /\ getting \subseteq Cart \X Customer
          /\ orders \in [Request -> OrderRow]
          /\ req \in [Request -> RequestRow]

Free(c) == lock[c] = None

(* Mutation: a cart may still change while its order is only pending. *)
IsOpenUnexpired(row) == row.status \in {"open", "checked_out"} /\ ~row.expired

(* open: a missing, expired or checked-out cart is the one 404. *)
IsOpen(row) == row.status = "open" /\ ~row.expired

(* Mutation: whoever signs in last has the cart. *)
ClaimedAnew(row, who) ==
  IF who # Guest /\ row.status = "open" THEN [row EXCEPT !.owner = who] ELSE row

(* ClaimCart: only an open cart nobody owns, and only for a customer. *)
Claimed(row, who) ==
  IF who # Guest /\ row.owner = Guest /\ row.status = "open"
  THEN [row EXCEPT !.owner = who] ELSE row

(* The variants in a cart that can no longer be bought. *)
Unavailable(c) == {v \in Variant : carts[c].items[v] > 0 /\ v \notin visible}

(* OrderByCart *)
OrdersOf(c) == {r \in Request : orders[r].placed /\ orders[r].cart = c}
-----------------------------------------------------------------------------
Init ==
  /\ carts = [c \in Cart |-> NoCart]
  /\ visible = Variant
  /\ lock = [c \in Cart |-> None]
  /\ getting = {}
  /\ orders = [r \in Request |-> [placed |-> FALSE, cart |-> None,
                                  owner |-> Guest, lines |-> NoItems]]
  /\ req = [r \in Request |-> [state |-> "new", cart |-> None, who |-> Guest,
                               lines |-> NoItems, told |-> None]]

(* Staff publish a variant, or archive it or its product, at any time. *)
SetVisible(v) ==
  /\ visible' \in {visible \cup {v}, visible \ {v}}
  /\ UNCHANGED <<carts, lock, getting, orders, req>>

(* Create *)
Create(c, who) ==
  /\ carts[c] = NoCart /\ Free(c)
  /\ carts' = [carts EXCEPT ![c] = [NoCart EXCEPT !.status = "open", !.owner = who]]
  /\ UNCHANGED <<visible, lock, getting, orders, req>>

(* Get, its read: a signed-in shopper's goes on to the claim. *)
GetRead(c, who) ==
  /\ IsOpen(carts[c])
  /\ getting' = getting \cup {<<c, who>>}
  /\ UNCHANGED <<carts, visible, lock, orders, req>>

(* Get, ClaimCart: an UPDATE that waits for the row and tests it again. *)
GetClaim(c, who) ==
  /\ <<c, who>> \in getting
  /\ Free(c)
  /\ carts' = [carts EXCEPT ![c] = Claimed(@, who)]
  /\ getting' = getting \ {<<c, who>>}
  /\ UNCHANGED <<visible, lock, orders, req>>

(* SetItem: claims, sets or removes the line, moves the expiry out. *)
SetItem(c, v, qty, who) ==
  /\ Free(c)
  /\ IsOpen(carts[c])
  /\ qty > 0 => v \in visible
  /\ carts' = [carts EXCEPT ![c] = [Claimed(@, who) EXCEPT !.items[v] = qty]]
  /\ UNCHANGED <<visible, lock, getting, orders, req>>

(* Thirty days pass since the cart's last change. *)
Expire(c) ==
  /\ IsOpen(carts[c])
  /\ carts' = [carts EXCEPT ![c].expired = TRUE]
  /\ UNCHANGED <<visible, lock, getting, orders, req>>

(* DeleteExpiredCarts: only open carts, whatever it waited for. *)
Sweep(c) ==
  /\ Free(c)
  /\ carts[c].status = "open" /\ carts[c].expired
  /\ carts' = [carts EXCEPT ![c] = [NoCart EXCEPT !.status = "swept"]]
  /\ UNCHANGED <<visible, lock, getting, orders, req>>
-----------------------------------------------------------------------------
(* A shopper taps "Place order"; the request queues for the cart's row. *)
Tap(r, c, who) ==
  /\ req[r].state = "new"
  /\ req' = [req EXCEPT ![r].state = "waiting", ![r].cart = c, ![r].who = who]
  /\ UNCHANGED <<carts, visible, lock, getting, orders>>

(* Answered: with an order, or, told None, with an error. *)
Answer(r, order) ==
  req' = [req EXCEPT ![r].state = "done", ![r].told = order]

(* Mutation: the row is read without FOR UPDATE. *)
AcquireNothing(r) == /\ req[r].state = "waiting"
                     /\ UNCHANGED lock

(* Checkout, LockCart: r gets the row's lock. *)
Acquire(r) == /\ req[r].state = "waiting"
              /\ Free(req[r].cart)
              /\ lock' = [lock EXCEPT ![req[r].cart] = r]

(* Checkout, of an open cart with every item available: the lines are
   snapshotted and Biteship is asked, with the lock held. *)
Quote(r) ==
  LET c == req[r].cart IN
  /\ Acquire(r)
  /\ IsOpen(carts[c])
  /\ carts[c].items # NoItems
  /\ Unavailable(c) = {}
  /\ req' = [req EXCEPT ![r].state = "quoting", ![r].lines = carts[c].items]
  /\ UNCHANGED <<carts, visible, getting, orders>>

(* Checkout, of a cart that is checked out: the order it already is. *)
Replay(r) ==
  LET c == req[r].cart IN
  /\ req[r].state = "waiting" /\ Free(c)
  /\ carts[c].status = "checked_out"
  /\ \E order \in OrdersOf(c) : Answer(r, order)
  /\ UNCHANGED <<carts, visible, lock, getting, orders>>

(* Checkout refuses: no such cart, an empty one, or item_unavailable. *)
Refuse(r) ==
  LET c == req[r].cart IN
  /\ req[r].state = "waiting" /\ Free(c)
  /\ \/ carts[c].status # "checked_out" /\ ~IsOpen(carts[c])
     \/ IsOpen(carts[c]) /\ carts[c].items = NoItems
     \/ IsOpen(carts[c]) /\ Unavailable(c) # {}
  /\ Answer(r, None)
  /\ UNCHANGED <<carts, visible, lock, getting, orders>>

(* Mutation: the lock is given back and nothing says the cart is used up. *)
CheckOutLeavesOpen(r) == UNCHANGED carts

(* CheckOutCart *)
CheckOut(r) == carts' = [carts EXCEPT ![req[r].cart].status = "checked_out"]

(* Checkout, its end: UNIQUE (cart_id) lets the insert through, the cart is
   marked, everything commits and the lock is released.  heard is whether the
   answer reaches the shopper, who taps again if it does not. *)
Place(r, heard) ==
  LET c == req[r].cart IN
  /\ req[r].state = "quoting"
  /\ OrdersOf(c) = {}
  /\ orders' = [orders EXCEPT ![r] = [placed |-> TRUE, cart |-> c,
                                      owner |-> req[r].who, lines |-> req[r].lines]]
  /\ CheckOut(r)
  /\ lock' = [lock EXCEPT ![c] = None]
  /\ Answer(r, IF heard THEN r ELSE None)
  /\ UNCHANGED <<visible, getting>>

(* Mutation: answered before the transaction is committed. *)
FailTellsOrder(r) ==
  /\ req[r].state = "quoting"
  /\ lock' = [lock EXCEPT ![req[r].cart] = None]
  /\ Answer(r, r)
  /\ UNCHANGED <<carts, visible, getting, orders>>

(* Mutation: an early return that leaves the transaction open. *)
FailKeepsLock(r) ==
  /\ req[r].state = "quoting"
  /\ Answer(r, None)
  /\ UNCHANGED <<carts, visible, lock, getting, orders>>

(* Checkout, rolled back: Biteship down, the service or the payment method
   not offered, a total Midtrans cannot take, a crash. *)
Fail(r) ==
  /\ req[r].state = "quoting"
  /\ lock' = [lock EXCEPT ![req[r].cart] = None]
  /\ Answer(r, None)
  /\ UNCHANGED <<carts, visible, getting, orders>>
-----------------------------------------------------------------------------
CartSteps(c) ==
  \/ \E who \in Who : Create(c, who)
  \/ \E who \in Customer : GetRead(c, who) \/ GetClaim(c, who)
  \/ \E v \in Variant, qty \in Qty, who \in Who : SetItem(c, v, qty, who)
  \/ Expire(c) \/ Sweep(c)

Ends(r) == Fail(r) \/ \E heard \in BOOLEAN : Place(r, heard)

CheckoutSteps(r) == Quote(r) \/ Replay(r) \/ Refuse(r) \/ Ends(r)

Next == \/ \E v \in Variant : SetVisible(v)
        \/ \E c \in Cart : CartSteps(c)
        \/ \E r \in Request : \/ \E c \in Cart, who \in Who : Tap(r, c, who)
                              \/ CheckoutSteps(r)

Spec == Init /\ [][Next]_vars

(***************************************************************************)
(* A Biteship call has a deadline, so a checkout that holds a lock ends;   *)
(* Postgres queues waiters for a row, so one that waits is served in the   *)
(* end although others take the lock in between (strong fairness).         *)
(***************************************************************************)
Fair == \A r \in Request : /\ WF_vars(Ends(r))
                            /\ SF_vars(Quote(r) \/ Replay(r) \/ Refuse(r))

FairSpec == Spec /\ Fair
-----------------------------------------------------------------------------
(***************************************************************************)
(* The order is the cart (BR-088, BR-096): while a cart has an order it is *)
(* kept and checked out, never swept, and what was ordered is what the     *)
(* cart holds: no edit that the shopper saw accepted missed the order, and *)
(* none was accepted after it.                                             *)
(***************************************************************************)
OrderIsCart ==
  \A r \in Request : orders[r].placed =>
    /\ carts[orders[r].cart].status = "checked_out"
    /\ orders[r].lines = carts[orders[r].cart].items

(***************************************************************************)
(* The row lock alone keeps the promise: when a checkout comes to insert   *)
(* its order, the cart is still open, still holds what was snapshotted and *)
(* has no order, so UNIQUE (cart_id) never refuses and the shopper is not  *)
(* answered 500 (checkout.go: "the cart's row lock is what makes it once").*)
(***************************************************************************)
LockSuffices ==
  \A r \in Request : req[r].state = "quoting" =>
    /\ carts[req[r].cart].status = "open"
    /\ OrdersOf(req[r].cart) = {}
    /\ req[r].lines = carts[req[r].cart].items

(***************************************************************************)
(* A cart is never taken from the customer it belongs to (BR-095), neither *)
(* by a signed-in stranger who holds its id nor by a claim that waited     *)
(* while another took it; and a checked-out cart does not change hands.    *)
(***************************************************************************)
OwnerStays ==
  [][\A c \in Cart :
       /\ carts[c].owner # Guest =>
            carts'[c].owner = carts[c].owner \/ carts'[c].status = "swept"
       /\ carts[c].status = "checked_out" => carts'[c] = carts[c]]_vars

(***************************************************************************)
(* A cart decides once and every answered tap learns the decision: the     *)
(* checkout implements CartDecides (BR-088).                               *)
(***************************************************************************)
OrderOf(c) == IF OrdersOf(c) = {} THEN None ELSE CHOOSE r \in OrdersOf(c) : TRUE

Decides == INSTANCE CartDecides WITH
             NoOrder <- None,
             decided <- [c \in Cart |-> OrderOf(c)],
             told <- [r \in Request |-> req[r].told]

ImplementsCartDecides == Decides!Spec

(***************************************************************************)
(* Everybody who taps is answered: the twentieth tap waits for nineteen    *)
(* others and Biteship, and then gets the order or an error (BR-088).      *)
(***************************************************************************)
TapsAnswered == \A r \in Request : req[r].state = "waiting" ~> req[r].state = "done"
=============================================================================
