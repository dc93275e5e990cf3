-------------------------- MODULE CartCheckoutProofs ------------------------
(***************************************************************************)
(* Proofs about carts and their checkout, for any number of carts,         *)
(* variants, customers and requests.  The inductive invariant is Held:     *)
(* what OrderIsCart and LockSuffices need besides each other is that a     *)
(* request which is quoting holds its cart's lock, and that it has not yet *)
(* been answered nor inserted an order.                                    *)
(***************************************************************************)
EXTENDS CartCheckout, TLAPS

(* The lines and the status of a cart that others look at outside its lock. *)
LEMMA Claims ==
  ASSUME NEW row \in CartRow, NEW who \in Who
  PROVE  LET k == Claimed(row, who)
         IN  /\ k \in CartRow
             /\ k.status = row.status /\ k.items = row.items
             /\ row.owner # Guest => k = row
             /\ row.status # "open" => k = row
  BY DEF Claimed, CartRow

LEMMA NoCartIsRow == NoCart \in CartRow /\ NoItems \in [Variant -> Qty]
  BY CartAssumption DEF NoCart, NoItems, CartRow, Qty, Who

(* Replacing one cart's row by another row of the type. *)
LEMMA RowsStay ==
  ASSUME TypeOK, NEW c \in Cart, NEW row \in CartRow,
         carts' = [carts EXCEPT ![c] = row]
  PROVE  carts' \in [Cart -> CartRow]
  BY DEF TypeOK

LEMMA RequestsStay ==
  ASSUME TypeOK, NEW r \in Request, NEW order \in Request \cup {None}, Answer(r, order)
  PROVE  req' \in [Request -> RequestRow]
  BY DEF TypeOK, Answer, RequestRow

(* A request that was made names a cart. *)
Named == \A r \in Request : req[r].state # "new" => req[r].cart \in Cart

LEMMA TypeStep ==
  ASSUME TypeOK, Named, [Next]_vars
  PROVE  TypeOK'
<1> USE DEF TypeOK
<1>1. ASSUME NEW v \in Variant, SetVisible(v) PROVE TypeOK'
  BY <1>1 DEF SetVisible
<1>2. ASSUME NEW c \in Cart, CartSteps(c) PROVE TypeOK'
  <2>1. ASSUME NEW who \in Who, Create(c, who) PROVE TypeOK'
    <3>1. [NoCart EXCEPT !.status = "open", !.owner = who] \in CartRow
      BY NoCartIsRow DEF CartRow
    <3> QED BY <2>1, <3>1, RowsStay DEF Create
  <2>2. ASSUME NEW who \in Customer, GetRead(c, who) PROVE TypeOK'
    BY <2>2 DEF GetRead
  <2>3. ASSUME NEW who \in Customer, GetClaim(c, who) PROVE TypeOK'
    <3>1. Claimed(carts[c], who) \in CartRow
      BY Claims DEF Who
    <3> QED BY <2>3, <3>1, RowsStay DEF GetClaim
  <2>4. ASSUME NEW v \in Variant, NEW qty \in Qty, NEW who \in Who,
               SetItem(c, v, qty, who)
        PROVE  TypeOK'
    <3> DEFINE k == Claimed(carts[c], who)
    <3>1. k \in CartRow
      BY Claims
    <3> HIDE DEF k
    <3>2. [k EXCEPT !.items[v] = qty] \in CartRow
      BY <3>1 DEF CartRow
    <3>3. carts' = [carts EXCEPT ![c] = [k EXCEPT !.items[v] = qty]]
      BY <2>4 DEF SetItem, k
    <3> QED BY <2>4, <3>2, <3>3, RowsStay DEF SetItem
  <2>5. CASE Expire(c)
    <3>1. [carts[c] EXCEPT !.expired = TRUE] \in CartRow
      BY DEF CartRow
    <3> QED BY <2>5, <3>1 DEF Expire
  <2>6. CASE Sweep(c)
    <3>1. [NoCart EXCEPT !.status = "swept"] \in CartRow
      BY NoCartIsRow DEF CartRow
    <3> QED BY <2>6, <3>1, RowsStay DEF Sweep
  <2> QED BY <1>2, <2>1, <2>2, <2>3, <2>4, <2>5, <2>6 DEF CartSteps
<1>3. ASSUME NEW r \in Request, NEW c \in Cart, NEW who \in Who, Tap(r, c, who)
      PROVE  TypeOK'
  <2> DEFINE q == [req[r] EXCEPT !.state = "waiting", !.cart = c, !.who = who]
  <2>1. q \in RequestRow
    BY DEF RequestRow
  <2>2. req' = [req EXCEPT ![r] = q]
    BY <1>3 DEF Tap
  <2> HIDE DEF q
  <2> QED BY <1>3, <2>1, <2>2 DEF Tap
<1>4. ASSUME NEW r \in Request, CheckoutSteps(r) PROVE TypeOK'
  <2>1. CASE Quote(r)
    <3> DEFINE c == req[r].cart
               q == [req[r] EXCEPT !.state = "quoting", !.lines = carts[c].items]
    <3>1. q \in RequestRow
      BY <2>1 DEF Named, Quote, Acquire, RequestRow, CartRow
    <3>2. req' = [req EXCEPT ![r] = q]
      BY <2>1 DEF Quote
    <3> HIDE DEF q
    <3> QED BY <2>1, <3>1, <3>2 DEF Quote, Acquire
  <2>2. CASE Replay(r)
    <3>1. \E order \in Request : Answer(r, order)
      BY <2>2 DEF Replay, OrdersOf
    <3> QED BY <2>2, <3>1, RequestsStay DEF Replay
  <2>3. CASE Refuse(r)
    BY <2>3, RequestsStay DEF Refuse
  <2>4. CASE Fail(r)
    BY <2>4, RequestsStay DEF Fail
  <2>5. ASSUME NEW heard \in BOOLEAN, Place(r, heard) PROVE TypeOK'
    <3>1. req' \in [Request -> RequestRow]
      BY <2>5, RequestsStay DEF Place
    <3>2. orders' \in [Request -> OrderRow]
      BY <2>5 DEF Place, OrderRow, RequestRow
    <3>3. carts' \in [Cart -> CartRow]
      BY <2>5 DEF Place, CheckOut, CartRow
    <3> QED BY <2>5, <3>1, <3>2, <3>3 DEF Place
  <2> QED BY <1>4, <2>1, <2>2, <2>3, <2>4, <2>5 DEF CheckoutSteps, Ends
<1>5. CASE UNCHANGED vars
  BY <1>5 DEF vars
<1> QED BY <1>1, <1>2, <1>3, <1>4, <1>5 DEF Next

LEMMA NamedStep ==
  ASSUME TypeOK, Named, [Next]_vars
  PROVE  Named'
<1>1. ASSUME NEW c \in Cart, CartSteps(c) PROVE req' = req
  BY <1>1 DEF CartSteps, Create, GetRead, GetClaim, SetItem, Expire, Sweep
<1>2. ASSUME NEW r \in Request, NEW c \in Cart, NEW who \in Who, Tap(r, c, who)
      PROVE  Named'
  BY <1>2 DEF Tap, TypeOK, RequestRow, Named
<1>3. ASSUME NEW r \in Request, CheckoutSteps(r)
      PROVE  /\ req[r].state # "new" /\ req'[r].cart = req[r].cart
             /\ \A s \in Request : s # r => req'[s] = req[s]
  BY <1>3 DEF CheckoutSteps, Ends, Quote, Replay, Refuse, Fail, Place, Acquire, Answer,
     TypeOK, RequestRow
<1>4. ASSUME (\E v \in Variant : SetVisible(v)) \/ UNCHANGED vars PROVE req' = req
  BY <1>4 DEF SetVisible, vars
<1> QED BY <1>1, <1>2, <1>3, <1>4 DEF Next, Named

LEMMA TypesAlways == Spec => [](TypeOK /\ Named)
<1>1. Init => TypeOK /\ Named
  BY NoCartIsRow DEF Init, TypeOK, OrderRow, RequestRow, Who, Named
<1>2. TypeOK /\ Named /\ [Next]_vars => (TypeOK /\ Named)'
  BY TypeStep, NamedStep
<1> QED BY <1>1, <1>2, PTL DEF Spec

(***************************************************************************)
(* Carts, locks, orders and requests are always of their types.            *)
(***************************************************************************)
THEOREM TypeCorrect == Spec => []TypeOK
  BY TypesAlways, PTL
-----------------------------------------------------------------------------
(* A request that is quoting holds the lock of a cart there is; one that is
   not yet answered has been told nothing and has placed nothing; a cart has
   one order at most. *)
Bound ==
  /\ Named
  /\ \A r \in Request : req[r].state = "quoting" => lock[req[r].cart] = r
  /\ \A r \in Request : req[r].state # "done" =>
       req[r].told = None /\ ~orders[r].placed
  /\ \A r \in Request : orders[r].placed => orders[r].cart \in Cart
  /\ \A r, s \in Request :
       orders[r].placed /\ orders[s].placed /\ orders[r].cart = orders[s].cart => r = s

Held == Bound /\ LockSuffices /\ OrderIsCart

(* What the steps that are no checkout's may do to a cart. *)
Gentle(c) ==
  \/ carts'[c].status = carts[c].status /\ carts'[c].items = carts[c].items
  \/ Free(c) /\ carts[c].status # "checked_out"

LEMMA CartStepsAreGentle ==
  ASSUME TypeOK, NEW c \in Cart, CartSteps(c), NEW k \in Cart
  PROVE  Gentle(k) /\ UNCHANGED <<lock, orders, req>>
<1> USE DEF TypeOK
<1>1. ASSUME NEW who \in Who, Create(c, who) PROVE Gentle(k)
  BY <1>1 DEF Create, Gentle, NoCart
<1>2. ASSUME NEW who \in Customer, GetRead(c, who) PROVE Gentle(k)
  BY <1>2 DEF GetRead, Gentle
<1>3. ASSUME NEW who \in Customer, GetClaim(c, who) PROVE Gentle(k)
  <2>1. who \in Who
    BY DEF Who
  <2> QED BY <1>3, <2>1, Claims DEF GetClaim, Gentle
<1>4. ASSUME NEW v \in Variant, NEW qty \in Qty, NEW who \in Who,
             SetItem(c, v, qty, who)
      PROVE  Gentle(k)
  BY <1>4 DEF SetItem, Gentle, IsOpen
<1>5. CASE Expire(c)
  BY <1>5 DEF Expire, Gentle, CartRow
<1>6. CASE Sweep(c)
  BY <1>6 DEF Sweep, Gentle
<1>7. UNCHANGED <<lock, orders, req>>
  BY DEF CartSteps, Create, GetRead, GetClaim, SetItem, Expire, Sweep
<1> QED BY <1>1, <1>2, <1>3, <1>4, <1>5, <1>6, <1>7 DEF CartSteps

LEMMA GentleStepsHold ==
  ASSUME TypeOK, Held, \A c \in Cart : Gentle(c), UNCHANGED <<lock, orders, req>>
  PROVE  Held'
<1>1. Bound'
  BY DEF Held, Bound, Named
<1>2. LockSuffices'
  <2> SUFFICES ASSUME NEW r \in Request, req[r].state = "quoting"
               PROVE  /\ carts'[req[r].cart].status = "open"
                      /\ OrdersOf(req[r].cart)' = {}
                      /\ req[r].lines = carts'[req[r].cart].items
    BY DEF LockSuffices
  <2> DEFINE c == req[r].cart
  <2>1. c \in Cart /\ ~Free(c)
    BY CartAssumption DEF Held, Bound, Named, Free
  <2>2. carts'[c].status = carts[c].status /\ carts'[c].items = carts[c].items
    BY <2>1 DEF Gentle
  <2>3. OrdersOf(c)' = OrdersOf(c)
    BY DEF OrdersOf
  <2> QED BY <2>2, <2>3 DEF Held, LockSuffices
<1>3. OrderIsCart'
  <2> SUFFICES ASSUME NEW r \in Request, orders[r].placed
               PROVE  /\ carts'[orders[r].cart].status = "checked_out"
                      /\ orders[r].lines = carts'[orders[r].cart].items
    BY DEF OrderIsCart
  <2>1. orders[r].cart \in Cart
    BY DEF Held, Bound, Named
  <2> QED BY <2>1 DEF Gentle, Held, OrderIsCart
<1> QED BY <1>1, <1>2, <1>3 DEF Held

(* The steps of a checkout before its order is there. *)
LEMMA AskingStepsHold ==
  ASSUME TypeOK, Held, UNCHANGED <<carts, orders>>, NEW r \in Request,
         \A s \in Request : s # r => req'[s] = req[s],
         req'[r].cart \in Cart, ~orders[r].placed,
         \A c \in Cart : c # req'[r].cart => lock'[c] = lock[c],
         \A s \in Request \ {r} :
           req[s].state = "quoting" /\ req[s].cart = req'[r].cart
             => lock'[req[s].cart] = s,
         req'[r].state # "done" => req'[r].told = None,
         req'[r].state = "quoting" =>
           /\ lock'[req'[r].cart] = r
           /\ carts[req'[r].cart].status = "open"
           /\ req'[r].lines = carts[req'[r].cart].items
  PROVE  Held'
<1>0. \A c : OrdersOf(c)' = OrdersOf(c)
  BY DEF OrdersOf
<1>1. Bound'
  BY DEF Held, Bound, Named
<1>2. LockSuffices'
  <2> SUFFICES ASSUME NEW s \in Request, req'[s].state = "quoting"
               PROVE  /\ carts[req'[s].cart].status = "open"
                      /\ OrdersOf(req'[s].cart) = {}
                      /\ req'[s].lines = carts[req'[s].cart].items
    BY <1>0 DEF LockSuffices
  <2>1. CASE s # r
    BY <2>1 DEF Held, LockSuffices
  <2>2. CASE s = r
    BY <2>2 DEF Held, OrderIsCart, OrdersOf
  <2> QED BY <2>1, <2>2
<1>3. OrderIsCart'
  BY DEF Held, OrderIsCart
<1> QED BY <1>1, <1>2, <1>3 DEF Held

(* A checkout's last step, which leaves its order. *)
LEMMA PlaceHolds ==
  ASSUME TypeOK, Held, NEW r \in Request, NEW heard \in BOOLEAN, Place(r, heard)
  PROVE  Held'
<1> DEFINE c == req[r].cart
<1>1. /\ c \in Cart /\ lock[c] = r /\ req[r].state = "quoting"
      /\ OrdersOf(c) = {} /\ req[r].lines = carts[c].items
  BY DEF Held, Bound, Named, LockSuffices, Place
<1>2. /\ carts'[c].status = "checked_out" /\ carts'[c].items = carts[c].items
      /\ \A k \in Cart : k # c => carts'[k] = carts[k]
  BY <1>1 DEF Place, CheckOut, TypeOK, CartRow
<1>3. /\ orders'[r].placed /\ orders'[r].cart = c /\ orders'[r].lines = carts[c].items
      /\ \A s \in Request : s # r => orders'[s] = orders[s]
  BY <1>1 DEF Place, TypeOK
<1>4. /\ req'[r].state = "done" /\ req'[r].cart = c
      /\ \A s \in Request : s # r => req'[s] = req[s]
      /\ \A k \in Cart : k # c => lock'[k] = lock[k]
  BY DEF Place, Answer, TypeOK, RequestRow
<1>5. \A s \in Request : s # r /\ req[s].state = "quoting" => req[s].cart # c
  BY <1>1 DEF Held, Bound
<1>6. \A s \in Request : orders[s].placed => orders[s].cart # c
  BY <1>1 DEF OrdersOf
<1> HIDE DEF c
<1>7. Named'
  BY <1>1, <1>4 DEF Held, Bound, Named
<1>8. Bound'
  BY <1>1, <1>3, <1>4, <1>5, <1>6, <1>7 DEF Held, Bound, Named
<1>9. LockSuffices'
  <2> SUFFICES ASSUME NEW s \in Request, req'[s].state = "quoting"
               PROVE  /\ carts'[req'[s].cart].status = "open"
                      /\ OrdersOf(req[s].cart)' = {}
                      /\ req'[s].lines = carts'[req'[s].cart].items
    BY DEF LockSuffices
  <2>1. s # r /\ req'[s] = req[s] /\ req[s].cart # c /\ req[s].cart \in Cart
    BY <1>4, <1>5 DEF Held, Bound, Named
  <2>2. OrdersOf(req[s].cart) = {}
    BY <2>1 DEF Held, LockSuffices
  <2>3. OrdersOf(req[s].cart)' = {}
    BY <1>3, <2>1, <2>2 DEF OrdersOf
  <2> QED BY <1>2, <2>1, <2>3 DEF Held, LockSuffices
<1>10. OrderIsCart'
  BY <1>1, <1>2, <1>3, <1>6 DEF Held, Bound, OrderIsCart
<1> QED BY <1>8, <1>9, <1>10 DEF Held

LEMMA HeldStep ==
  ASSUME TypeOK, Named, Held, [Next]_vars
  PROVE  Held'
<1>1. ASSUME NEW v \in Variant, SetVisible(v) PROVE Held'
  BY <1>1, GentleStepsHold DEF SetVisible, Gentle
<1>2. ASSUME NEW c \in Cart, CartSteps(c) PROVE Held'
  BY <1>2, CartStepsAreGentle, GentleStepsHold
<1>3. ASSUME NEW r \in Request, NEW c \in Cart, NEW who \in Who, Tap(r, c, who)
      PROVE  Held'
  <2>1. /\ req'[r].cart = c /\ req'[r].state = "waiting" /\ req'[r].told = req[r].told
        /\ \A s \in Request : s # r => req'[s] = req[s]
        /\ UNCHANGED <<carts, orders, lock>>
    BY <1>3 DEF Tap, TypeOK, RequestRow
  <2>2. ~orders[r].placed /\ req[r].told = None
    BY <1>3 DEF Tap, Held, Bound
  <2>3. \A s \in Request : req[s].state = "quoting" => lock'[req[s].cart] = s
    BY <2>1 DEF Held, Bound
  <2> QED BY <2>1, <2>2, <2>3, AskingStepsHold
<1>4. ASSUME NEW r \in Request, Quote(r) PROVE Held'
  <2> DEFINE c == req[r].cart
  <2>1. /\ c \in Cart /\ Free(c) /\ carts[c].status = "open"
        /\ req[r].state = "waiting" /\ ~orders[r].placed /\ req[r].told = None
    BY <1>4 DEF Quote, Acquire, IsOpen, Named, Held, Bound
  <2>2. /\ req'[r].cart = c /\ req'[r].state = "quoting" /\ req'[r].told = req[r].told
        /\ req'[r].lines = carts[c].items
        /\ \A s \in Request : s # r => req'[s] = req[s]
        /\ UNCHANGED <<carts, orders>>
        /\ lock' = [lock EXCEPT ![c] = r]
    BY <1>4 DEF Quote, Acquire, TypeOK, RequestRow
  <2>3. /\ lock'[c] = r
        /\ \A k \in Cart : k # c => lock'[k] = lock[k]
    BY <2>1, <2>2 DEF TypeOK
  <2>4. \A s \in Request : req[s].state = "quoting" => req[s].cart # c
    BY <2>1, CartAssumption DEF Held, Bound, Free
  <2> HIDE DEF c
  <2> QED BY <2>1, <2>2, <2>3, <2>4, AskingStepsHold
<1>5. ASSUME NEW r \in Request, Replay(r) \/ Refuse(r) \/ Fail(r) PROVE Held'
  <2> DEFINE c == req[r].cart
  <2>1. /\ req[r].state \in {"waiting", "quoting"} /\ c \in Cart
        /\ ~orders[r].placed
    BY <1>5 DEF Replay, Refuse, Fail, Named, Held, Bound
  <2>2. \E order : Answer(r, order)
    BY <1>5 DEF Replay, Refuse, Fail
  <2>3. /\ req'[r].cart = c /\ req'[r].state = "done"
        /\ \A s \in Request : s # r => req'[s] = req[s]
    BY <2>2 DEF Answer, TypeOK, RequestRow
  <2>4. UNCHANGED <<carts, orders>>
    BY <1>5 DEF Replay, Refuse, Fail
  <2>5. lock' = lock \/ (req[r].state = "quoting" /\ lock' = [lock EXCEPT ![c] = None])
    BY <1>5 DEF Replay, Refuse, Fail
  <2>6. \A k \in Cart : k # c => lock'[k] = lock[k]
    BY <2>5 DEF TypeOK
  <2>7. \A s \in Request \ {r} : req[s].state = "quoting" /\ req[s].cart = c
          => lock'[req[s].cart] = s
    BY <2>5 DEF Held, Bound
  <2> HIDE DEF c
  <2> QED BY <2>1, <2>3, <2>4, <2>6, <2>7, AskingStepsHold
<1>6. CASE UNCHANGED vars
  BY <1>6, GentleStepsHold DEF vars, Gentle
<1> QED BY <1>1, <1>2, <1>3, <1>4, <1>5, <1>6, PlaceHolds DEF Next, CheckoutSteps, Ends

LEMMA HeldAlways == Spec => []Held
<1>1. Init => Held
  BY DEF Init, Held, Bound, Named, LockSuffices, OrderIsCart
<1>2. TypeOK /\ Named /\ Held /\ [Next]_vars => Held'
  BY HeldStep
<1> QED BY <1>1, <1>2, TypesAlways, PTL DEF Spec

(***************************************************************************)
(* Once a checkout has the cart's row lock, the insert cannot be refused   *)
(* by UNIQUE (cart_id): the cart is open, unordered and as it was quoted.  *)
(***************************************************************************)
THEOREM LockAlwaysSuffices == Spec => []LockSuffices
<1>1. Held => LockSuffices
  BY DEF Held
<1> QED BY <1>1, HeldAlways, PTL

(***************************************************************************)
(* A cart with an order is kept, checked out, and holds what was ordered.  *)
(***************************************************************************)
THEOREM OrderAlwaysIsCart == Spec => []OrderIsCart
<1>1. Held => OrderIsCart
  BY DEF Held
<1> QED BY <1>1, HeldAlways, PTL
-----------------------------------------------------------------------------
LEMMA OwnerStep ==
  ASSUME TypeOK, Held, [Next]_vars, NEW k \in Cart
  PROVE  /\ carts[k].owner # Guest =>
              carts'[k].owner = carts[k].owner \/ carts'[k].status = "swept"
         /\ carts[k].status = "checked_out" => carts'[k] = carts[k]
<1> DEFINE Stays == /\ carts[k].owner # Guest =>
                         carts'[k].owner = carts[k].owner \/ carts'[k].status = "swept"
                    /\ carts[k].status = "checked_out" => carts'[k] = carts[k]
<1>0. ASSUME carts'[k] = carts[k] PROVE Stays
  BY <1>0
<1>1. ASSUME NEW c \in Cart, CartSteps(c) PROVE Stays
  <2>1. ASSUME NEW who \in Who, Create(c, who) PROVE Stays
    BY <2>1 DEF Create, NoCart, TypeOK
  <2>2. ASSUME NEW who \in Customer, GetRead(c, who) PROVE Stays
    BY <2>2 DEF GetRead
  <2>3. ASSUME NEW who \in Customer, GetClaim(c, who) PROVE Stays
    <3>1. who \in Who
      BY DEF Who
    <3> QED BY <2>3, <3>1, Claims DEF GetClaim, TypeOK
  <2>4. ASSUME NEW v \in Variant, NEW qty \in Qty, NEW who \in Who,
               SetItem(c, v, qty, who)
        PROVE  Stays
    <3> DEFINE q == Claimed(carts[c], who)
    <3>1. /\ q \in CartRow /\ q.status = carts[c].status
          /\ carts[c].owner # Guest => q = carts[c]
      BY Claims DEF TypeOK
    <3> HIDE DEF q
    <3>2. [q EXCEPT !.items[v] = qty].owner = q.owner
      BY <3>1 DEF CartRow
    <3>3. carts[c].status = "open" /\ carts' = [carts EXCEPT ![c] = [q EXCEPT !.items[v] = qty]]
      BY <2>4 DEF SetItem, IsOpen, q
    <3> QED BY <3>1, <3>2, <3>3 DEF TypeOK
  <2>5. CASE Expire(c)
    BY <2>5 DEF Expire, IsOpen, TypeOK, CartRow
  <2>6. CASE Sweep(c)
    BY <2>6 DEF Sweep, TypeOK
  <2> QED BY <1>1, <2>1, <2>2, <2>3, <2>4, <2>5, <2>6 DEF CartSteps
<1>2. ASSUME NEW r \in Request, NEW heard \in BOOLEAN, Place(r, heard) PROVE Stays
  <2> DEFINE c == req[r].cart
  <2>1. carts[c].status = "open" /\ c \in Cart
    BY <1>2 DEF Place, Held, Bound, Named, LockSuffices
  <2>2. carts' = [carts EXCEPT ![c].status = "checked_out"]
    BY <1>2 DEF Place, CheckOut
  <2> HIDE DEF c
  <2> QED BY <2>1, <2>2 DEF TypeOK, CartRow
<1>3. ASSUME \/ \E v \in Variant : SetVisible(v)
             \/ \E r \in Request, c \in Cart, who \in Who : Tap(r, c, who)
             \/ \E r \in Request : Quote(r) \/ Replay(r) \/ Refuse(r) \/ Fail(r)
             \/ UNCHANGED vars
      PROVE  carts' = carts
  BY <1>3 DEF SetVisible, Tap, Quote, Replay, Refuse, Fail, vars
<1> QED BY <1>0, <1>1, <1>2, <1>3 DEF Next, CheckoutSteps, Ends

(***************************************************************************)
(* A cart stays its customer's until it is swept, and a checked-out one is *)
(* never touched again.                                                    *)
(***************************************************************************)
THEOREM OwnerAlwaysStays == Spec => OwnerStays
<1>1. TypeOK /\ Held /\ [Next]_vars =>
        [\A c \in Cart :
           /\ carts[c].owner # Guest =>
                carts'[c].owner = carts[c].owner \/ carts'[c].status = "swept"
           /\ carts[c].status = "checked_out" => carts'[c] = carts[c]]_vars
  BY OwnerStep
<1> QED BY <1>1, TypesAlways, HeldAlways, PTL DEF Spec, OwnerStays
-----------------------------------------------------------------------------
(* The order a cart has become is the only one there is. *)
LEMMA TheOrder ==
  ASSUME Held, NEW r \in Request, orders[r].placed
  PROVE  OrderOf(orders[r].cart) = r
<1>1. OrdersOf(orders[r].cart) = {r}
  BY DEF OrdersOf, Held, Bound
<1> QED BY <1>1 DEF OrderOf

LEMMA DecidesStep ==
  ASSUME TypeOK, Named, Held, Held', [Next]_vars
  PROVE  [Decides!Next]_<<[c \in Cart |-> OrderOf(c)], [r \in Request |-> req[r].told]>>
<1> DEFINE decided == [c \in Cart |-> OrderOf(c)]
           decided2 == [c \in Cart |-> OrderOf(c)']
           told == [r \in Request |-> req[r].told]
           told2 == [r \in Request |-> req'[r].told]
           Sees == \/ decided2 = decided /\ told2 = told
                   \/ \E r \in Request, c \in Cart :
                        \/ /\ decided[c] = None /\ told[r] = None
                           /\ decided2 = [decided EXCEPT ![c] = r]
                           /\ told2 \in {told, [told EXCEPT ![r] = r]}
                        \/ /\ decided[c] # None /\ told[r] = None
                           /\ told2 = [told EXCEPT ![r] = decided[c]]
                           /\ decided2 = decided
<1>0. SUFFICES Sees
  BY DEF Decides!Next, Decides!Decide, Decides!Learn
<1>1. ASSUME orders' = orders PROVE decided2 = decided
  BY <1>1 DEF OrderOf, OrdersOf
<1>2. ASSUME \A r \in Request : req'[r].told = req[r].told PROVE told2 = told
  BY <1>2
<1>3. ASSUME orders' = orders, \A r \in Request : req'[r].told = req[r].told
      PROVE  Sees
  BY <1>1, <1>2, <1>3
<1>4. ASSUME \/ \E v \in Variant : SetVisible(v)
             \/ \E c \in Cart : CartSteps(c)
             \/ UNCHANGED vars
      PROVE  UNCHANGED <<orders, req>>
  BY <1>4 DEF SetVisible, CartSteps, Create, GetRead, GetClaim, SetItem, Expire, Sweep,
     vars
<1>5. ASSUME NEW r \in Request,
             (\E c \in Cart, who \in Who : Tap(r, c, who)) \/ Quote(r)
      PROVE  orders' = orders /\ \A s \in Request : req'[s].told = req[s].told
  <2>1. ASSUME NEW c \in Cart, NEW who \in Who, Tap(r, c, who)
        PROVE  orders' = orders /\ \A s \in Request : req'[s].told = req[s].told
    BY <2>1 DEF Tap, TypeOK, RequestRow
  <2>2. ASSUME Quote(r)
        PROVE  orders' = orders /\ \A s \in Request : req'[s].told = req[s].told
    BY <2>2 DEF Quote, TypeOK, RequestRow
  <2> QED BY <1>5, <2>1, <2>2
<1>6. ASSUME NEW r \in Request, Refuse(r) \/ Fail(r)
      PROVE  orders' = orders /\ \A s \in Request : req'[s].told = req[s].told
  <2>1. req[r].told = None
    BY <1>6 DEF Refuse, Fail, Held, Bound
  <2> QED BY <1>6, <2>1 DEF Refuse, Fail, Answer, TypeOK, RequestRow
<1>7. ASSUME NEW r \in Request, Replay(r) PROVE Sees
  <2> DEFINE c == req[r].cart
  <2> PICK order \in OrdersOf(c) : Answer(r, order)
    BY <1>7 DEF Replay
  <2>1. /\ order \in Request /\ orders[order].placed /\ orders[order].cart = c
        /\ c \in Cart /\ req[r].told = None /\ orders' = orders
    BY <1>7 DEF OrdersOf, Replay, Named, Held, Bound
  <2>2. OrderOf(c) = order /\ order # None
    BY <2>1, TheOrder, CartAssumption
  <2>3. /\ req'[r].told = order
        /\ \A s \in Request : s # r => req'[s] = req[s]
    BY DEF Answer, TypeOK, RequestRow
  <2> HIDE DEF c
  <2>4. told2 = [told EXCEPT ![r] = order]
    BY <2>3
  <2>5. decided[c] = order
    BY <2>1, <2>2
  <2> QED BY <1>1, <2>1, <2>2, <2>4, <2>5
<1>8. ASSUME NEW r \in Request, NEW heard \in BOOLEAN, Place(r, heard) PROVE Sees
  <2> PICK c \in Cart : c = req[r].cart
    BY <1>8 DEF Place, Named
  <2>1. /\ c \in Cart /\ req[r].told = None /\ OrdersOf(c) = {}
    BY <1>8 DEF Place, Named, Held, Bound
  <2>2. /\ orders'[r].placed /\ orders'[r].cart = c
        /\ \A s \in Request : s # r => orders'[s] = orders[s]
    BY <1>8 DEF Place, TypeOK
  <2>3. /\ req'[r].told \in {None, r}
        /\ \A s \in Request : s # r => req'[s] = req[s]
    BY <1>8 DEF Place, Answer, TypeOK, RequestRow
  <2>4. ~orders[r].placed
    BY <1>8 DEF Place, Held, Bound
  <2>5. OrderOf(c)' = r
    <3>1. OrdersOf(c)' = {r}
      BY <2>1, <2>2 DEF OrdersOf
    <3> QED BY <3>1 DEF OrderOf
  <2>6. ASSUME NEW k \in Cart, k # c PROVE OrderOf(k)' = OrderOf(k)
    <3>1. OrdersOf(k)' = OrdersOf(k)
      BY <2>2, <2>4, <2>6 DEF OrdersOf
    <3> QED BY <3>1 DEF OrderOf
  <2>7. decided2 = [decided EXCEPT ![c] = r]
    BY <2>1, <2>5, <2>6
  <2>8. decided[c] = None
    BY <2>1 DEF OrderOf
  <2>9. told2 = [told EXCEPT ![r] = req'[r].told]
    BY <2>3
  <2>10. told2 \in {told, [told EXCEPT ![r] = r]}
    BY <2>1, <2>3, <2>9
  <2> QED BY <2>1, <2>7, <2>8, <2>10
<1> QED BY <1>3, <1>4, <1>5, <1>6, <1>7, <1>8 DEF Next, CheckoutSteps, Ends

(***************************************************************************)
(* A cart decides on one order, and whoever is answered learns that one:   *)
(* the checkout implements CartDecides.                                    *)
(***************************************************************************)
THEOREM CheckoutDecidesOnce == Spec => ImplementsCartDecides
<1>1. Init => Decides!Init
  BY DEF Init, Decides!Init, OrderOf, OrdersOf
<1>2. TypeOK /\ Named /\ Held /\ Held' /\ [Next]_vars =>
        [Decides!Next]_<<[c \in Cart |-> OrderOf(c)], [r \in Request |-> req[r].told]>>
  BY DecidesStep
<1> QED BY <1>1, <1>2, TypesAlways, HeldAlways, PTL
        DEF Spec, ImplementsCartDecides, Decides!Spec
=============================================================================
