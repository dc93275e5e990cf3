---------------------------- MODULE CartDecides -----------------------------
(***************************************************************************)
(* What a shopper is promised by "Place order" (BR-088): a cart decides on *)
(* one order, once, and every checkout of it that is answered with an      *)
(* order is answered with that one.  An order is named by the request that *)
(* made it.                                                                *)
(***************************************************************************)
CONSTANTS Cart, Request, NoOrder

VARIABLES decided,      (* the order a cart has become                     *)
          told          (* the order a request was answered with           *)

Init == /\ decided = [c \in Cart |-> NoOrder]
        /\ told = [r \in Request |-> NoOrder]

(* Request r makes the order of cart c; it may never hear of it. *)
Decide(r, c) == /\ decided[c] = NoOrder /\ told[r] = NoOrder
                /\ decided' = [decided EXCEPT ![c] = r]
                /\ told' \in {told, [told EXCEPT ![r] = r]}

(* Request r is answered with the order that cart c already is. *)
Learn(r, c) == /\ decided[c] # NoOrder /\ told[r] = NoOrder
               /\ told' = [told EXCEPT ![r] = decided[c]]
               /\ UNCHANGED decided

Next == \E r \in Request, c \in Cart : Decide(r, c) \/ Learn(r, c)

Spec == Init /\ [][Next]_<<decided, told>>
=============================================================================
