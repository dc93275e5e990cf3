--------------------------- MODULE OrderLifecycle ---------------------------
(***************************************************************************)
(* What a shop is promised about an order (contracts/02-business-rules.md, *)
(* BR-070 and BR-075), with no rows, versions or requests in it: an order  *)
(* is awaited, then its money is in; money that is in is either earned by  *)
(* shipping the goods or owed back, and what is owed back is given back at *)
(* most once.                                                              *)
(***************************************************************************)
CONSTANT Order          (* the orders that may be placed                   *)

VARIABLE stage          (* how far each order has come                     *)

Stage == {"unplaced", "awaited", "funded", "earned", "dropped", "owed",
          "returned"}

TypeOK == stage \in [Order -> Stage]

Init == stage = [o \in Order |-> "unplaced"]

(* Order o goes from one stage to another. *)
Step(o, from, to) == /\ stage[o] = from
                     /\ stage' = [stage EXCEPT ![o] = to]

Next == \E o \in Order : \/ Step(o, "unplaced", "awaited")
                         \/ Step(o, "awaited", "funded")
                         \/ Step(o, "awaited", "dropped")
                         \/ Step(o, "funded", "earned")
                         \/ Step(o, "funded", "owed")
                         \/ Step(o, "owed", "returned")

Spec == Init /\ [][Next]_stage
=============================================================================
