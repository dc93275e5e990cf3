--------------------------- MODULE MCCartsAndJobs ---------------------------
(***************************************************************************)
(* What must go on to its end, side by side: checkouts of a cart, and a    *)
(* background job.  They share no variable, so a behaviour is about one of *)
(* them and the other rests where it began.  One cart is enough for every  *)
(* race, as carts share nothing but the catalog; one job is what two       *)
(* workers can have in hand together.                                      *)
(***************************************************************************)
EXTENDS CartCheckout, JobQueue

CONSTANTS k1, v1, v2, c1, c2, r1, r2, j1, w1, w2

Carts      == {k1}
Variants2  == {v1, v2}
Customers2 == {c1, c2}
Requests2  == {r1, r2}
Jobs1      == {j1}
Workers2   == {w1, w2}
-----------------------------------------------------------------------------
VARIABLE about    (* the part a behaviour is about                         *)

bothVars == <<about, vars, jobVars>>

BothInit == about \in {"carts", "jobs"} /\ Init /\ JobInit

BothNext == /\ UNCHANGED about
            /\ \/ about = "carts" /\ Next    /\ UNCHANGED jobVars
               \/ about = "jobs"  /\ JobNext /\ UNCHANGED vars

BothSpec == BothInit /\ [][BothNext]_bothVars /\ Fair /\ JobFair
=============================================================================
