----------------------------- MODULE MCPayments -----------------------------
(* Payments on one order: nothing but the settings is shared by two.  Of   *)
(* the two shipping amounts one can change the total while a link is out.  *)
EXTENDS Payments

CONSTANTS o1, c1

Orders1    == {o1}
Customers1 == {c1}
=============================================================================
