----------------------------- MODULE MCAccounts -----------------------------
(* Two sign-ins to race for one address, one more account to confuse. *)
EXTENDS Accounts, TLC

CONSTANTS c1, c2, m1, m2, g1, g2, s1, r1, r2

Customers2 == {c1, c2}
Emails2    == {m1, m2}
Subjects2  == {g1, g2}
Sessions1  == {s1}
Reqs2      == {r1, r2}

(* Ids are interchangeable, and no property is a liveness property. *)
Symmetry == Permutations(Customers2) \cup Permutations(Reqs2) \cup
            Permutations(Subjects2) \cup Permutations(Emails2)
=============================================================================
