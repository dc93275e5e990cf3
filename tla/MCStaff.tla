------------------------------ MODULE MCStaff -------------------------------
(* A user to sign out and one to do it, two requests and two edits to race. *)
EXTENDS Staff, TLC

CONSTANTS u1, u2, t1, t2, r1, r2, e1, e2

Users2   == {u1, u2}
Tokens2  == {t1, t2}
Reqs2    == {r1, r2}
Editors2 == {e1, e2}

(* Tokens and requests are interchangeable, and no property is a liveness  *)
(* property.                                                               *)
Symmetry == Permutations(Tokens2) \cup Permutations(Reqs2)
-----------------------------------------------------------------------------
(* Bound: a behaviour is about the sessions, with one edit at a time, or   *)
(* about the team, with two: then no session is issued, as nobody's role   *)
(* or status depends on one.                                               *)
VARIABLE about

staffVars == <<about, vars>>

StaffInit == about \in {"sessions", "team"} /\ Init

StaffNext == /\ UNCHANGED about
             /\ \/ about = "sessions" /\ Next /\ edit'[e2] = NoEdit
                \/ about = "team" /\ Next /\ tokens' = tokens

StaffSpec == StaffInit /\ [][StaffNext]_staffVars
=============================================================================
