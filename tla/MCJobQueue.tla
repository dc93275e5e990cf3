----------------------------- MODULE MCJobQueue -----------------------------
(* Two workers and two jobs, which one worker may hold together. *)
EXTENDS JobQueue

CONSTANTS j1, j2, w1, w2

Jobs2    == {j1, j2}
Workers2 == {w1, w2}
=============================================================================
