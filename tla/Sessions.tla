------------------------------ MODULE Sessions ------------------------------
(***************************************************************************)
(* What rotating refresh tokens promise (BR-022): all tokens that were     *)
(* rotated out of one sign-in are one session, here its chain, and a       *)
(* session that has ended never comes back to life.                        *)
(***************************************************************************)
CONSTANT Chain

VARIABLE chain          (* what each session is: not begun, open or ended  *)

Init == chain = [c \in Chain |-> "none"]

Begin(c) == chain[c] = "none" /\ chain' = [chain EXCEPT ![c] = "open"]

(* One device signs out, or a user is signed out everywhere. *)
End(C) == /\ \A c \in C : chain[c] = "open"
          /\ chain' = [c \in Chain |-> IF c \in C THEN "ended" ELSE chain[c]]

Next == (\E c \in Chain : Begin(c)) \/ (\E C \in SUBSET Chain : End(C))

Spec == Init /\ [][Next]_chain
=============================================================================
