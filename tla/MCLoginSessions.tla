--------------------------- MODULE MCLoginSessions ---------------------------
(* Instances of LoginSessions for TLC. *)
EXTENDS LoginSessions, TLC

Symmetry == Permutations(Loops) \cup Permutations(Clients)
            \cup Permutations(Users) \cup Permutations(SessionIds)
=============================================================================
