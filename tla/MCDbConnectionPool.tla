------------------------- MODULE MCDbConnectionPool -------------------------
(* Instances of DbConnectionPool for TLC. *)
EXTENDS DbConnectionPool, TLC

Symmetry == Permutations(Threads) \cup Permutations(Conns)
=============================================================================
