--------------------------- MODULE MCMemoryServer ---------------------------
(* Instances of the in-memory backend for TLC.                               *)
EXTENDS MemoryServer, TLC

CONSTANTS ws1, p1, p2, j1, c1, c2, w1

Symmetry == Permutations(Connections) \cup Permutations(ProjectIds)
=============================================================================
