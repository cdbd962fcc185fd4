--------------------------- MODULE MCLoopbackMode ---------------------------
(* LoopbackMode with etherbench processes that nothing tells apart.        *)
EXTENDS LoopbackMode, TLC

Symmetry == Permutations(Clients)
=============================================================================
