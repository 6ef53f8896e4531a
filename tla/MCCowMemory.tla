---------------------------- MODULE MCCowMemory ----------------------------
(* CowMemory on a few processes, pages and frames. *)
EXTENDS CowMemory, TLC

CONSTANTS p1, p2, p3, f1, f2, f3, f4

Symmetry == Permutations(Frame) \cup Permutations(Proc \ {InitProc})
=============================================================================
