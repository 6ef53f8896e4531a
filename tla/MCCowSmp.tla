------------------------------ MODULE MCCowSmp ------------------------------
(* CowSmp on three processes and three frames. *)
EXTENDS CowSmp, TLC

CONSTANTS p1, p2, p3, f1, f2, f3

Symmetry == Permutations(Frame) \cup Permutations(Proc \ {InitProc})
=============================================================================
