----------------------------- MODULE MCBufCache -----------------------------
(* BufCache for TLC.                                                       *)
EXTENDS BufCache, TLC

CONSTANTS p1, p2, k1, k2, k3, b1, b2
=============================================================================
