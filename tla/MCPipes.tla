------------------------------ MODULE MCPipes ------------------------------
(* Pipes for TLC.                                                          *)
EXTENDS Pipes

CONSTANTS p1, p2, x1

(* One write that does not fit and one that does.                          *)
SomeMessages == {<<0, 1, 1>>, <<0>>}
=============================================================================
