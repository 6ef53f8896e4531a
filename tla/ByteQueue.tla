----------------------------- MODULE ByteQueue -----------------------------
(***************************************************************************)
(* What a pipe promises: the bytes written to it come out once each and in *)
(* the order they went in, and at most Size of them are under way.         *)
(***************************************************************************)
EXTENDS Integers, Sequences

CONSTANTS Proc, Pipe, Byte, Size, None

VARIABLES
    q,      \* the bytes in each pipe
    using,  \* the pipe of a process's read or write
    todo,   \* what a process has still to write
    got     \* what its last read returned

vars == <<q, using, todo, got>>

Init ==
    /\ q = [x \in Pipe |-> <<>>] /\ using = [p \in Proc |-> None]
    /\ todo = [p \in Proc |-> <<>>] /\ got = [p \in Proc |-> <<>>]

(* A call begins, or ends, or a process ends.                              *)
Turn(p) ==
    /\ using'[p] \in Pipe \cup {None} /\ todo'[p] \in Seq(Byte)
    /\ using[p] # None => using'[p] = None
    /\ got'[p] \in {<<>>, got[p]}
    /\ \A o \in Proc \ {p} : using'[o] = using[o] /\ todo'[o] = todo[o] /\ got'[o] = got[o]
    /\ UNCHANGED q

(* The first n bytes of what p has to write go in; then p goes on, or it   *)
(* is done or gives the rest up.                                           *)
Put(p, n) ==
    /\ using[p] # None
    /\ Len(q[using[p]]) + n <= Size
    /\ q' = [q EXCEPT ![using[p]] = @ \o SubSeq(todo[p], 1, n)]
    /\ \/ /\ todo' = [todo EXCEPT ![p] = SubSeq(@, n + 1, Len(@))]
          /\ UNCHANGED using
       \/ /\ todo' = [todo EXCEPT ![p] = <<>>]
          /\ using' = [using EXCEPT ![p] = None]
    /\ UNCHANGED got

Get(p, n) ==
    /\ using[p] # None
    /\ got' = [got EXCEPT ![p] = SubSeq(q[using[p]], 1, n)]
    /\ q' = [q EXCEPT ![using[p]] = SubSeq(@, n + 1, Len(@))]
    /\ using' = [using EXCEPT ![p] = None]
    /\ UNCHANGED todo

(* The last end is closed; a new pipe is empty.                            *)
Drop(x) == q' = [q EXCEPT ![x] = <<>>] /\ UNCHANGED <<using, todo, got>>

Next ==
    \/ \E p \in Proc :
        \/ Turn(p)
        \/ \E n \in 0 .. Len(todo[p]) : Put(p, n)
        \/ using[p] # None /\ \E n \in 0 .. Len(q[using[p]]) : Get(p, n)
    \/ \E x \in Pipe : Drop(x)

Spec == Init /\ [][Next]_vars
=============================================================================
