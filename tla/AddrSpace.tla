----------------------------- MODULE AddrSpace -----------------------------
(***************************************************************************)
(* What user memory promises: every process has pages of its own.  A store *)
(* changes one page of one process, a fork duplicates a whole address      *)
(* space, and no other step of any process is seen by another.             *)
(***************************************************************************)
EXTENDS Integers

CONSTANTS
    Proc,
    NPages,
    TextPages,
    Value,
    Zero,
    NoValue    \* what a page that is not mapped holds

VARIABLE mem   \* mem[p][v]: what page v of process p holds

Page == 0 .. NPages - 1
Empty == [v \in Page |-> NoValue]

Init ==
    \E p \in Proc :
        mem = [q \in Proc |-> [v \in Page |-> IF q = p /\ v = 0 THEN Zero ELSE NoValue]]

Store(p, v, x) ==
    /\ mem[p][v] # NoValue
    /\ mem' = [mem EXCEPT ![p][v] = x]

(* The child q starts with a copy of its parent's pages.                   *)
Fork(p, q) ==
    /\ mem[q] = Empty
    /\ mem' = [mem EXCEPT ![q] = mem[p]]

(* Pages from..to-1 are added, and read as zero.                           *)
Grow(p, from, to) ==
    /\ \A v \in Page : v >= from /\ v < to => mem[p][v] = NoValue
    /\ mem' = [mem EXCEPT ![p] = [v \in Page |-> IF v >= from /\ v < to THEN Zero ELSE @[v]]]

Shrink(p, n) ==
    mem' = [mem EXCEPT ![p] = [v \in Page |-> IF v >= n THEN NoValue ELSE @[v]]]

(* Program of t pages, a guard page, the stack.                            *)
Exec(p, t, x) ==
    mem' = [mem EXCEPT ![p] = [v \in Page |->
               IF v >= t + 2 THEN NoValue ELSE IF v = t THEN Zero ELSE x]]

Next ==
    \E p \in Proc :
    \/ \E v \in Page, x \in Value : Store(p, v, x)
    \/ \E q \in Proc : Fork(p, q)
    \/ \E from, to \in 0 .. NPages : Grow(p, from, to)
    \/ \E n \in 0 .. NPages : Shrink(p, n)
    \/ \E t \in TextPages, x \in Value : Exec(p, t, x)

Spec == Init /\ [][Next]_mem
=============================================================================
