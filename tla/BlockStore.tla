----------------------------- MODULE BlockStore -----------------------------
(***************************************************************************)
(* What bread, log_write, bwrite and brelse promise the file system: every *)
(* block has one content, at most one process uses a block at a time, and  *)
(* only its user changes it.  A disk error is the exception: the content   *)
(* of a block whose read failed is anything until the block is read again. *)
(***************************************************************************)
CONSTANTS Proc, Block, Value, Zero, NoBlock

VARIABLES
    content,  \* what a block holds
    using,    \* the block a process has locked, if any
    spoilt    \* the blocks whose last read failed

vars == <<content, using, spoilt>>

Init ==
    /\ content = [k \in Block |-> Zero]
    /\ using = [p \in Proc |-> NoBlock]
    /\ spoilt = {}

Take(p, k) ==
    /\ using[p] = NoBlock
    /\ \A q \in Proc : using[q] # k
    /\ using' = [using EXCEPT ![p] = k]
    /\ UNCHANGED <<content, spoilt>>

Write(p, x) ==
    /\ using[p] # NoBlock
    /\ content' = [content EXCEPT ![using[p]] = x]
    /\ UNCHANGED <<using, spoilt>>

Release(p) ==
    /\ using[p] # NoBlock
    /\ using' = [using EXCEPT ![p] = NoBlock]
    /\ UNCHANGED <<content, spoilt>>

(* A read of k fails, or k is forgotten after a failed read.               *)
Spoil(k, x) ==
    /\ spoilt' = spoilt \cup {k} \/ (k \in spoilt /\ spoilt' = spoilt \ {k})
    /\ content' = [content EXCEPT ![k] = x]
    /\ UNCHANGED using

Next ==
    \/ \E p \in Proc : Release(p) \/ \E k \in Block : Take(p, k)
    \/ \E p \in Proc, x \in Value : Write(p, x)
    \/ \E k \in Block, x \in Value : Spoil(k, x)

Spec == Init /\ [][Next]_vars
=============================================================================
