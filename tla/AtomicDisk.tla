----------------------------- MODULE AtomicDisk -----------------------------
(***************************************************************************)
(* What the log promises the file system: the disk changes from one state  *)
(* in which no call is half done to a later one, all at once, and a crash  *)
(* takes the machine back to the last such state.                          *)
(***************************************************************************)
CONSTANTS Proc, Block, Value, Zero

VARIABLES
    durable,  \* what is found after a crash
    current,  \* what calls read and write
    active    \* the calls in progress

vars == <<durable, current, active>>

Init ==
    /\ durable = [b \in Block |-> Zero]
    /\ current = durable
    /\ active = {}

Begin(p) ==
    /\ p \notin active
    /\ active' = active \cup {p}
    /\ UNCHANGED <<durable, current>>

Write(p, b, x) ==
    /\ p \in active
    /\ current' = [current EXCEPT ![b] = x]
    /\ UNCHANGED <<durable, active>>

End(p) ==
    /\ p \in active
    /\ active' = active \ {p}
    /\ UNCHANGED <<durable, current>>

(* No call is in progress: "there is never any reasoning required about    *)
(* whether a commit might write an uncommitted system call's updates to    *)
(* disk" (log.c:13-15).                                                    *)
Commit ==
    /\ active = {}
    /\ durable' = current
    /\ UNCHANGED <<current, active>>

Crash ==
    /\ current' = durable
    /\ active' = {}
    /\ UNCHANGED durable

Next ==
    \/ \E p \in Proc : Begin(p) \/ End(p) \/ \E b \in Block, x \in Value : Write(p, b, x)
    \/ Commit \/ Crash

Spec == Init /\ [][Next]_vars
=============================================================================
