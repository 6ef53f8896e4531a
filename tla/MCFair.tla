------------------------------- MODULE MCFair -------------------------------
(* What must happen in the end to a process, for TLC: Procs, and, in       *)
(* variables of its own, CowMemory with programs that only use forkcow.    *)
(* The initial state chooses one; the other has stopped in a panic, where  *)
(* none of its steps is enabled and its fairness asks for nothing.         *)
EXTENDS Procs

CONSTANTS p1, p2, p3, c1, c2, f1, f2, Absent, NoPage

VARIABLES mstate, sz, pt, tlb, kfault, free, kpages, refcnt, content, stopped

varsM == <<mstate, sz, pt, tlb, kfault, free, kpages, refcnt, content, stopped>>

Memory == INSTANCE CowMemory WITH
    Frame <- {f1, f2}, NPages <- 2, TextPages <- {}, Value <- {"zero"}, Zero <- "zero", Junk <- "zero",
    Forks <- {"forkcow"}, MixForks <- FALSE, ShrinkToZero <- FALSE,
    state <- mstate, panicked <- stopped

(* Memory!Init, stopped.                                                   *)
MemoryStopped ==
    /\ mstate = [p \in Proc |-> "UNUSED"] /\ sz = [p \in Proc |-> 0]
    /\ pt = [p \in Proc |-> Memory!NoPages] /\ tlb = pt /\ kfault = [p \in Proc |-> NoPage]
    /\ free = {f1, f2} /\ kpages = {} /\ refcnt = [f \in free |-> 0]
    /\ content = [f \in free |-> "zero"] /\ stopped = "init exiting"

ProcsStopped ==
    /\ state = [p \in Proc |-> "UNUSED"] /\ pid = [p \in Proc |-> "0"]
    /\ parent = [p \in Proc |-> None] /\ chan = parent /\ child = parent
    /\ killed = [p \in Proc |-> FALSE] /\ running = [c \in CPU |-> None]
    /\ pc = [p \in Proc |-> "user"] /\ left = [p \in Proc |-> 0] /\ tickslock = None
    /\ panicked = "init exiting"

MCInit ==
    \/ Init /\ MemoryStopped
    \/ Memory!Init /\ ProcsStopped

MCNext ==
    \/ Next /\ UNCHANGED varsM
    \/ Memory!Next /\ UNCHANGED vars

MCSpec == MCInit /\ [][MCNext]_<<vars, varsM>> /\ Fairness /\ Memory!Fairness

(* With forkcow alone every frame's counter is the number of page tables   *)
(* that name it (copyuvmcow, deallocuvm, pagefault), and every frame is    *)
(* free, the kernel's or mapped (freevm, vm.c:286).                        *)
Exact == Memory!Exact /\ Memory!NoLeak

(* A process that faults in the kernel leaves it once frames stay          *)
(* available (trap.c:102, vm.c:462-479).                                   *)
FaultServed == Memory!FaultServed
=============================================================================
