----------------------------- MODULE MCSymParts -----------------------------
(* Components in which processes, blocks or page frames can be permuted,   *)
(* for TLC: the log with crashes, the log with as many blocks as it has    *)
(* entries, and the user memory of programs that call fork, forkcow and    *)
(* sbrk in any order.  The initial state chooses one, and it alone takes   *)
(* steps.                                                                  *)
EXTENDS Log, TLC

CONSTANTS q1, q2, q3, x1, x2, x3, y1, y2, p1, p2, Absent, NoPage

VARIABLES
    part,
    state, sz, pt, tlb, kfault, free, kpages, refcnt, content, stopped

varsM == <<state, sz, pt, tlb, kfault, free, kpages, refcnt, content, stopped>>

Few == {x1, x2, x3}

Memory == INSTANCE CowMemory WITH
    Proc <- {p1, p2}, InitProc <- p1, Frame <- Few, NPages <- 2, TextPages <- {0}, Value <- {Zero}, Junk <- Zero,
    Forks <- {"fork", "forkcow"}, MixForks <- TRUE, ShrinkToZero <- TRUE, panicked <- stopped

MemoryUnused ==
    /\ state = <<>> /\ sz = <<>> /\ pt = <<>> /\ tlb = <<>> /\ kfault = <<>> /\ free = {}
    /\ kpages = {} /\ refcnt = <<>> /\ content = <<>> /\ stopped = "no"

MCInit ==
    /\ part \in {"crash", "space", "memory"}
    /\ Init
    /\ IF part = "memory" THEN Memory!Init ELSE MemoryUnused

(* What is written tells blocks apart in the first part, how many blocks   *)
(* are written is what counts in the second.                               *)
MCNext ==
    \/ part = "crash" /\ Next /\ wrote' \in [Proc -> SUBSET Few] /\ UNCHANGED <<part, varsM>>
    \/ part = "space" /\ Next /\ cache' \in [Block -> {Zero}] /\ UNCHANGED <<part, varsM>>
    \/ part = "memory" /\ Memory!Next /\ UNCHANGED <<part, vars>>

MCSpec == MCInit /\ [][MCNext]_<<part, vars, varsM>>

(* Whatever programs call, no counter is above the number of owners        *)
(* (deallocuvm and freevm, vm.c:276), and a stale translation outlives its *)
(* call only when the process has no page left (growproc, copyuvmcow,      *)
(* pagefault).                                                             *)
AnyProgram == part = "memory" => Memory!NeverOvercounted /\ Memory!StaleOnlyWhenEmpty

Symmetry == Permutations(Proc) \cup Permutations(Few)
=============================================================================
