------------------------------- MODULE CowSmp -------------------------------
(***************************************************************************)
(* The copy-on-write counters instruction by instruction, on NCPU          *)
(* processors.  pg_refcount has no lock: kernel.asm shows each ++ and -- as *)
(* one addb or subb without a lock prefix, so another processor can come   *)
(* between its load and its store, but an interrupt on its own cannot.     *)
(*                                                                         *)
(* A system call enters through a trap gate and can be preempted between   *)
(* any two instructions; the page fault enters through an interrupt gate   *)
(* (trap.c:22-24) and keeps its processor until it returns.                *)
(*                                                                         *)
(* Pages are independent of one another here, so a process has one.        *)
(***************************************************************************)
EXTENDS Integers, FiniteSets

CONSTANTS
    Proc,
    InitProc,  \* the process that has the page at first
    Frame,
    NCPU,      \* processors; the Makefile boots two
    NoFrame

VARIABLES
    pc,       \* where each process is
    oncpu,    \* the processes that have a processor
    pa,       \* the frame its page-table entry names
    w,        \* PTE_W of that entry
    child,    \* the process forkcow is making
    mem,      \* the frame kalloc gave to the page fault
    tmp,      \* the byte loaded by the addb or subb in progress, 0 between
    free,     \* kmem.freelist, under kmem.lock
    refcnt    \* pg_refcount

vars == <<pc, oncpu, pa, w, child, mem, tmp, free, refcnt>>

Owners(f) == {p \in Proc : pa[p] = f}

(* Interrupts are off, or the process is inside one instruction.  (As in   *)
(* CowMemory, a name with a suffix is a slip in the definition after it.)  *)
Uninterruptible_trapgate == {"store_fault", "store_add", "store_sub"}
Uninterruptible == {"own", "copy", "store_fault", "remap", "store_add", "store_sub"}

At(p, l) == p \in oncpu /\ pc[p] = l
Goto(p, l) == pc' = [pc EXCEPT ![p] = l]

-----------------------------------------------------------------------------
(* scheduler() and the timer's yield().                                    *)

dispatch(p) ==
    /\ pc[p] \notin {"unused", "embryo"}
    /\ p \notin oncpu
    /\ Cardinality(oncpu) < NCPU
    /\ oncpu' = oncpu \cup {p}
    /\ UNCHANGED <<pc, pa, w, child, mem, tmp, free, refcnt>>

yield(p) ==
    /\ p \in oncpu
    /\ pc[p] \notin Uninterruptible
    /\ oncpu' = oncpu \ {p}
    /\ UNCHANGED <<pc, pa, w, child, mem, tmp, free, refcnt>>

(* copyuvmcow: PTE_W cleared, the child's entry made, then addb.           *)

copyuvmcow(p, q) ==
    /\ At(p, "user")
    /\ pa[p] # NoFrame
    /\ pc[q] = "unused"
    /\ w' = [w EXCEPT ![p] = FALSE, ![q] = FALSE]
    /\ pa' = [pa EXCEPT ![q] = pa[p]]
    /\ child' = [child EXCEPT ![p] = q]
    /\ pc' = [pc EXCEPT ![p] = "add", ![q] = "embryo"]
    /\ UNCHANGED <<oncpu, mem, tmp, free, refcnt>>

load_add(p) ==
    /\ At(p, "add")
    /\ tmp' = [tmp EXCEPT ![p] = refcnt[pa[p]]]
    /\ Goto(p, "store_add")
    /\ UNCHANGED <<oncpu, pa, w, child, mem, free, refcnt>>

(* The counter is stored; forkcow makes the child runnable.                *)
store_add(p) ==
    /\ At(p, "store_add")
    /\ refcnt' = [refcnt EXCEPT ![pa[p]] = tmp[p] + 1]
    /\ tmp' = [tmp EXCEPT ![p] = 0]
    /\ child' = [child EXCEPT ![p] = p]
    /\ pc' = [pc EXCEPT ![p] = "user", ![child[p]] = "user"]
    /\ UNCHANGED <<oncpu, pa, w, mem, free>>

(* deallocuvm, for growproc or exec.  A page that is still there at exit   *)
(* is released by the parent in wait(), with the same instructions; here p *)
(* runs them itself.                                                       *)
load_sub(p) ==
    /\ At(p, "user")
    /\ pa[p] # NoFrame
    /\ tmp' = [tmp EXCEPT ![p] = refcnt[pa[p]]]
    /\ Goto(p, "store_sub")
    /\ UNCHANGED <<oncpu, pa, w, child, mem, free, refcnt>>


store_sub(p) ==
    /\ At(p, "store_sub")
    /\ refcnt' = [refcnt EXCEPT ![pa[p]] = tmp[p] - 1]
    /\ tmp' = [tmp EXCEPT ![p] = 0]
    /\ Goto(p, IF tmp[p] = 1 THEN "kfree" ELSE "unmap")
    /\ UNCHANGED <<oncpu, pa, w, child, mem, free>>

kfree(p) ==
    /\ At(p, "kfree")
    /\ free' = free \cup {pa[p]}
    /\ Goto(p, "unmap")
    /\ UNCHANGED <<oncpu, pa, w, child, mem, tmp, refcnt>>

unmap(p) ==
    /\ At(p, "unmap")
    /\ pa' = [pa EXCEPT ![p] = NoFrame]
    /\ w' = [w EXCEPT ![p] = FALSE]
    /\ Goto(p, "user")
    /\ UNCHANGED <<oncpu, child, mem, tmp, free, refcnt>>

(* allocuvm: a new page, whose counter nobody else can reach.              *)
allocuvm(p) ==
    /\ At(p, "user")
    /\ pa[p] = NoFrame
    /\ \E f \in free :
       /\ free' = free \ {f}
       /\ pa' = [pa EXCEPT ![p] = f]
       /\ refcnt' = [refcnt EXCEPT ![f] = @ + 1]
    /\ w' = [w EXCEPT ![p] = TRUE]
    /\ UNCHANGED <<pc, oncpu, child, mem, tmp>>

(* exit() and wait() by a process whose page is gone.                      *)
exit(p) ==
    /\ At(p, "user")
    /\ p # InitProc
    /\ pa[p] = NoFrame
    /\ Goto(p, "unused")
    /\ oncpu' = oncpu \ {p}
    /\ UNCHANGED <<pa, w, child, mem, tmp, free, refcnt>>

-----------------------------------------------------------------------------
(* pagefault: cmpb, and the branch on what it read.  The panic and the two *)
(* kills are CowMemory's matter; here they do not move.                    *)
pagefault(p) ==
    /\ At(p, "user")
    /\ pa[p] # NoFrame /\ ~w[p]
    /\ \/ /\ refcnt[pa[p]] = 1
          /\ Goto(p, "own")
          /\ UNCHANGED <<mem, free>>
       \/ /\ refcnt[pa[p]] > 1
          /\ \E f \in free :
             /\ free' = free \ {f}
             /\ mem' = [mem EXCEPT ![p] = f]
          /\ Goto(p, "copy")
    /\ UNCHANGED <<oncpu, pa, w, child, tmp, refcnt>>

own(p) ==
    /\ At(p, "own")
    /\ w' = [w EXCEPT ![p] = TRUE]
    /\ Goto(p, "user")
    /\ UNCHANGED <<oncpu, pa, child, mem, tmp, free, refcnt>>

(* memmove, and the load of subb.                                          *)
copy(p) ==
    /\ At(p, "copy")
    /\ tmp' = [tmp EXCEPT ![p] = refcnt[pa[p]]]
    /\ Goto(p, "store_fault")
    /\ UNCHANGED <<oncpu, pa, w, child, mem, free, refcnt>>

store_fault(p) ==
    /\ At(p, "store_fault")
    /\ refcnt' = [refcnt EXCEPT ![pa[p]] = tmp[p] - 1]
    /\ tmp' = [tmp EXCEPT ![p] = 0]
    /\ Goto(p, "remap")
    /\ UNCHANGED <<oncpu, pa, w, child, mem, free>>

remap(p) ==
    /\ At(p, "remap")
    /\ refcnt' = [refcnt EXCEPT ![mem[p]] = @ + 1]
    /\ pa' = [pa EXCEPT ![p] = mem[p]]
    /\ w' = [w EXCEPT ![p] = TRUE]
    /\ mem' = [mem EXCEPT ![p] = NoFrame]
    /\ Goto(p, "user")
    /\ UNCHANGED <<oncpu, child, tmp, free>>

-----------------------------------------------------------------------------
Init ==
    \E f \in Frame :
    /\ pc = [p \in Proc |-> IF p = InitProc THEN "user" ELSE "unused"]
    /\ oncpu = {}
    /\ pa = [p \in Proc |-> IF p = InitProc THEN f ELSE NoFrame]
    /\ w = [p \in Proc |-> p = InitProc]
    /\ child = [p \in Proc |-> p]
    /\ mem = [p \in Proc |-> NoFrame]
    /\ tmp = [p \in Proc |-> 0]
    /\ free = Frame \ {f}
    /\ refcnt = [g \in Frame |-> IF g = f THEN 1 ELSE 0]

Next ==
    \E p \in Proc :
    \/ dispatch(p) \/ yield(p)
    \/ \E q \in Proc : copyuvmcow(p, q)
    \/ load_add(p) \/ store_add(p)
    \/ load_sub(p) \/ store_sub(p) \/ kfree(p) \/ unmap(p)
    \/ allocuvm(p) \/ exit(p)
    \/ pagefault(p) \/ own(p) \/ copy(p) \/ store_fault(p) \/ remap(p)

Spec == Init /\ [][Next]_vars

-----------------------------------------------------------------------------
(* The types of the counters and of the places a process can be at.        *)
TypeOK ==
    /\ pc \in [Proc -> {"unused", "embryo", "user", "add", "store_add", "store_sub", "kfree",
                        "unmap", "own", "copy", "store_fault", "remap"}]
    /\ oncpu \in SUBSET Proc /\ Cardinality(oncpu) <= NCPU
    /\ pa \in [Proc -> Frame \cup {NoFrame}]
    /\ w \in [Proc -> BOOLEAN]
    /\ child \in [Proc -> Proc]
    /\ mem \in [Proc -> Frame \cup {NoFrame}]
    /\ tmp \in [Proc -> Int]
    /\ free \subseteq Frame
    /\ refcnt \in [Frame -> Int]

(* p can reach f through its page table.  At "unmap" and "remap" p has     *)
(* given its reference up and the next thing it does to the entry is to    *)
(* overwrite it.                                                           *)
Uses(p, f) == pa[p] = f /\ pc[p] \notin {"unmap", "remap"}

(* "There is no shared writable memory" (syscall.c:74), whatever two       *)
(* processes do to the counter of the page they share.                     *)
NoSharedWritable ==
    \A p, q \in Proc : \A f \in Frame : Uses(p, f) /\ Uses(q, f) /\ w[p] => p = q

(* No page is on the free list while a process can reach it, and none is   *)
(* there that the page fault just took.                                    *)
FreeUnused == \A p \in Proc : \A f \in free : ~Uses(p, f) /\ mem[p] # f

Quiet == \A p \in Proc : pc[p] \in {"unused", "user"}

(* When nobody is inside the kernel the counters are the numbers of page   *)
(* tables that name the page, and a page nobody names is free: what        *)
(* deallocuvm and freevm rely on (vm.c:286).                               *)
CountedWhenQuiet ==
    Quiet => \A f \in Frame :
        /\ refcnt[f] = Cardinality(Owners(f))
        /\ Owners(f) = {} => f \in free
=============================================================================
