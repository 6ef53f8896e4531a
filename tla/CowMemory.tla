----------------------------- MODULE CowMemory -----------------------------
(***************************************************************************)
(* User memory of the kernel: the frame allocator (kalloc.c), the page     *)
(* tables and the copy-on-write machinery (vm.c), and the system calls     *)
(* that change an address space (fork, forkcow, growproc, exit and wait in *)
(* proc.c, exec in exec.c, the page-fault arm of trap.c).                  *)
(*                                                                         *)
(* One step is one whole system call, fault or store.  CowSmp splits the   *)
(* counter updates into instructions and asks what two CPUs do to them.    *)
(*                                                                         *)
(* Sizes are counted in pages and a page holds one value.  Kernel stacks,  *)
(* page directories, page tables and pipe buffers come from the same       *)
(* allocator: the kernel takes and gives back such frames at any time, so  *)
(* kalloc can run dry at any point of any call.  PTE_COW is written by the *)
(* code and never read, so it is left out.                                 *)
(***************************************************************************)
EXTENDS Integers, FiniteSets

CONSTANTS
    Proc,        \* the slots of ptable.proc
    InitProc,    \* initproc
    Frame,       \* physical page frames managed by kalloc
    NPages,      \* bound: the largest address space, in pages
    TextPages,   \* the program sizes exec may load, in pages
    Value,       \* what a page may hold
    Zero,        \* the page allocuvm hands out, memset to 0
    Junk,        \* the page kfree leaves behind, memset to 1
    Absent,      \* a page-table entry without PTE_P
    NoPage,      \* no address: p is not stuck in a kernel-mode fault
    Forks,       \* the calls user programs make: "fork", "forkcow" or both
    MixForks,    \* may a program use both in one lineage? (see Unmixed)
    ShrinkToZero \* may a program call sbrk with minus its whole size?

Page == 0 .. NPages - 1
PTE == [pa : Frame, w : BOOLEAN, u : BOOLEAN]

(* NPROC is 64 (param.h:1).  The counters below are signed chars, and the  *)
(* bound is what keeps them from overflowing.                              *)
ASSUME ProcAssumption ==
    /\ InitProc \in Proc
    /\ IsFiniteSet(Proc)
    /\ Cardinality(Proc) <= 64
ASSUME FrameAssumption == Absent \notin PTE
ASSUME PageAssumption ==
    /\ NPages \in Nat \ {0}
    /\ NoPage \notin Page
    /\ TextPages \subseteq Nat
ASSUME ValueAssumption == Zero \in Value /\ Junk \in Value /\ Absent \notin Value
ASSUME CallAssumption ==
    /\ Forks \subseteq {"fork", "forkcow"}
    /\ MixForks \in BOOLEAN
    /\ ShrinkToZero \in BOOLEAN

VARIABLES
    state,    \* p->state; every state a live process can have is "LIVE"
    sz,       \* p->sz, in pages
    pt,       \* the user half of p->pgdir
    tlb,      \* translations p's CPU may still cache although pt moved on
    kfault,   \* page p's kernel code faults on again and again, killed set
    free,     \* kmem.freelist
    kpages,   \* frames in use by the kernel itself
    refcnt,   \* pg_refcount
    content,  \* what each frame holds
    panicked  \* the kernel called panic()

vars == <<state, sz, pt, tlb, kfault, free, kpages, refcnt, content, panicked>>

-----------------------------------------------------------------------------
(* The pieces the operations are made of.                                  *)

(* Names that end in an underscore and a word state what a slip in the     *)
(* definition after them would do; nothing else refers to them.            *)


(* pg_refcount is an array of char: arithmetic wraps at 8 bits, signed.    *)
Char(n) == ((n + 128) % 256) - 128

Mapped(p) == {v \in Page : pt[p][v] # Absent}
FramesOf(p, V) == {pt[p][v].pa : v \in V \cap Mapped(p)}
Owners(f) == {p \in Proc : f \in FramesOf(p, Page)}

NoPages == [v \in Page |-> Absent]
NewPage(f) == [pa |-> f, w |-> TRUE, u |-> TRUE]
Protect(e, w) == [pa |-> e.pa, w |-> w, u |-> e.u]

(* The ways kalloc can hand out k frames, page by page.                    *)
kalloc(k) ==
    {g \in [0 .. k - 1 -> free] : \A i, j \in 0 .. k - 1 : g[i] = g[j] => i = j}

Taken(g) == {g[i] : i \in DOMAIN g}

Incremented_set(rc, S) == [f \in Frame |-> IF f \in S THEN 1 ELSE rc[f]]
Incremented(rc, S) == [f \in Frame |-> IF f \in S THEN Char(rc[f] + 1) ELSE rc[f]]
Decremented(rc, S) == [f \in Frame |-> IF f \in S THEN Char(rc[f] - 1) ELSE rc[f]]

(* deallocuvm over the frames S: each loses one reference, and the ones    *)
(* whose counter is now 0 go back to the allocator.                        *)
Released_always(rc, S) == S
Released_never(rc, S) == {}
Released(rc, S) == {f \in S : Char(rc[f] - 1) = 0}
Freed(c, S) == [f \in Frame |-> IF f \in S THEN Junk ELSE c[f]]

(* The translations the MMU may use for page v of p.                       *)
Trans(p, v) == {pt[p][v], tlb[p][v]} \ {Absent}

(* lcr3, or p leaves its CPU and with it the CPU's translations.  Without  *)
(* it the CPU may keep the entries p had.                                  *)
flush_not(p) == tlb' = [tlb EXCEPT ![p] = pt[p]]
flush(p) == tlb' = [tlb EXCEPT ![p] = NoPages]

(* p is not caught in the kernel; it executes instructions if there is a   *)
(* page to fetch them from.                                                *)
Live(p) == panicked = "no" /\ state[p] = "LIVE" /\ kfault[p] = NoPage
Running(p) ==
    /\ Live(p)
    /\ \E v \in Page : \E t \in Trans(p, v) : t.u

Panic(why) ==
    /\ panicked' = why
    /\ UNCHANGED <<state, sz, pt, tlb, kfault, free, kpages, refcnt, content>>

(* kalloc and kfree for the kernel's own pages.                            *)
kernel_kalloc(f) ==
    /\ panicked = "no"
    /\ f \in free
    /\ free' = free \ {f}
    /\ kpages' = kpages \cup {f}
    /\ UNCHANGED <<state, sz, pt, tlb, kfault, refcnt, content, panicked>>

kernel_kfree(f) ==
    /\ panicked = "no"
    /\ f \in kpages
    /\ free' = free \cup {f}
    /\ kpages' = kpages \ {f}
    /\ UNCHANGED <<state, sz, pt, tlb, kfault, refcnt, content, panicked>>

-----------------------------------------------------------------------------
(* exit(): the memory stays with the zombie until wait().  p leaves its    *)
(* CPU, which forgets p's translations.                                    *)
exit(p) ==
    \/ /\ p = InitProc
       /\ Panic("init exiting")
    \/ /\ p # InitProc
       /\ state' = [state EXCEPT ![p] = "ZOMBIE"]
       /\ flush(p)
       /\ UNCHANGED <<sz, pt, kfault, free, refcnt, content, panicked, kpages>>

(* wait() by whoever is the parent of the zombie p: freevm(p->pgdir).  The *)
(* slot's sz is dead until fork assigns it; 0 stands for what it holds.    *)
wait(p) ==
    /\ panicked = "no"
    /\ state[p] = "ZOMBIE"
    /\ LET S == FramesOf(p, Page) IN
       /\ refcnt' = Decremented(refcnt, S)
       /\ free' = free \cup Released(refcnt, S)
       /\ content' = Freed(content, Released(refcnt, S))
    /\ pt' = [pt EXCEPT ![p] = NoPages]
    /\ sz' = [sz EXCEPT ![p] = 0]
    /\ state' = [state EXCEPT ![p] = "UNUSED"]
    /\ UNCHANGED <<tlb, kfault, panicked, kpages>>

(* sbrk(n), n > 0: growproc, allocuvm.  Running out of frames undoes what  *)
(* was allocated and changes nothing.                                      *)
grow(p, n) ==
    /\ Running(p)
    /\ n > sz[p] /\ n <= NPages
    /\ \E g \in kalloc(n - sz[p]) :
       /\ pt' = [pt EXCEPT ![p] = [v \in Page |->
                   IF v >= sz[p] /\ v < n THEN NewPage(g[v - sz[p]]) ELSE pt[p][v]]]
       /\ refcnt' = Incremented(refcnt, Taken(g))
       /\ free' = free \ Taken(g)
       /\ content' = [f \in Frame |-> IF f \in Taken(g) THEN Zero ELSE content[f]]
    /\ sz' = [sz EXCEPT ![p] = n]
    /\ flush(p)
    /\ UNCHANGED <<state, kfault, panicked, kpages>>

(* sbrk(n), n < 0: growproc, deallocuvm.  A new size of 0 is taken for an  *)
(* error: growproc returns before it stores sz and before switchuvm        *)
(* flushes the TLB, with the pages already gone.                           *)
Dropped(p, n) == n .. sz[p] - 1

shrink(p, n) ==
    /\ Running(p)
    /\ n < sz[p]
    /\ n > 0 \/ ShrinkToZero
    /\ LET S == FramesOf(p, Dropped(p, n)) IN
       /\ refcnt' = Decremented(refcnt, S)
       /\ free' = free \cup Released(refcnt, S)
       /\ content' = Freed(content, Released(refcnt, S))
    /\ pt' = [pt EXCEPT ![p] = [v \in Page |-> IF v \in Dropped(p, n) THEN Absent ELSE pt[p][v]]]
    /\ sz' = IF n > 0 THEN [sz EXCEPT ![p] = n] ELSE sz
    /\ IF n > 0 THEN flush(p) ELSE tlb' = [tlb EXCEPT ![p] = pt[p]]
    /\ UNCHANGED <<state, kfault, panicked, kpages>>

-----------------------------------------------------------------------------
(* The programs the invariants are claimed for: no process that owns a     *)
(* page made by copyuvm (counter 0) calls forkcow, and none that owns a    *)
(* read-only page calls fork.  It is a restriction of the programs, not of *)
(* the kernel; MixForks lifts it.                                          *)
Unmixed(p, call) ==
    \/ MixForks
    \/ call = "fork" /\ \A v \in Mapped(p) : pt[p][v].w
    \/ call = "forkcow" /\ \A f \in FramesOf(p, Page) : refcnt[f] > 0

(* fork() and forkcow() start alike: a slot, and a panic when a page below *)
(* sz is not there.                                                        *)
forks(p, call) ==
    /\ Running(p)
    /\ call \in Forks
    /\ Unmixed(p, call)

NotPresent(p) == \E v \in Page : v < sz[p] /\ pt[p][v] = Absent

(* copyuvm: the pages below k of p copied into the frames g.  No counter   *)
(* is touched.                                                             *)
Copied_not(p, g) == content
Copied(p, g) ==
    [f \in Frame |->
        IF f \in Taken(g)
        THEN content[pt[p][CHOOSE v \in DOMAIN g : g[v] = f].pa] ELSE content[f]]

fork(p, q) ==
    /\ forks(p, "fork")
    /\ state[q] = "UNUSED"
    /\ ~NotPresent(p)
    /\ \E g \in kalloc(sz[p]) :
       /\ pt' = [pt EXCEPT ![q] = [v \in Page |->
                   IF v < sz[p] THEN [pa |-> g[v], w |-> pt[p][v].w, u |-> pt[p][v].u] ELSE Absent]]
       /\ content' = Copied(p, g)
       /\ free' = free \ Taken(g)
    /\ sz' = [sz EXCEPT ![q] = sz[p]]
    /\ state' = [state EXCEPT ![q] = "LIVE"]
    /\ UNCHANGED <<tlb, kfault, refcnt, panicked, kpages>>

(* copyuvm panics, or gives up at page k because kalloc has run dry: it    *)
(* had no frame for the copy, or gave its last one and had none for the    *)
(* page table, and that last frame is dropped.  freevm(d) then brings the  *)
(* counters of the k copies to -1 and frees none of them.                  *)
fork_bad(p) ==
    /\ forks(p, "fork")
    /\ \E q \in Proc : state[q] = "UNUSED"
    /\ IF NotPresent(p) THEN Panic("page not present")
       ELSE /\ \E k \in 0 .. sz[p] - 1 : \E g \in kalloc(k) :
                /\ Cardinality(free \ Taken(g)) <= 1
                /\ content' = Copied(p, g)
                /\ free' = {}
                /\ refcnt' = Decremented(refcnt, Taken(g))
            /\ UNCHANGED <<state, sz, pt, tlb, kfault, panicked, kpages>>

(* copyuvmcow: parent and child share every page, read-only.               *)
ReadOnly_not(p, k) == pt[p]
ReadOnly(p, k) ==
    [v \in Page |-> IF v < k /\ v \in Mapped(p) THEN Protect(pt[p][v], FALSE) ELSE pt[p][v]]

forkcow(p, q) ==
    /\ forks(p, "forkcow")
    /\ state[q] = "UNUSED"
    /\ ~NotPresent(p)
    /\ pt' = [pt EXCEPT ![p] = ReadOnly(p, sz[p]), ![q] = ReadOnly(p, sz[p])]
    /\ refcnt' = Incremented(refcnt, FramesOf(p, Page))
    /\ sz' = [sz EXCEPT ![q] = sz[p]]
    /\ state' = [state EXCEPT ![q] = "LIVE"]
    /\ flush(p)
    /\ UNCHANGED <<kfault, free, content, panicked, kpages>>

(* copyuvmcow panics, or mappages has no frame for a page table at page k, *)
(* already read-only in the parent.  freevm(d) takes back the k            *)
(* references.                                                             *)
forkcow_bad(p) ==
    /\ forks(p, "forkcow")
    /\ \E q \in Proc : state[q] = "UNUSED"
    /\ IF NotPresent(p) THEN Panic("page not present")
       ELSE /\ free = {}
            /\ \E k \in 0 .. sz[p] - 1 :
                LET S == FramesOf(p, 0 .. k - 1)
                    rc == Incremented(refcnt, S) IN
                /\ pt' = [pt EXCEPT ![p] = ReadOnly(p, k + 1)]
                /\ refcnt' = Decremented(rc, S)
            /\ flush(p)
            /\ UNCHANGED <<state, sz, kfault, free, content, panicked, kpages>>

(* exec(): t pages of program, an inaccessible page and the stack; the old *)
(* address space is freed last.  Every failure frees the new one instead   *)
(* and changes nothing.                                                    *)
exec(p, t, x) ==
    /\ Running(p)
    /\ t + 2 <= NPages
    /\ \E g \in kalloc(t + 2) :
       LET S == FramesOf(p, Page)
           new == Taken(g)
           rc == Incremented(refcnt, new) IN
       /\ pt' = [pt EXCEPT ![p] = [v \in Page |->
                   IF v < t + 2 THEN [pa |-> g[v], w |-> TRUE, u |-> v # t] ELSE Absent]]
       /\ refcnt' = Decremented(rc, S)
       /\ free' = (free \ new) \cup Released(rc, S)
       /\ content' = [f \in Frame |->
                        IF f \in new THEN (IF f = g[t] THEN Zero ELSE x)
                        ELSE Freed(content, Released(rc, S))[f]]
    /\ sz' = [sz EXCEPT ![p] = t + 2]
    /\ flush(p)
    /\ UNCHANGED <<state, kfault, panicked, kpages>>

-----------------------------------------------------------------------------
(* A store that the MMU lets through, through the page table or through a  *)
(* translation still cached.  Kernel mode (a system call that fills a      *)
(* user buffer below sz) ignores PTE_U; CR0_WP makes it obey PTE_W.        *)
store(p, v, x) ==
    /\ Running(p)
    /\ \E t \in Trans(p, v) :
       /\ t.w
       /\ t.u \/ v < sz[p]
       /\ content' = [content EXCEPT ![t.pa] = x]
    /\ UNCHANGED <<state, sz, pt, tlb, kfault, free, refcnt, panicked, kpages>>

(* What the MMU refuses: pagefault(), and the end of trap().               *)
Faults(p, v) ==
    \/ pt[p][v] = Absent
    \/ \E t \in Trans(p, v) : ~t.w \/ ~t.u

Legal(p, v) == pt[p][v] # Absent /\ pt[p][v].u
Writable(p, v) == pt[p][v] # Absent /\ pt[p][v].w

(* The only owner gets the page back writable, in place.                   *)
pagefault_own_kept(p, v) ==
    Legal(p, v) /\ ~Writable(p, v) /\ refcnt[pt[p][v].pa] = 1 /\ flush(p)
    /\ UNCHANGED <<pt, free, refcnt, content>>
pagefault_own(p, v) ==
    /\ Legal(p, v) /\ ~Writable(p, v)
    /\ refcnt[pt[p][v].pa] = 1
    /\ pt' = [pt EXCEPT ![p][v] = Protect(pt[p][v], TRUE)]
    /\ flush(p)
    /\ UNCHANGED <<free, refcnt, content>>

(* Any other owner gets a copy.                                            *)
pagefault_copy(p, v) ==
    /\ Legal(p, v) /\ ~Writable(p, v)
    /\ refcnt[pt[p][v].pa] > 1
    /\ LET old == pt[p][v].pa IN
       \E mem \in free :
       /\ content' = [content EXCEPT ![mem] = content[old]]
       /\ refcnt' = Incremented(Decremented(refcnt, {old}), {mem})
       /\ free' = free \ {mem}
       /\ pt' = [pt EXCEPT ![p][v] = NewPage(mem)]
    /\ flush(p)

(* Illegal access, or no frame for the copy: killed is set.                *)
pagefault_kills(p, v) ==
    \/ ~Legal(p, v)
    \/ /\ Legal(p, v) /\ ~Writable(p, v)
       /\ refcnt[pt[p][v].pa] > 1 /\ free = {}

pagefault_panics(p, v) ==
    /\ Legal(p, v)
    /\ Writable(p, v) \/ refcnt[pt[p][v].pa] < 1
    /\ Panic(IF Writable(p, v) THEN "pagefault writeable" ELSE "pagefault wrong refcount")

pagefault(p, v) ==
    /\ Live(p)
    /\ Faults(p, v)
    /\ \/ /\ pagefault_own(p, v) \/ pagefault_copy(p, v)
          /\ UNCHANGED <<state, sz, kfault, panicked, kpages>>
       \/ pagefault_panics(p, v)
       \/ pagefault_kills(p, v) /\ exit(p)

(* In kernel mode trap() does not exit: it returns to the instruction that *)
(* faulted, which faults again.  argptr has checked v < sz.                *)
pagefault_kernel(p, v) ==
    /\ Running(p)
    /\ v < sz[p]
    /\ ~Writable(p, v)
    /\ pagefault_kills(p, v)
    /\ kfault' = [kfault EXCEPT ![p] = v]
    /\ UNCHANGED <<state, sz, pt, tlb, free, refcnt, content, panicked, kpages>>

(* The fault taken once more.  It may find a frame at last.                *)
refault(p) ==
    /\ panicked = "no"
    /\ state[p] = "LIVE"
    /\ kfault[p] # NoPage
    /\ LET v == kfault[p] IN
       /\ ~Writable(p, v)
       /\ \/ /\ pagefault_own(p, v) \/ pagefault_copy(p, v)
             /\ UNCHANGED <<state, sz, kfault, panicked, kpages>>
          \/ pagefault_panics(p, v)
          \/ pagefault_kills(p, v) /\ UNCHANGED vars

(* The store goes through, the system call returns, and trap() finds       *)
(* killed set: exit.                                                       *)
syscall_return(p, x) ==
    /\ panicked = "no"
    /\ state[p] = "LIVE"
    /\ kfault[p] # NoPage
    /\ Writable(p, kfault[p])
    /\ content' = [content EXCEPT ![pt[p][kfault[p]].pa] = x]
    /\ kfault' = [kfault EXCEPT ![p] = NoPage]
    /\ state' = [state EXCEPT ![p] = IF p = InitProc THEN @ ELSE "ZOMBIE"]
    /\ panicked' = IF p = InitProc THEN "init exiting" ELSE "no"
    /\ flush(p)
    /\ UNCHANGED <<sz, pt, free, kpages, refcnt>>

(* p leaves its CPU and comes back: switchuvm loads cr3.                   *)
switchuvm(p) ==
    /\ panicked = "no"
    /\ flush(p)
    /\ UNCHANGED <<state, sz, pt, kfault, free, refcnt, content, panicked, kpages>>

(* panic() spins for ever.                                                 *)
frozen == panicked # "no" /\ UNCHANGED vars

-----------------------------------------------------------------------------
(* After userinit: one page for initcode, every other frame is free.       *)
Init ==
    \E f \in Frame :
    /\ state = [p \in Proc |-> IF p = InitProc THEN "LIVE" ELSE "UNUSED"]
    /\ sz = [p \in Proc |-> IF p = InitProc THEN 1 ELSE 0]
    /\ pt = [p \in Proc |-> [v \in Page |->
                IF p = InitProc /\ v = 0 THEN NewPage(f) ELSE Absent]]
    /\ tlb = [p \in Proc |-> NoPages]
    /\ kfault = [p \in Proc |-> NoPage]
    /\ free = Frame \ {f}
    /\ kpages = {}
    /\ refcnt = [g \in Frame |-> IF g = f THEN 1 ELSE 0]
    /\ content = [g \in Frame |-> IF g = f THEN Zero ELSE Junk]
    /\ panicked = "no"

Next ==
    \/ \E p \in Proc :
       \/ Running(p) /\ exit(p)
       \/ wait(p)
       \/ fork_bad(p) \/ forkcow_bad(p)
       \/ refault(p) \/ switchuvm(p)
       \/ \E q \in Proc : fork(p, q) \/ forkcow(p, q)
       \/ \E n \in 0 .. NPages : grow(p, n) \/ shrink(p, n)
       \/ \E t \in TextPages, x \in Value : exec(p, t, x)
       \/ \E v \in Page : pagefault(p, v) \/ pagefault_kernel(p, v)
       \/ \E v \in Page, x \in Value : store(p, v, x)
       \/ \E x \in Value : syscall_return(p, x)
    \/ \E f \in Frame : kernel_kalloc(f) \/ kernel_kfree(f)
    \/ frozen

Spec == Init /\ [][Next]_vars

(* No fairness of the calls programs make.  A process that spins on a      *)
(* fault is runnable, and the scheduler comes back to it for ever.         *)
Fairness ==
    \A p \in Proc :
        /\ WF_vars(refault(p))
        /\ WF_vars(\E x \in Value : syscall_return(p, x))

FairSpec == Spec /\ Fairness

-----------------------------------------------------------------------------
(* Every variable has the type its declaration in proc.h, kalloc.c or vm.c *)
(* gives it; counters are signed chars.                                    *)
TypeOK ==
    /\ state \in [Proc -> {"UNUSED", "LIVE", "ZOMBIE"}]
    /\ sz \in [Proc -> 0 .. NPages]
    /\ pt \in [Proc -> [Page -> PTE \cup {Absent}]]
    /\ tlb \in [Proc -> [Page -> PTE \cup {Absent}]]
    /\ kfault \in [Proc -> Page \cup {NoPage}]
    /\ free \subseteq Frame
    /\ kpages \subseteq Frame \ free
    /\ refcnt \in [Frame -> -128 .. 127]
    /\ content \in [Frame -> Value]
    /\ panicked \in {"no", "init exiting", "page not present",
                    "pagefault writeable", "pagefault wrong refcount"}

(* "There is no shared writable memory" (syscall.c:74), the assumption     *)
(* under which the kernel reads user strings in place: a page that one     *)
(* process can write through is not in another's page table.               *)
NoSharedWritable ==
    \A p, q \in Proc : \A v, u \in Page : \A t \in Trans(p, v) :
        (t.w /\ pt[q][u] # Absent /\ pt[q][u].pa = t.pa) => p = q /\ v = u

(* kfree is never called on a page somebody still maps: what the counter   *)
(* in deallocuvm is there for.  What kalloc hands out is nobody's.         *)
FreeUnmapped == \A f \in free \cup kpages : Owners(f) = {} /\ refcnt[f] = 0

(* The panics of vm.c are unreachable: pagefault finds a counter of at     *)
(* least 1, and copyuvm and copyuvmcow find every page below sz.           *)
NoVmPanic == panicked \in {"no", "init exiting"}

(* p->sz is the "Size of process memory" (proc.h:39), which fork, num_pages *)
(* and the argument checks of syscall.c rely on: exactly the pages below   *)
(* it are mapped.                                                          *)
SizeOK == \A p \in Proc : Mapped(p) = {v \in Page : v < sz[p]}

(* freevm frees "all the physical memory pages in the user part"           *)
(* (vm.c:286): a frame neither a process nor the kernel uses is on the     *)
(* free list.                                                              *)
NoLeak == \A f \in Frame : f \in free \cup kpages \/ Owners(f) # {}

(* With forkcow alone a counter is the number of page tables that name the *)
(* page: every ++ and -- of vm.c is matched by a mapping.                  *)
Exact == \A f \in Frame : refcnt[f] = Cardinality(Owners(f))

(* Whatever programs call, a counter is never above the number of owners:  *)
(* deallocuvm and freevm (vm.c:276) may free a page too early, or never    *)
(* because it was not counted, but never keep one because of a count that  *)
(* is too high.                                                            *)
NeverOvercounted == \A f \in Frame : refcnt[f] <= Cardinality(Owners(f))

(* Every change of an entry is followed by a flush before user code runs   *)
(* again (vm.c:422, 427, 479; switchuvm), save the one in growproc's early *)
(* return: whoever has a stale translation has no page left.               *)
StaleOnlyWhenEmpty == \A p \in Proc : tlb[p] # NoPages => Mapped(p) = {}

WritableWhereMapped(f) ==
    \A p \in Proc : \A v \in Mapped(p) : pt[p][v].pa = f => pt[p][v].w

Counted(f) ==
    \/ refcnt[f] = Cardinality(Owners(f))
    \/ refcnt[f] = 0 /\ Cardinality(Owners(f)) = 1 /\ WritableWhereMapped(f)
    \/ refcnt[f] = -1 /\ Owners(f) = {}

(* What pg_refcount counts.  A page is counted exactly; or copyuvm made it *)
(* and its one owner holds it writable at 0; or such a page was abandoned  *)
(* at -1.                                                                  *)
CountOK == \A f \in Frame : Counted(f)

(* What the calls leave behind when no lineage mixes the two forks and no  *)
(* process gives up all its memory: nothing cached, a free slot without    *)
(* memory, and no frame twice in one page table.                           *)
NoStale == \A p \in Proc : tlb[p] = NoPages
UnusedEmpty == \A p \in Proc : state[p] = "UNUSED" => sz[p] = 0
Injective ==
    \A p \in Proc : \A v, u \in Mapped(p) : pt[p][v].pa = pt[p][u].pa => v = u

(* The inductive invariant behind the theorems of CowMemoryProofs.         *)
IInv ==
    /\ TypeOK /\ NoStale /\ UnusedEmpty /\ Injective /\ SizeOK
    /\ FreeUnmapped /\ CountOK /\ NoSharedWritable /\ NoVmPanic

(* What a process reads through its page table.                            *)
Memory ==
    [p \in Proc |-> [v \in Page |-> IF pt[p][v] = Absent THEN Absent ELSE content[pt[p][v].pa]]]

AS == INSTANCE AddrSpace WITH mem <- Memory, NoValue <- Absent

(* Copy-on-write cannot be told from copying: seen through the page        *)
(* tables, the frames and counters implement private address spaces.       *)
Isolation == AS!Spec

(* "let it keep running until it gets to the regular system call return"   *)
(* (trap.c:102).  A process killed by a fault in the kernel retries the    *)
(* store that faulted; it leaves the kernel if frames stay available from  *)
(* some time on (pagefault, vm.c:462-479), and not otherwise.              *)
FaultServed ==
    \A p \in Proc :
        <>[](free # {}) =>
            [](kfault[p] # NoPage => <>(kfault[p] = NoPage \/ panicked # "no"))
=============================================================================
