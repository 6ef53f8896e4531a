-------------------------- MODULE CowMemoryLemmas --------------------------
(***************************************************************************)
(* What the operators of CowMemory do to counters and page tables, and the *)
(* inductive invariant J in the form the proofs of the steps use.  These   *)
(* steps keep it: exit, wait, sbrk, exec, fork, page faults, stores and    *)
(* the kernel's use of the allocator (CowMemoryProofs has the others).     *)
(***************************************************************************)
EXTENDS CowMemory, TLAPS

(* What the lemmas use of the cardinality of finite sets.  It is their     *)
(* hypothesis, so that they do not carry the library's theorems along;     *)
(* CowMemoryProofs, which has the library, discharges it (Counts).         *)
Counting ==
    /\ IsFiniteSet({}) /\ Cardinality({}) = 0
    /\ \A S : IsFiniteSet(S) => Cardinality(S) \in Nat
    /\ \A S : IsFiniteSet(S) => (Cardinality(S) = 0 <=> S = {})
    /\ \A S : IsFiniteSet(S) => (Cardinality(S) = 1 <=> \E x : S = {x})
    /\ \A x : IsFiniteSet({x}) /\ Cardinality({x}) = 1
    /\ \A S, T : IsFiniteSet(S) /\ T \in SUBSET S
                 => IsFiniteSet(T) /\ Cardinality(T) <= Cardinality(S)
    /\ \A S, x : IsFiniteSet(S)
         => /\ IsFiniteSet(S \cup {x}) /\ IsFiniteSet(S \ {x})
            /\ x \notin S => Cardinality(S \cup {x}) = Cardinality(S) + 1
            /\ x \in S => Cardinality(S \ {x}) = Cardinality(S) - 1

(* The conjuncts of Counting as facts to cite, one by one: a cardinality   *)
(* is a number,                                                            *)
LEMMA CountIsNat ==
  ASSUME Counting, NEW S, IsFiniteSet(S)
  PROVE  Cardinality(S) \in Nat
  BY Zenon DEF Counting

(* only the empty set has none,                                            *)
LEMMA CountEmpty ==
  ASSUME Counting
  PROVE  /\ IsFiniteSet({}) /\ Cardinality({}) = 0
         /\ \A S : IsFiniteSet(S) => (Cardinality(S) = 0 <=> S = {})
  BY Zenon DEF Counting

(* singletons have one,                                                    *)
LEMMA CountOne ==
  ASSUME Counting
  PROVE  /\ \A x : IsFiniteSet({x}) /\ Cardinality({x}) = 1
         /\ \A S : IsFiniteSet(S) => (Cardinality(S) = 1 <=> \E x : S = {x})
  BY Zenon DEF Counting

(* a subset has no more,                                                   *)
LEMMA CountSubset ==
  ASSUME Counting, NEW S, IsFiniteSet(S), NEW T \in SUBSET S
  PROVE  IsFiniteSet(T) /\ Cardinality(T) <= Cardinality(S)
  BY Zenon DEF Counting

(* one element more counts one more,                                       *)
LEMMA CountAdd ==
  ASSUME Counting, NEW S, NEW x, IsFiniteSet(S), x \notin S
  PROVE  IsFiniteSet(S \cup {x}) /\ Cardinality(S \cup {x}) = Cardinality(S) + 1
  BY Zenon DEF Counting

(* and one less counts one less.                                           *)
LEMMA CountRemove ==
  ASSUME Counting, NEW S, NEW x, IsFiniteSet(S), x \in S
  PROVE  IsFiniteSet(S \ {x}) /\ Cardinality(S \ {x}) = Cardinality(S) - 1
  BY Zenon DEF Counting

-----------------------------------------------------------------------------
(* Within its range a char does not wrap: pg_refcount (vm.c:13).           *)
LEMMA CharInRange == \A n \in -128 .. 127 : Char(n) = n
  BY DEF Char

(* One owner is all there is when pg_refcount is 1 (vm.c:462).             *)
LEMMA SoleMember ==
  ASSUME Counting, NEW S, IsFiniteSet(S), Cardinality(S) = 1
  PROVE  \E q : S = {q}
  BY CountOne

(* A frame has at most as many owners as there are processes.              *)
LEMMA OwnersFinite ==
  ASSUME Counting, NEW f
  PROVE  /\ IsFiniteSet(Owners(f))
         /\ Cardinality(Owners(f)) \in 0 .. 64
         /\ Cardinality(Owners(f)) = 0 <=> Owners(f) = {}
  <1>1. Owners(f) \in SUBSET Proc
    BY DEF Owners
  <1>2. /\ IsFiniteSet(Owners(f)) 
        /\ Cardinality(Owners(f)) <= Cardinality(Proc)
    BY <1>1, CountSubset, ProcAssumption
  <1>3. Cardinality(Owners(f)) \in Nat /\ Cardinality(Proc) \in Nat
    BY <1>2, CountIsNat, ProcAssumption
  <1>4. Cardinality(Owners(f)) = 0 <=> Owners(f) = {}
    BY <1>2, CountEmpty
  <1> QED BY <1>2, <1>3, <1>4, ProcAssumption

(* A call changes the frames of one process x at most.  The number of      *)
(* owners of a frame then moves by one with what x gains and loses.        *)
LEMMA OwnersStep ==
  ASSUME Counting, NEW x \in Proc, NEW f,
         \A q \in Proc \ {x} : FramesOf(q, Page)' = FramesOf(q, Page)
  PROVE  /\ f \in FramesOf(x, Page)' /\ f \notin FramesOf(x, Page)
              => /\ Cardinality(Owners(f)') = Cardinality(Owners(f)) + 1
                 /\ Owners(f)' = Owners(f) \cup {x}
         /\ f \notin FramesOf(x, Page)' /\ f \in FramesOf(x, Page)
              => /\ Cardinality(Owners(f)') = Cardinality(Owners(f)) - 1
                 /\ Owners(f)' = Owners(f) \ {x}
         /\ (f \in FramesOf(x, Page)' <=> f \in FramesOf(x, Page))
              => Owners(f)' = Owners(f)
  <1>1. IsFiniteSet(Owners(f))
    BY OwnersFinite
  <1>2. ASSUME f \in FramesOf(x, Page)', f \notin FramesOf(x, Page)
        PROVE  /\ Cardinality(Owners(f)') = Cardinality(Owners(f)) + 1
               /\ Owners(f)' = Owners(f) \cup {x}
    <2>1. Owners(f)' = Owners(f) \cup {x} /\ x \notin Owners(f)
      BY <1>2 DEF Owners
    <2> QED BY <1>1, <2>1, CountAdd
  <1>3. ASSUME f \notin FramesOf(x, Page)', f \in FramesOf(x, Page)
        PROVE  /\ Cardinality(Owners(f)') = Cardinality(Owners(f)) - 1
               /\ Owners(f)' = Owners(f) \ {x}
    <2>1. Owners(f)' = Owners(f) \ {x} /\ x \in Owners(f)
      BY <1>3 DEF Owners
    <2> QED BY <1>1, <2>1, CountRemove
  <1>4. ASSUME f \in FramesOf(x, Page)' <=> f \in FramesOf(x, Page)
        PROVE  Owners(f)' = Owners(f)
    BY <1>4 DEF Owners
  <1> QED BY <1>2, <1>3, <1>4

-----------------------------------------------------------------------------
(* The frames in a page table are frames.                                  *)
LEMMA FramesInFrame ==
  ASSUME pt \in [Proc -> [Page -> PTE \cup {Absent}]], NEW p \in Proc, NEW V
  PROVE  FramesOf(p, V) \subseteq Frame
  BY DEF FramesOf, Mapped, PTE

(* By CountOK no counter is far from the number of owners.                 *)
LEMMA CountRange ==
  ASSUME Counting, TypeOK, CountOK
  PROVE  refcnt \in [Frame -> -1 .. 64]
  <1>1. \A f \in Frame : refcnt[f] \in -1 .. 64
    BY OwnersFinite DEF CountOK, Counted
  <1> QED BY Zenon, <1>1 DEF TypeOK

(* So ++ and -- do not wrap (vm.c:249, 276, 420, 473).                     *)
LEMMA NoWrap ==
  ASSUME NEW rc \in [Frame -> -2 .. 65], NEW S
  PROVE  /\ Incremented(rc, S) = [f \in Frame |-> IF f \in S THEN rc[f] + 1 ELSE rc[f]]
         /\ Decremented(rc, S) = [f \in Frame |-> IF f \in S THEN rc[f] - 1 ELSE rc[f]]
         /\ \A f \in Frame : f \in Released(rc, S) <=> f \in S /\ rc[f] = 1
  <1>1. \A f \in Frame : Char(rc[f] + 1) = rc[f] + 1 /\ Char(rc[f] - 1) = rc[f] - 1
    BY CharInRange
  <1> QED BY <1>1 DEF Incremented, Decremented, Released

(* What is true of a frame at any time.  Where no program calls fork, its  *)
(* counter is the number of its owners, and one without any is not lost.   *)
Accounted(f) ==
    "fork" \notin Forks =>
        refcnt[f] = Cardinality(Owners(f)) /\ (f \in free \cup kpages \/ Owners(f) # {})

Tracked(f) ==
    /\ Counted(f) /\ Accounted(f)
    /\ f \in free \cup kpages => Owners(f) = {} /\ refcnt[f] = 0

(* The four things a step can do to one frame f, x being the process whose *)
(* page table it changes.                                                  *)

(* x loses f: deallocuvm.                                                  *)
LEMMA Loss ==
  ASSUME Counting, NEW x \in Proc, NEW f \in Frame, Tracked(f), refcnt[f] \in Int,
         \A q \in Proc \ {x} : FramesOf(q, Page)' = FramesOf(q, Page),
         f \in FramesOf(x, Page), f \notin FramesOf(x, Page)',
         refcnt'[f] = refcnt[f] - 1,
         f \in free' \cup kpages' => f \in free \cup kpages \/ refcnt[f] = 1,
         refcnt[f] = 1 => f \in free'
  PROVE  Tracked(f)'
  <1>1. /\ Cardinality(Owners(f)') = Cardinality(Owners(f)) - 1
        /\ Owners(f)' = Owners(f) \ {x}
        /\ x \in Owners(f)
    BY OwnersStep DEF Owners
  <1>2. Cardinality(Owners(f)) \in 0 .. 64
    BY OwnersFinite
  <1>3. Cardinality(Owners(f)') = 0 <=> Owners(f)' = {}
    <2>1. IsFiniteSet(Owners(f)')
      BY <1>1, OwnersFinite, CountRemove
    <2> QED BY <2>1, CountEmpty
  <1>4. Cardinality(Owners(f)) = 1 <=> Owners(f)' = {}
    BY <1>1, <1>2, <1>3
  <1>5. Accounted(f)'
    BY <1>1, <1>4 DEF Tracked, Accounted
  <1> QED BY <1>1, <1>2, <1>4, <1>5 DEF Tracked, Counted

(* x gains a reference to f that is counted: allocuvm, copyuvmcow.         *)
LEMMA Gain ==
  ASSUME Counting, NEW x \in Proc, NEW f \in Frame, Tracked(f), refcnt[f] \in Int,
         \A q \in Proc \ {x} : FramesOf(q, Page)' = FramesOf(q, Page),
         f \notin FramesOf(x, Page), f \in FramesOf(x, Page)',
         f \in free \/ refcnt[f] > 0,
         refcnt'[f] = refcnt[f] + 1,
         f \notin free' \cup kpages'
  PROVE  Tracked(f)'
  <1>1. Cardinality(Owners(f)') = Cardinality(Owners(f)) + 1
    BY OwnersStep
  <1>2. Cardinality(Owners(f)) \in 0 .. 64 /\ Cardinality({}) = 0
    BY OwnersFinite, CountEmpty
  <1>3. refcnt[f] = Cardinality(Owners(f))
    <2>1. CASE f \in free
      BY Zenon, <2>1, <1>2 DEF Tracked
    <2>2. CASE refcnt[f] > 0
      BY <2>2 DEF Tracked, Counted
    <2> QED BY <2>1, <2>2
  <1>4. refcnt'[f] = Cardinality(Owners(f)')
    BY <1>1, <1>3
  <1>5. Owners(f)' # {}
    BY DEF Owners
  <1> QED BY <1>4, <1>5 DEF Tracked, Counted, Accounted

(* x gains the copy f without counting it: copyuvm.                        *)
LEMMA PlainGain ==
  ASSUME Counting, NEW x \in Proc, NEW f \in Frame, Tracked(f), refcnt[f] \in Int,
         \A q \in Proc \ {x} : FramesOf(q, Page)' = FramesOf(q, Page),
         f \in FramesOf(x, Page)', f \in free,
         refcnt'[f] = refcnt[f],
         WritableWhereMapped(f)',
         f \notin free' \cup kpages', "fork" \in Forks
  PROVE  Tracked(f)'
  <1>1. Owners(f) = {} /\ refcnt[f] = 0
    BY DEF Tracked
  <1>2. Cardinality(Owners(f)') = 1
    BY <1>1, OwnersStep, CountEmpty DEF Owners
  <1> QED BY <1>1, <1>2 DEF Tracked, Counted, Accounted

(* Nobody gains or loses f.                                                *)
LEMMA Keep ==
  ASSUME Counting, NEW x \in Proc, NEW f \in Frame, Tracked(f), refcnt[f] \in Int,
         \A q \in Proc \ {x} : FramesOf(q, Page)' = FramesOf(q, Page),
         f \in FramesOf(x, Page)' <=> f \in FramesOf(x, Page),
         refcnt'[f] = refcnt[f],
         WritableWhereMapped(f)' \/ refcnt[f] > 0 \/ ~WritableWhereMapped(f),
         f \in free' \cup kpages' <=> f \in free \cup kpages
  PROVE  Tracked(f)'
  <1>1. Owners(f)' = Owners(f)
    BY OwnersStep
  <1>5. Accounted(f)'
    BY <1>1 DEF Tracked, Accounted
  <1>2. CASE refcnt[f] = Cardinality(Owners(f))
    BY <1>1, <1>2, <1>5 DEF Tracked, Counted
  <1>3. CASE refcnt[f] = 0 /\ Cardinality(Owners(f)) = 1 /\ WritableWhereMapped(f)
    <2>1. WritableWhereMapped(f)'
      BY <1>3
    <2> QED BY <1>1, <1>3, <1>5, <2>1 DEF Tracked, Counted
  <1>4. CASE refcnt[f] = -1 /\ Owners(f) = {}
    BY <1>1, <1>4, <1>5 DEF Tracked, Counted
  <1> QED BY <1>2, <1>3, <1>4 DEF Tracked, Counted

(* With nothing cached, NoSharedWritable speaks of page tables only.       *)
PrivateWritable ==
    \A p, q \in Proc : \A v, u \in Page :
        (/\ pt[p][v] # Absent /\ pt[p][v].w
         /\ pt[q][u] # Absent /\ pt[q][u].pa = pt[p][v].pa) => p = q /\ v = u

(* The two forms agree when no translation is stale.                       *)
LEMMA PrivateIsShared == NoStale => (NoSharedWritable <=> PrivateWritable)
  BY DEF NoStale, NoSharedWritable, PrivateWritable, Trans, NoPages

(* Tracked, frame by frame, gives FreeUnmapped and CountOK (vm.c:276).     *)
LEMMA TrackedIsCounted ==
  TypeOK /\ (\A f \in Frame : Tracked(f)) => FreeUnmapped /\ CountOK
  BY Zenon DEF TypeOK, Tracked, FreeUnmapped, CountOK

-----------------------------------------------------------------------------
(* The inductive invariant in the form the steps below use.                *)
J ==
    /\ TypeOK /\ NoStale /\ UnusedEmpty /\ Injective /\ SizeOK
    /\ \A f \in Frame : Tracked(f)
    /\ PrivateWritable /\ NoVmPanic

(* J is IInv, and more where no program calls fork.                        *)
LEMMA JIsIInv == J => IInv
  BY PrivateIsShared, TrackedIsCounted DEF J, IInv

(* What J says of the counters: they stay far from the ends of a char.     *)
LEMMA JFacts ==
  ASSUME Counting, J
  PROVE  /\ TypeOK
         /\ refcnt \in [Frame -> -1 .. 64]
         /\ \A p \in Proc, V \in SUBSET Page : FramesOf(p, V) \subseteq Frame
  <1>1. TypeOK /\ CountOK
    BY JIsIInv DEF IInv
  <1>2. refcnt \in [Frame -> -1 .. 64]
    BY <1>1, CountRange
  <1>3. \A p \in Proc, V \in SUBSET Page : FramesOf(p, V) \subseteq Frame
    BY Zenon, <1>1, FramesInFrame DEF TypeOK
  <1> QED BY <1>1, <1>2, <1>3

(* A step that leaves page tables, counters and allocated frames alone     *)
(* only has to keep the rest.                                              *)
LEMMA SamePages ==
  ASSUME J, UNCHANGED <<pt, refcnt, sz>>, free' \cup kpages' = free \cup kpages,
         TypeOK', NoStale', UnusedEmpty', NoVmPanic'
  PROVE  J'
  <1>1. Injective' /\ SizeOK' /\ PrivateWritable'
    BY DEF J, Injective, SizeOK, PrivateWritable, Mapped
  <1>2. \A f \in Frame : Tracked(f)'
    <2>1. \A f \in Frame : Owners(f)' = Owners(f)
      BY DEF Owners, FramesOf, Mapped
    <2>2. \A f \in Frame : WritableWhereMapped(f)' <=> WritableWhereMapped(f)
      BY DEF WritableWhereMapped, Mapped
    <2> QED BY <2>1, <2>2 DEF J, Tracked, Counted, Accounted
  <1> QED BY <1>1, <1>2 DEF J

(* p gets the page table e.  It keeps some of its pages, loses the frames  *)
(* lost and gains the frames new, taken from the allocator: the effect of  *)
(* allocuvm, deallocuvm, exec and the copy in pagefault.                   *)
NewTable(p, e, new) ==
    /\ e \in [Page -> PTE \cup {Absent}]
    /\ \A v \in Page : e[v] # Absent => e[v] = pt[p][v] \/ (e[v].pa \in new /\ e[v].w)
    /\ \A v, u \in Page : e[v] # Absent /\ e[u] # Absent /\ e[v].pa = e[u].pa => v = u
Holds(e, f) == \E v \in Page : e[v] # Absent /\ e[v].pa = f
NewFrames(p, e, new, lost) ==
    /\ new \subseteq free
    /\ \A f \in new : Holds(e, f)
    /\ \A f \in Frame : f \in lost <=> Holds(pt[p], f) /\ ~Holds(e, f)
NewCounts(new, lost) ==
    /\ refcnt' = [f \in Frame |-> IF f \in new THEN refcnt[f] + 1
                                  ELSE IF f \in lost THEN refcnt[f] - 1 ELSE refcnt[f]]
    /\ free' \subseteq Frame
    /\ \A f \in Frame : f \in free' <=>
            (f \in free /\ f \notin new) \/ (f \in lost /\ refcnt[f] = 1)
    /\ kpages' = kpages

(* Such a replacement of one page table keeps the invariant.               *)
LEMMA Replace ==
  ASSUME Counting, J, NEW p \in Proc, NEW e, NEW new, NEW lost,
         pt' = [pt EXCEPT ![p] = e],
         NewTable(p, e, new), NewFrames(p, e, new, lost), NewCounts(new, lost)
  PROVE  /\ pt' \in [Proc -> [Page -> PTE \cup {Absent}]]
         /\ refcnt' \in [Frame -> -128 .. 127]
         /\ kpages' \subseteq Frame \ free'
         /\ Injective' /\ PrivateWritable'
         /\ \A f \in Frame : Tracked(f)'
  <1>1. /\ TypeOK /\ refcnt \in [Frame -> -1 .. 64]
        /\ Injective /\ PrivateWritable
        /\ \A f \in Frame : Tracked(f)
    BY JFacts DEF J
  <1>2. pt'[p] = e /\ \A q \in Proc \ {p} : pt'[q] = pt[q]
    BY Zenon, <1>1 DEF TypeOK
  <1>3. /\ pt' \in [Proc -> [Page -> PTE \cup {Absent}]]
        /\ refcnt' \in [Frame -> -128 .. 127]
    <2>1. pt' \in [Proc -> [Page -> PTE \cup {Absent}]]
      BY Zenon, <1>1 DEF TypeOK, NewTable
    <2>2. \A f \in Frame : refcnt'[f] \in -128 .. 127
      BY <1>1 DEF NewCounts
    <2> QED BY <2>1, <2>2 DEF NewCounts
  <1>4. \A f \in Frame : f \in free \cup kpages => \A q \in Proc : ~Holds(pt[q], f)
    BY <1>1 DEF Tracked, Owners, FramesOf, Mapped, Holds
  <1>5. new \subseteq Frame /\ \A f \in new : ~Holds(pt[p], f) /\ f \notin lost /\ f \notin kpages
    BY Zenon, <1>1, <1>4 DEF TypeOK, NewFrames
  <1>6. kpages' \subseteq Frame \ free'
    BY Zenon, <1>1, <1>4 DEF TypeOK, NewCounts, NewFrames
  <1>7. Injective'
    BY <1>1, <1>2 DEF Injective, Mapped, NewTable
  <1>8. PrivateWritable'
    <2> SUFFICES ASSUME NEW a \in Proc, NEW b \in Proc, NEW v \in Page, NEW u \in Page,
                        pt'[a][v] # Absent, pt'[a][v].w,
                        pt'[b][u] # Absent, pt'[b][u].pa = pt'[a][v].pa
                 PROVE  a = b /\ v = u
      BY DEF PrivateWritable
    <2>1. CASE a = p /\ b = p
      BY <1>2, <2>1 DEF NewTable
    <2>2. CASE a = p /\ b # p
      BY <1>1, <1>2, <1>4, <1>5, <2>2 DEF PrivateWritable, NewTable, NewFrames, Holds
    <2>3. CASE a # p /\ b = p
      BY <1>1, <1>2, <1>4, <1>5, <2>3 DEF PrivateWritable, NewTable, NewFrames, Holds
    <2>4. CASE a # p /\ b # p
      BY <1>1, <1>2, <2>4 DEF PrivateWritable
    <2> QED BY <2>1, <2>2, <2>3, <2>4
  <1>9. ASSUME NEW f \in Frame PROVE Tracked(f)'
    <2>1. \A q \in Proc \ {p} : FramesOf(q, Page)' = FramesOf(q, Page)
      BY <1>2 DEF FramesOf, Mapped
    <2>2. /\ f \in FramesOf(p, Page)' <=> Holds(e, f)
          /\ f \in FramesOf(p, Page) <=> Holds(pt[p], f)
      BY <1>2 DEF FramesOf, Mapped, Holds
    <2>3. refcnt[f] \in Int /\ Tracked(f)
      BY <1>1
    <2>4. CASE f \in new
      <3>1. refcnt'[f] = refcnt[f] + 1 /\ f \notin free' \cup kpages'
        BY <1>5, <2>4 DEF NewCounts
      <3>2. Holds(e, f) /\ f \in free
        BY <2>4 DEF NewFrames
      <3> QED BY <1>5, <2>1, <2>2, <2>3, <2>4, <3>1, <3>2, Gain
    <2>5. CASE f \in lost
      <3>1. /\ refcnt'[f] = refcnt[f] - 1
            /\ f \in free' \cup kpages' => f \in free \cup kpages \/ refcnt[f] = 1
            /\ refcnt[f] = 1 => f \in free'
        BY <1>5, <2>5 DEF NewCounts
      <3>2. Holds(pt[p], f) /\ ~Holds(e, f)
        BY <2>5 DEF NewFrames
      <3> QED BY <2>1, <2>2, <2>3, <3>1, <3>2, Loss
    <2>6. CASE f \notin new /\ f \notin lost
      <3>1. refcnt'[f] = refcnt[f] /\ (f \in free' \cup kpages' <=> f \in free \cup kpages)
        BY <2>6 DEF NewCounts
      <3>2. f \in FramesOf(p, Page)' <=> f \in FramesOf(p, Page)
        BY <2>2, <2>6 DEF NewFrames, NewTable, Holds
      <3>3. WritableWhereMapped(f) => WritableWhereMapped(f)'
        BY <1>2, <2>6 DEF WritableWhereMapped, Mapped, NewTable
      <3> QED BY <2>1, <2>3, <3>1, <3>2, <3>3, Keep
    <2> QED BY <2>4, <2>5, <2>6
  <1> QED BY <1>3, <1>6, <1>7, <1>8, <1>9

(* What J says of one page table.                                          *)
LEMMA TableFacts ==
  ASSUME J, NEW p \in Proc
  PROVE  /\ sz[p] \in Nat /\ sz[p] <= NPages /\ NPages \in Nat
         /\ pt[p] \in [Page -> PTE \cup {Absent}]
         /\ \A v \in Page : v \in Nat /\ v < NPages
         /\ \A v \in Nat : v < NPages => v \in Page
         /\ \A v \in Page : pt[p][v] # Absent <=> v < sz[p]
         /\ \A v, u \in Page : pt[p][v] # Absent /\ pt[p][u] # Absent
                               /\ pt[p][v].pa = pt[p][u].pa => v = u
         /\ \A f \in free : ~Holds(pt[p], f)
         /\ \A f : f \in FramesOf(p, Page) <=> Holds(pt[p], f)
  <1>1. TypeOK
    BY DEF J
  <1>2. sz[p] \in 0 .. NPages /\ NPages \in Nat
    BY Zenon, <1>1, PageAssumption DEF TypeOK
  <1>3. pt[p] \in [Page -> PTE \cup {Absent}] /\ free \subseteq Frame
    BY Zenon, <1>1 DEF TypeOK
  <1>4. \A v \in Page : pt[p][v] # Absent <=> v < sz[p]
    BY DEF J, SizeOK, Mapped
  <1>5. \A v, u \in Page : pt[p][v] # Absent /\ pt[p][u] # Absent
                           /\ pt[p][v].pa = pt[p][u].pa => v = u
    BY DEF J, Injective, Mapped
  <1>6. \A f : f \in FramesOf(p, Page) <=> Holds(pt[p], f)
    BY DEF FramesOf, Mapped, Holds
  <1>7. \A f \in free : ~Holds(pt[p], f)
    BY <1>3, <1>6 DEF J, Tracked, Owners
  <1>8. \A v \in Page : v \in Nat /\ v < NPages
    BY <1>2 DEF Page
  <1>9. \A v \in Nat : v < NPages => v \in Page
    BY <1>2 DEF Page
  <1>10. sz[p] \in Nat /\ sz[p] <= NPages
    BY <1>2
  <1> QED BY <1>2, <1>3, <1>4, <1>5, <1>6, <1>7, <1>8, <1>9, <1>10

(* Two page tables that map the same pages to the same frames.             *)
SameShape(t, e) ==
    \A v \in Page : /\ e[v] # Absent <=> t[v] # Absent
                    /\ t[v] # Absent => e[v].pa = t[v].pa
OneToOne(t) ==
    \A v, u \in Page : t[v] # Absent /\ t[u] # Absent /\ t[v].pa = t[u].pa => v = u

(* Protecting a page (vm.c:412, 464) keeps its frame, so the table stays    *)
(* one to one and names the same frames.                                   *)
LEMMA ShapeFacts ==
  ASSUME NEW t, NEW e, SameShape(t, e)
  PROVE  /\ OneToOne(t) => OneToOne(e)
         /\ \A f : Holds(e, f) <=> Holds(t, f)
  <1>1. ASSUME OneToOne(t), NEW v \in Page, NEW u \in Page,
               e[v] # Absent, e[u] # Absent, e[v].pa = e[u].pa
        PROVE  v = u
    <2>1. t[v] # Absent /\ t[u] # Absent /\ t[v].pa = t[u].pa
      BY <1>1 DEF SameShape
    <2> QED BY <1>1, <2>1 DEF OneToOne
  <1>2. OneToOne(t) => OneToOne(e)
    BY <1>1 DEF OneToOne
  <1>3. \A f : Holds(e, f) <=> Holds(t, f)
    BY DEF SameShape, Holds
  <1> QED BY <1>2, <1>3

(* Injective, page table by page table.                                    *)
LEMMA InjectiveTables ==
  /\ Injective <=> \A r \in Proc : OneToOne(pt[r])
  /\ Injective' <=> \A r \in Proc : OneToOne(pt'[r])
  BY DEF Injective, Mapped, OneToOne

(* SizeOK, page by page.                                                   *)
LEMMA SizeTables ==
  /\ SizeOK <=> \A r \in Proc : \A v \in Page : pt[r][v] # Absent <=> v < sz[r]
  /\ SizeOK' <=> \A r \in Proc : \A v \in Page : pt'[r][v] # Absent <=> v < sz'[r]
  BY DEF SizeOK, Mapped

(* A call that gives p the table e and the size n keeps SizeOK.            *)
LEMMA SizeStep ==
  ASSUME J, NEW p \in Proc, NEW e, NEW n, pt'[p] = e, sz'[p] = n,
         \A q \in Proc \ {p} : pt'[q] = pt[q] /\ sz'[q] = sz[q],
         \A v \in Page : e[v] # Absent <=> v < n
  PROVE  SizeOK'
  <1>1. ASSUME NEW r \in Proc, NEW v \in Page
        PROVE  pt'[r][v] # Absent <=> v < sz'[r]
    <2>1. CASE r = p
      BY <2>1
    <2>2. CASE r # p
      <3>1. pt'[r] = pt[r] /\ sz'[r] = sz[r]
        BY <2>2
      <3> QED BY <3>1, SizeTables DEF J
    <2> QED BY <2>1, <2>2
  <1> QED BY <1>1, SizeTables

(* FramesOf, frame by frame.                                               *)
LEMMA FrameTables ==
  ASSUME NEW r \in Proc, NEW f
  PROVE  /\ f \in FramesOf(r, Page) <=> Holds(pt[r], f)
         /\ f \in FramesOf(r, Page)' <=> Holds(pt'[r], f)
  BY DEF FramesOf, Mapped, Holds

(* A table that names the same frames has the same FramesOf.               *)
LEMMA SameFrames ==
  ASSUME NEW r \in Proc, \A f : Holds(pt'[r], f) <=> Holds(pt[r], f)
  PROVE  FramesOf(r, Page)' = FramesOf(r, Page)
  <1>1. \A f : f \in FramesOf(r, Page)' <=> f \in FramesOf(r, Page)
    BY FrameTables
  <1> QED BY <1>1

(* Write-protecting or unprotecting pages keeps all of them.               *)
LEMMA SameShapes ==
  ASSUME J, \A r \in Proc : SameShape(pt[r], pt'[r]), sz' = sz
  PROVE  /\ Injective' /\ SizeOK'
         /\ \A r \in Proc : FramesOf(r, Page)' = FramesOf(r, Page)
  <1>1. Injective'
    BY InjectiveTables, ShapeFacts DEF J
  <1>2. SizeOK'
    BY SizeTables DEF J, SameShape
  <1>3. \A r \in Proc : FramesOf(r, Page)' = FramesOf(r, Page)
    BY ShapeFacts, SameFrames
  <1> QED BY <1>1, <1>2, <1>3

(* A frame stays writable where it is mapped if its entries are old ones.  *)
LEMMA KeepWritable ==
  ASSUME NEW f, \A r \in Proc : \A u \in Page :
           pt'[r][u] # Absent /\ pt'[r][u].pa = f => pt'[r][u] = pt[r][u]
  PROVE  WritableWhereMapped(f) => WritableWhereMapped(f)'
  <1> SUFFICES ASSUME WritableWhereMapped(f), NEW r \in Proc, NEW u \in Page,
                      pt'[r][u] # Absent, pt'[r][u].pa = f
               PROVE  pt'[r][u].w
    BY DEF WritableWhereMapped, Mapped
  <1>1. pt'[r][u] = pt[r][u]
    OBVIOUS
  <1> QED BY <1>1 DEF WritableWhereMapped, Mapped

(* What no two entries may do: the converse of PrivateWritable'.           *)
LEMMA PrivateTables ==
  ASSUME \A a, b \in Proc : \A i, j \in Page :
           pt'[a][i] # Absent /\ pt'[a][i].w /\ pt'[b][j] # Absent
           /\ pt'[b][j].pa = pt'[a][i].pa => a = b /\ i = j
  PROVE  PrivateWritable'
  BY DEF PrivateWritable

(* Frames from kalloc are free, and each is given once.                    *)
LEMMA KallocFacts ==
  ASSUME NEW k \in Nat, NEW g \in kalloc(k), free \subseteq Frame
  PROVE  /\ g \in [0 .. k - 1 -> free]
         /\ \A i, j \in 0 .. k - 1 : g[i] = g[j] => i = j
         /\ \A i \in 0 .. k - 1 : g[i] \in Frame /\ g[i] \in free
         /\ Taken(g) \subseteq free
         /\ \A f : f \in Taken(g) <=> \E i \in 0 .. k - 1 : f = g[i]
  BY DEF kalloc, Taken

-----------------------------------------------------------------------------
(* exit()                                                                  *)
LEMMA ExitStep ==
  ASSUME J, NEW p \in Proc, state[p] = "LIVE", exit(p)
  PROVE  J'
  <1>1. CASE p = InitProc
    BY Zenon, <1>1, SamePages DEF exit, Panic, J, TypeOK, NoStale, UnusedEmpty, NoVmPanic
  <1>2. CASE p # InitProc
    <2>1. TypeOK'
      BY Zenon, <1>2 DEF exit, flush, J, TypeOK, NoStale
    <2>2. NoStale'
      BY Zenon, <1>2 DEF exit, flush, J, NoStale, TypeOK
    <2>3. UnusedEmpty' /\ NoVmPanic'
      BY Zenon, <1>2 DEF exit, J, UnusedEmpty, TypeOK, NoVmPanic
    <2> QED BY Zenon, <1>2, <2>1, <2>2, <2>3, SamePages DEF exit
  <1> QED BY <1>1, <1>2

(* kalloc and kfree by the kernel.                                         *)
LEMMA KernelStep ==
  ASSUME J, NEW f \in Frame, kernel_kalloc(f) \/ kernel_kfree(f)
  PROVE  J'
  <1>1. TypeOK' /\ NoStale' /\ UnusedEmpty' /\ NoVmPanic'
    <2>1. free' \subseteq Frame /\ kpages' \subseteq Frame \ free'
      BY Zenon DEF J, TypeOK, kernel_kalloc, kernel_kfree
    <2>2. UNCHANGED <<state, sz, pt, tlb, kfault, refcnt, content, panicked>>
      BY DEF kernel_kalloc, kernel_kfree
    <2>3. TypeOK'
      BY Zenon, <2>1, <2>2 DEF J, TypeOK
    <2>4. NoStale' /\ UnusedEmpty' /\ NoVmPanic'
      BY Zenon, <2>2 DEF J, NoStale, UnusedEmpty, NoVmPanic
    <2> QED BY <2>3, <2>4
  <1>2. free' \cup kpages' = free \cup kpages
    BY DEF kernel_kalloc, kernel_kfree
  <1> QED BY <1>1, <1>2, SamePages DEF kernel_kalloc, kernel_kfree

(* A store the MMU lets through.                                           *)
LEMMA StoreStep ==
  ASSUME J, NEW p \in Proc, NEW v \in Page, NEW x \in Value, store(p, v, x)
  PROVE  J'
  <1>1. PICK t \in Trans(p, v) : content' = [content EXCEPT ![t.pa] = x]
    BY Zenon DEF store
  <1>2. TypeOK'
    BY Zenon DEF J, TypeOK, store
  <1> QED BY Zenon, <1>2, SamePages DEF store, J, NoStale, UnusedEmpty, NoVmPanic

(* A page fault in kernel mode that cannot be served.                      *)
LEMMA KernelFaultStep ==
  ASSUME J, NEW p \in Proc, NEW v \in Page, pagefault_kernel(p, v)
  PROVE  J'
  BY Zenon, SamePages DEF pagefault_kernel, J, TypeOK, NoStale, UnusedEmpty, NoVmPanic

(* The fault is served at last and the system call returns.                *)
LEMMA SyscallReturnStep ==
  ASSUME J, NEW p \in Proc, NEW x \in Value, syscall_return(p, x)
  PROVE  J'
  <1>1. TypeOK'
    BY Zenon DEF J, TypeOK, NoStale, syscall_return, flush
  <1>2. NoStale'
    BY Zenon DEF J, TypeOK, NoStale, syscall_return, flush
  <1>3. UnusedEmpty' /\ NoVmPanic'
    BY Zenon DEF J, TypeOK, UnusedEmpty, NoVmPanic, syscall_return
  <1> QED BY Zenon, <1>1, <1>2, <1>3, SamePages DEF syscall_return

(* A step that changes nothing.                                            *)
LEMMA StutterStep ==
  ASSUME J, UNCHANGED vars
  PROVE  J'
  BY Zenon, SamePages DEF vars, J, TypeOK, NoStale, UnusedEmpty, NoVmPanic

(* switchuvm(), which has nothing to flush.                                *)
LEMMA SwitchStep ==
  ASSUME J, NEW p \in Proc, switchuvm(p)
  PROVE  J'
  <1>1. tlb' = tlb
    BY DEF switchuvm, flush, J, TypeOK, NoStale
  <1> QED BY <1>1, StutterStep DEF switchuvm, vars

(* wait(): freevm of a zombie.                                             *)
LEMMA WaitStep ==
  ASSUME Counting, J, NEW p \in Proc, wait(p)
  PROVE  J'
  <1> DEFINE S == FramesOf(p, Page)
  <1>1. TypeOK /\ refcnt \in [Frame -> -2 .. 65] /\ S \subseteq Frame
    BY JFacts
  <1>2. /\ refcnt' = Decremented(refcnt, S)
        /\ free' = free \cup Released(refcnt, S)
        /\ content' = Freed(content, Released(refcnt, S))
        /\ pt' = [pt EXCEPT ![p] = NoPages]
        /\ sz' = [sz EXCEPT ![p] = 0]
        /\ state' = [state EXCEPT ![p] = "UNUSED"]
        /\ UNCHANGED <<tlb, kfault, panicked, kpages>>
    BY DEF wait
  <1>3. NewTable(p, NoPages, {}) /\ NewFrames(p, NoPages, {}, S)
    BY <1>1 DEF NewTable, NewFrames, NoPages, Holds, FramesOf, Mapped
  <1> HIDE DEF S
  <1>4. NewCounts({}, S)
    <2>1. /\ refcnt' = [f \in Frame |-> IF f \in S THEN refcnt[f] - 1 ELSE refcnt[f]]
          /\ \A f \in Frame : f \in Released(refcnt, S) <=> f \in S /\ refcnt[f] = 1
      BY <1>1, <1>2, NoWrap
    <2>2. free' \subseteq Frame
      BY Zenon, <1>1, <1>2 DEF Released, TypeOK
    <2> QED BY <1>2, <2>1, <2>2 DEF NewCounts
  <1>5. /\ pt' \in [Proc -> [Page -> PTE \cup {Absent}]]
        /\ refcnt' \in [Frame -> -128 .. 127]
        /\ kpages' \subseteq Frame \ free'
        /\ Injective' /\ PrivateWritable'
        /\ \A f \in Frame : Tracked(f)'
    BY Zenon, <1>2, <1>3, <1>4, Replace
  <1>6. TypeOK'
    <2>1. content' \in [Frame -> Value] /\ free' \subseteq Frame
      BY Zenon, <1>1, <1>2, <1>4, ValueAssumption DEF TypeOK, Freed, NewCounts
    <2>2. sz' \in [Proc -> 0 .. NPages]
      <3>1. 0 \in 0 .. NPages
        BY PageAssumption
      <3> QED BY Zenon, <1>1, <1>2, <3>1 DEF TypeOK
    <2>3. state' \in [Proc -> {"UNUSED", "LIVE", "ZOMBIE"}]
      BY Zenon, <1>1, <1>2 DEF TypeOK
    <2> QED BY Zenon, <1>1, <1>2, <1>5, <2>1, <2>2, <2>3 DEF TypeOK
  <1>7. NoStale' /\ UnusedEmpty' /\ NoVmPanic'
    BY Zenon, <1>1, <1>2 DEF J, TypeOK, NoStale, UnusedEmpty, NoVmPanic
  <1>8. SizeOK'
    <2>1. pt'[p] = NoPages /\ sz'[p] = 0 /\ \A q \in Proc \ {p} : pt'[q] = pt[q] /\ sz'[q] = sz[q]
      BY Zenon, <1>1, <1>2 DEF TypeOK
    <2> QED BY <2>1, PageAssumption DEF J, SizeOK, Mapped, Page, NoPages
  <1> QED BY <1>5, <1>6, <1>7, <1>8 DEF J

(* sbrk(n), n < 0: growproc, deallocuvm.                                   *)
LEMMA ShrinkStep ==
  ASSUME Counting, J, ~ShrinkToZero, NEW p \in Proc, NEW n \in 0 .. NPages, shrink(p, n)
  PROVE  J'
  <1> DEFINE S == FramesOf(p, Dropped(p, n))
             e == [v \in Page |-> IF v \in Dropped(p, n) THEN Absent ELSE pt[p][v]]
  <1>1. /\ TypeOK /\ Injective /\ refcnt \in [Frame -> -2 .. 65]
        /\ n > 0 /\ n < sz[p] /\ sz[p] \in 0 .. NPages /\ n \in Nat
        /\ pt[p] \in [Page -> PTE \cup {Absent}]
    <2>1. n > 0 /\ n < sz[p]
      BY DEF shrink
    <2>2. TypeOK /\ Injective /\ refcnt \in [Frame -> -2 .. 65]
      BY JFacts DEF J
    <2>3. sz[p] \in 0 .. NPages /\ pt[p] \in [Page -> PTE \cup {Absent}]
      BY Zenon, <2>2 DEF TypeOK
    <2>4. n \in Nat
      BY PageAssumption
    <2> QED BY <2>1, <2>2, <2>3, <2>4
  <1>2. /\ refcnt' = Decremented(refcnt, S)
        /\ free' = free \cup Released(refcnt, S)
        /\ content' = Freed(content, Released(refcnt, S))
        /\ pt' = [pt EXCEPT ![p] = e]
        /\ sz' = [sz EXCEPT ![p] = n]
        /\ tlb' = [tlb EXCEPT ![p] = NoPages]
        /\ UNCHANGED <<state, kfault, panicked, kpages>>
    BY <1>1 DEF shrink, flush
  <1>3. S \subseteq Frame
    BY Zenon, <1>1, FramesInFrame DEF TypeOK
  <1>4. NewTable(p, e, {})
    BY Zenon, <1>1 DEF NewTable, Injective, Mapped
  <1>5. NewFrames(p, e, {}, S)
    <2>1. \A f \in Frame : f \in S => Holds(pt[p], f) /\ ~Holds(e, f)
      BY <1>1, PageAssumption DEF Holds, FramesOf, Mapped, Injective, Page
    <2>2. \A f \in Frame : Holds(pt[p], f) /\ ~Holds(e, f) => f \in S
      BY <1>1, PageAssumption DEF Holds, FramesOf, Mapped, Page
    <2> QED BY <2>1, <2>2 DEF NewFrames
  <1> HIDE DEF S, e
  <1>6. NewCounts({}, S)
    <2>1. /\ refcnt' = [f \in Frame |-> IF f \in S THEN refcnt[f] - 1 ELSE refcnt[f]]
          /\ \A f \in Frame : f \in Released(refcnt, S) <=> f \in S /\ refcnt[f] = 1
      BY <1>1, <1>2, NoWrap
    <2>2. free' \subseteq Frame
      BY Zenon, <1>1, <1>2, <1>3 DEF Released, TypeOK
    <2> QED BY <1>2, <2>1, <2>2 DEF NewCounts
  <1>7. /\ pt' \in [Proc -> [Page -> PTE \cup {Absent}]]
        /\ refcnt' \in [Frame -> -128 .. 127]
        /\ kpages' \subseteq Frame \ free'
        /\ Injective' /\ PrivateWritable'
        /\ \A f \in Frame : Tracked(f)'
    BY Zenon, <1>2, <1>4, <1>5, <1>6, Replace
  <1>8. NoStale' /\ tlb' = tlb
    BY Zenon, <1>1, <1>2 DEF J, TypeOK, NoStale
  <1>9. TypeOK'
    <2>1. content' \in [Frame -> Value] /\ free' \subseteq Frame
      BY Zenon, <1>1, <1>2, <1>6, ValueAssumption DEF TypeOK, Freed, NewCounts
    <2>2. sz' \in [Proc -> 0 .. NPages]
      BY Zenon, <1>1, <1>2 DEF TypeOK
    <2> QED BY Zenon, <1>1, <1>2, <1>7, <1>8, <2>1, <2>2 DEF TypeOK
  <1>10. UnusedEmpty' /\ NoVmPanic'
    BY <1>1, <1>2 DEF shrink, Running, Live, J, TypeOK, UnusedEmpty, NoVmPanic
  <1>11. SizeOK'
    <2>1. pt'[p] = e /\ sz'[p] = n /\ \A q \in Proc \ {p} : pt'[q] = pt[q] /\ sz'[q] = sz[q]
      BY Zenon, <1>1, <1>2 DEF TypeOK
    <2>2. {v \in Page : pt'[p][v] # Absent} = {v \in Page : v < n}
      BY <1>1, <2>1, PageAssumption DEF J, SizeOK, Mapped, Page, Dropped, e
    <2> QED BY <2>1, <2>2 DEF J, SizeOK, Mapped
  <1> QED BY <1>7, <1>8, <1>9, <1>10, <1>11 DEF J

(* sbrk(n), n > 0: growproc, allocuvm.                                     *)
LEMMA GrowStep ==
  ASSUME Counting, J, NEW p \in Proc, NEW n \in 0 .. NPages, grow(p, n)
  PROVE  J'
  <1>1. TypeOK /\ refcnt \in [Frame -> -2 .. 65]
    BY JFacts
  <1>2. PICK g \in kalloc(n - sz[p]) :
          /\ pt' = [pt EXCEPT ![p] = [v \in Page |->
                      IF v >= sz[p] /\ v < n THEN NewPage(g[v - sz[p]]) ELSE pt[p][v]]]
          /\ refcnt' = Incremented(refcnt, Taken(g))
          /\ free' = free \ Taken(g)
          /\ content' = [f \in Frame |-> IF f \in Taken(g) THEN Zero ELSE content[f]]
    BY Zenon DEF grow
  <1>3. /\ sz' = [sz EXCEPT ![p] = n]
        /\ tlb' = [tlb EXCEPT ![p] = NoPages]
        /\ UNCHANGED <<state, kfault, panicked, kpages>>
    BY DEF grow, flush
  <1> DEFINE k == sz[p]
             old == pt[p]
             e == [v \in Page |-> IF v >= k /\ v < n THEN NewPage(g[v - k]) ELSE old[v]]
             m == n - k
  <1>4. /\ k \in Nat /\ n \in Nat /\ n > k /\ n <= NPages /\ m \in Nat /\ NPages \in Nat
        /\ old \in [Page -> PTE \cup {Absent}]
        /\ \A v \in Page : v \in Nat /\ v < NPages
        /\ \A v \in Nat : v < NPages => v \in Page
        /\ \A v \in Page : old[v] # Absent <=> v < k
        /\ \A v, u \in Page : old[v] # Absent /\ old[u] # Absent /\ old[v].pa = old[u].pa => v = u
        /\ \A f \in free : ~Holds(old, f)
    <2>1. n > sz[p] /\ n <= NPages
      BY DEF grow
    <2> QED BY <2>1, TableFacts
  <1>5. pt' = [pt EXCEPT ![p] = e]
    BY <1>2
  <1>6. /\ g \in [0 .. m - 1 -> free]
        /\ \A i, j \in 0 .. m - 1 : g[i] = g[j] => i = j
        /\ \A i \in 0 .. m - 1 : g[i] \in Frame /\ g[i] \in free
        /\ Taken(g) \subseteq free
        /\ \A f : f \in Taken(g) <=> \E i \in 0 .. m - 1 : f = g[i]
    BY Zenon, <1>1, <1>4, KallocFacts DEF TypeOK
  <1> HIDE DEF k, old
  <1>7. \A v \in Page : v >= k /\ v < n => v - k \in 0 .. m - 1
    BY <1>4
  <1>8. \A v \in Page : v >= k /\ v < n =>
                e[v] \in PTE /\ e[v] # Absent /\ e[v].pa = g[v - k] /\ e[v].w
    <2> SUFFICES ASSUME NEW v \in Page, v >= k, v < n
                 PROVE  e[v] \in PTE /\ e[v] # Absent /\ e[v].pa = g[v - k] /\ e[v].w
      OBVIOUS
    <2>1. e[v] = [pa |-> g[v - k], w |-> TRUE, u |-> TRUE]
      BY DEF NewPage
    <2>2. g[v - k] \in Frame
      BY <1>6, <1>7
    <2> HIDE DEF e
    <2>3. e[v] \in PTE
      BY <2>1, <2>2 DEF PTE
    <2>4. e[v] # Absent
      BY <2>3, FrameAssumption
    <2>5. e[v].pa = g[v - k] /\ e[v].w
      BY <2>1
    <2> QED BY <2>3, <2>4, <2>5
  <1>9. \A v \in Page : ~(v >= k /\ v < n) => e[v] = old[v]
    OBVIOUS
  <1>10. DOMAIN e = Page /\ e = [v \in Page |-> e[v]]
    BY Zenon
  <1> HIDE DEF e, m
  <1>11. \A v \in Page : e[v] # Absent =>
              \/ v < k /\ e[v] = old[v] /\ old[v] # Absent
              \/ v >= k /\ v < n /\ e[v].w /\ e[v].pa = g[v - k] /\ v - k \in 0 .. m - 1
    BY <1>4, <1>7, <1>8, <1>9
  <1>12. \A v \in Page : old[v] # Absent => e[v] = old[v]
    BY <1>4, <1>9
  <1>13. NewTable(p, e, Taken(g))
    <2>1. ASSUME NEW v \in Page, NEW u \in Page,
                 e[v] # Absent, e[u] # Absent, e[v].pa = e[u].pa
          PROVE  v = u
      <3>1. CASE v < k /\ u < k
        BY <1>4, <1>11, <2>1, <3>1
      <3>2. CASE v >= k /\ u >= k
        <4>1. v - k = u - k
          BY <1>4, <1>6, <1>11, <2>1, <3>2
        <4> QED BY <1>4, <4>1
      <3>3. CASE v < k /\ u >= k
        BY <1>4, <1>6, <1>11, <2>1, <3>3 DEF Holds
      <3>4. CASE v >= k /\ u < k
        BY <1>4, <1>6, <1>11, <2>1, <3>4 DEF Holds
      <3> QED BY <1>4, <3>1, <3>2, <3>3, <3>4
    <2>2. \A v \in Page : e[v] # Absent => e[v] = old[v] \/ (e[v].pa \in Taken(g) /\ e[v].w)
      BY <1>6, <1>11
    <2>3. e \in [Page -> PTE \cup {Absent}]
      <3>1. \A v \in Page : e[v] \in PTE \cup {Absent}
        BY <1>4, <1>8, <1>9
      <3> QED BY <1>10, <3>1
    <2> QED BY <2>1, <2>2, <2>3 DEF NewTable, old
  <1>14. \A f \in Taken(g) : Holds(e, f)
    <2> SUFFICES ASSUME NEW i \in 0 .. m - 1 PROVE Holds(e, g[i])
      BY <1>6
    <2>1. i + k \in Nat /\ i + k >= k /\ i + k < n /\ i + k < NPages /\ (i + k) - k = i
      BY <1>4 DEF m
    <2>2. i + k \in Page
      BY <1>4, <2>1
    <2> QED BY <1>8, <2>1, <2>2 DEF Holds
  <1>15. NewFrames(p, e, Taken(g), {})
    <2>1. \A f \in Frame : Holds(old, f) => Holds(e, f)
      BY <1>12 DEF Holds
    <2> QED BY <1>6, <1>14, <2>1 DEF NewFrames, old
  <1>16. NewCounts(Taken(g), {})
    <2>1. refcnt' = [f \in Frame |-> IF f \in Taken(g) THEN refcnt[f] + 1 ELSE refcnt[f]]
      BY <1>1, <1>2, NoWrap
    <2> QED BY Zenon, <1>1, <1>2, <1>3, <2>1 DEF NewCounts, TypeOK
  <1>18. /\ pt' \in [Proc -> [Page -> PTE \cup {Absent}]]
         /\ refcnt' \in [Frame -> -128 .. 127]
         /\ kpages' \subseteq Frame \ free'
         /\ Injective' /\ PrivateWritable'
         /\ \A f \in Frame : Tracked(f)'
    BY Zenon, <1>5, <1>13, <1>15, <1>16, Replace
  <1>19. NoStale' /\ tlb' = tlb
    BY Zenon, <1>1, <1>3 DEF J, TypeOK, NoStale
  <1>20. TypeOK'
    <2>1. content' \in [Frame -> Value] /\ free' \subseteq Frame
      BY Zenon, <1>1, <1>2, ValueAssumption DEF TypeOK
    <2>2. sz' \in [Proc -> 0 .. NPages]
      BY Zenon, <1>1, <1>3 DEF TypeOK
    <2> QED BY Zenon, <1>1, <1>3, <1>18, <1>19, <2>1, <2>2 DEF TypeOK
  <1>21. UnusedEmpty' /\ NoVmPanic'
    BY <1>1, <1>3 DEF grow, Running, Live, J, TypeOK, UnusedEmpty, NoVmPanic
  <1>22. SizeOK'
    <2>1. pt'[p] = e /\ sz'[p] = n /\ \A q \in Proc \ {p} : pt'[q] = pt[q] /\ sz'[q] = sz[q]
      BY Zenon, <1>1, <1>3, <1>5 DEF TypeOK
    <2>2. \A v \in Page : e[v] # Absent <=> v < n
      BY <1>4, <1>8, <1>9, <1>11
    <2> QED BY <2>1, <2>2, SizeStep
  <1> QED BY <1>18, <1>19, <1>20, <1>21, <1>22 DEF J

(* exec()                                                                  *)
LEMMA ExecStep ==
  ASSUME Counting, J, NEW p \in Proc, NEW t \in TextPages, NEW x \in Value, exec(p, t, x)
  PROVE  J'
  <1> DEFINE S == FramesOf(p, Page)
             old == pt[p]
             m == t + 2
  <1>1. TypeOK /\ refcnt \in [Frame -> -1 .. 64] /\ S \subseteq Frame
    BY JFacts
  <1>2. PICK g \in kalloc(m) :
          /\ pt' = [pt EXCEPT ![p] = [v \in Page |->
                      IF v < m THEN [pa |-> g[v], w |-> TRUE, u |-> v # t] ELSE Absent]]
          /\ refcnt' = Decremented(Incremented(refcnt, Taken(g)), S)
          /\ free' = (free \ Taken(g)) \cup Released(Incremented(refcnt, Taken(g)), S)
          /\ content' = [f \in Frame |->
               IF f \in Taken(g) THEN (IF f = g[t] THEN Zero ELSE x)
               ELSE Freed(content, Released(Incremented(refcnt, Taken(g)), S))[f]]
    BY Zenon DEF exec
  <1>3. /\ sz' = [sz EXCEPT ![p] = m]
        /\ tlb' = [tlb EXCEPT ![p] = NoPages]
        /\ UNCHANGED <<state, kfault, panicked, kpages>>
    BY DEF exec, flush
  <1> DEFINE e == [v \in Page |-> IF v < m THEN [pa |-> g[v], w |-> TRUE, u |-> v # t] ELSE Absent]
             rc == Incremented(refcnt, Taken(g))
  <1>4. /\ m \in Nat /\ m <= NPages /\ NPages \in Nat
        /\ \A v \in Page : v \in Nat /\ v < NPages
        /\ \A v \in Nat : v < NPages => v \in Page
        /\ \A f \in free : ~Holds(old, f)
        /\ \A f : f \in S <=> Holds(old, f)
    <2>1. t + 2 <= NPages /\ t \in Nat
      BY Zenon, PageAssumption DEF exec
    <2>2. \A v \in Page : v \in Nat /\ v < NPages
      BY TableFacts
    <2>3. \A v \in Nat : v < NPages => v \in Page
      BY TableFacts
    <2>4. (\A f \in free : ~Holds(old, f)) /\ (\A f : f \in S <=> Holds(old, f))
      BY TableFacts
    <2>5. NPages \in Nat
      BY PageAssumption
    <2>6. m \in Nat /\ m <= NPages
      BY <2>1, <2>5
    <2> HIDE DEF S, old, m
    <2> QED BY Zenon, <2>2, <2>3, <2>4, <2>5, <2>6
  <1>5. pt' = [pt EXCEPT ![p] = e]
    BY Zenon, <1>2
  <1>6. /\ g \in [0 .. m - 1 -> free]
        /\ \A i, j \in 0 .. m - 1 : g[i] = g[j] => i = j
        /\ \A i \in 0 .. m - 1 : g[i] \in Frame /\ g[i] \in free
        /\ Taken(g) \subseteq free
        /\ \A f : f \in Taken(g) <=> \E i \in 0 .. m - 1 : f = g[i]
    <2>1. m \in Nat /\ g \in kalloc(m) /\ free \subseteq Frame
      BY Zenon, <1>1, <1>4 DEF TypeOK
    <2> HIDE DEF m
    <2> QED BY <2>1, KallocFacts
  <1> HIDE DEF S, old, m
  <1>7. \A v \in Page : v < m => v \in 0 .. m - 1
    BY <1>4
  <1>8. \A v \in Page : v < m =>
                e[v] \in PTE /\ e[v] # Absent /\ e[v].pa = g[v] /\ e[v].w
    <2> SUFFICES ASSUME NEW v \in Page, v < m
                 PROVE  e[v] \in PTE /\ e[v] # Absent /\ e[v].pa = g[v] /\ e[v].w
      OBVIOUS
    <2>1. e[v] = [pa |-> g[v], w |-> TRUE, u |-> v # t]
      OBVIOUS
    <2>2. g[v] \in Frame
      BY <1>6, <1>7
    <2> HIDE DEF e
    <2>3. e[v] \in PTE
      BY <2>1, <2>2 DEF PTE
    <2>4. e[v] # Absent
      BY <2>3, FrameAssumption
    <2>5. e[v].pa = g[v] /\ e[v].w
      BY <2>1
    <2> QED BY Zenon, <2>3, <2>4, <2>5
  <1>9. \A v \in Page : ~(v < m) => e[v] = Absent
    OBVIOUS
  <1>10. DOMAIN e = Page /\ e = [v \in Page |-> e[v]]
    OBVIOUS
  <1> HIDE DEF e, rc
  <1>11. \A v \in Page : e[v] # Absent => v < m /\ e[v].pa = g[v] /\ e[v].w /\ v \in 0 .. m - 1
    BY <1>7, <1>8, <1>9
  <1>12. NewTable(p, e, Taken(g))
    <2>1. e \in [Page -> PTE \cup {Absent}]
      <3>1. \A v \in Page : e[v] \in PTE \cup {Absent}
        BY <1>8, <1>9
      <3> QED BY <1>10, <3>1
    <2>2. \A v, u \in Page : e[v] # Absent /\ e[u] # Absent /\ e[v].pa = e[u].pa => v = u
      BY <1>6, <1>11
    <2>3. \A v \in Page : e[v] # Absent => e[v].pa \in Taken(g) /\ e[v].w
      BY <1>6, <1>11
    <2> QED BY <2>1, <2>2, <2>3 DEF NewTable
  <1>13. \A f : Holds(e, f) => f \in free
    BY <1>6, <1>11 DEF Holds
  <1>14. \A f \in Taken(g) : Holds(e, f)
    <2> SUFFICES ASSUME NEW i \in 0 .. m - 1 PROVE Holds(e, g[i])
      BY <1>6
    <2>1. i \in Nat /\ i < m /\ i < NPages
      BY <1>4
    <2>2. i \in Page
      BY <1>4, <2>1
    <2> QED BY <1>8, <2>1, <2>2 DEF Holds
  <1>15. NewFrames(p, e, Taken(g), S)
    BY <1>4, <1>6, <1>13, <1>14 DEF NewFrames, old
  <1>16. \A f \in Taken(g) : f \notin S
    BY <1>4, <1>6
  <1>17. /\ rc = [f \in Frame |-> IF f \in Taken(g) THEN refcnt[f] + 1 ELSE refcnt[f]]
         /\ rc \in [Frame -> -2 .. 65]
    <2>1. rc = [f \in Frame |-> IF f \in Taken(g) THEN refcnt[f] + 1 ELSE refcnt[f]]
      <3>1. refcnt \in [Frame -> -2 .. 65]
        BY <1>1
      <3> QED BY <3>1, NoWrap DEF rc
    <2> QED BY <1>1, <2>1
  <1>18. NewCounts(Taken(g), S) /\ Released(rc, S) \subseteq Frame
    <2>1. /\ refcnt' = [f \in Frame |-> IF f \in S THEN rc[f] - 1 ELSE rc[f]]
          /\ \A f \in Frame : f \in Released(rc, S) <=> f \in S /\ rc[f] = 1
      BY Zenon, <1>2, <1>17, NoWrap DEF rc
    <2>2. Released(rc, S) \subseteq Frame
      BY <1>1 DEF Released
    <2>3. free' = (free \ Taken(g)) \cup Released(rc, S)
      BY Zenon, <1>2 DEF rc
    <2>4. refcnt' = [f \in Frame |-> IF f \in Taken(g) THEN refcnt[f] + 1
                                     ELSE IF f \in S THEN refcnt[f] - 1 ELSE refcnt[f]]
      BY <1>16, <1>17, <2>1
    <2>5. \A f \in Frame : f \in free' <=>
             (f \in free /\ f \notin Taken(g)) \/ (f \in S /\ refcnt[f] = 1)
      BY <1>16, <1>17, <2>1, <2>3
    <2>6. free' \subseteq Frame
      BY Zenon, <1>1, <2>2, <2>3 DEF TypeOK
    <2> QED BY <1>3, <2>2, <2>4, <2>5, <2>6 DEF NewCounts
  <1>19. /\ pt' \in [Proc -> [Page -> PTE \cup {Absent}]]
         /\ refcnt' \in [Frame -> -128 .. 127]
         /\ kpages' \subseteq Frame \ free'
         /\ Injective' /\ PrivateWritable'
         /\ \A f \in Frame : Tracked(f)'
    BY Zenon, <1>5, <1>12, <1>15, <1>18, Replace
  <1>20. NoStale' /\ tlb' = tlb
    BY Zenon, <1>1, <1>3 DEF J, TypeOK, NoStale
  <1>21. TypeOK'
    <2>1. Freed(content, Released(rc, S)) \in [Frame -> Value]
      BY Zenon, <1>1, ValueAssumption DEF TypeOK, Freed
    <2>2. content' = [f \in Frame |-> IF f \in Taken(g) THEN (IF f = g[t] THEN Zero ELSE x)
                                      ELSE Freed(content, Released(rc, S))[f]]
      BY Zenon, <1>2 DEF rc
    <2>3. content' \in [Frame -> Value]
      BY <2>1, <2>2, ValueAssumption
    <2>4. free' \subseteq Frame
      BY <1>18 DEF NewCounts
    <2>5. m \in 0 .. NPages
      BY <1>4
    <2>6. sz' \in [Proc -> 0 .. NPages]
      BY Zenon, <1>1, <1>3, <2>5 DEF TypeOK
    <2> QED BY Zenon, <1>1, <1>3, <1>19, <1>20, <2>3, <2>4, <2>6 DEF TypeOK
  <1>22. UnusedEmpty' /\ NoVmPanic'
    BY Zenon, <1>1, <1>3 DEF exec, Running, Live, J, TypeOK, UnusedEmpty, NoVmPanic
  <1>23. SizeOK'
    <2>1. pt'[p] = e /\ sz'[p] = m /\ \A q \in Proc \ {p} : pt'[q] = pt[q] /\ sz'[q] = sz[q]
      BY Zenon, <1>1, <1>3, <1>5 DEF TypeOK
    <2>2. \A v \in Page : e[v] # Absent <=> v < m
      BY Zenon, <1>8, <1>9
    <2> QED BY Zenon, <2>1, <2>2, SizeStep
  <1> QED BY <1>19, <1>20, <1>21, <1>22, <1>23 DEF J

(* pagefault(): a copy for one of several owners.                          *)
LEMMA FaultCopyStep ==
  ASSUME Counting, J, NEW p \in Proc, NEW v \in Page, state[p] = "LIVE", pagefault_copy(p, v),
         UNCHANGED <<state, sz, kfault, panicked, kpages>>
  PROVE  J'
  <1> DEFINE old == pt[p][v].pa
  <1>1. TypeOK /\ refcnt \in [Frame -> -1 .. 64]
    BY JFacts
  <1>2. /\ pt[p][v] # Absent /\ ~pt[p][v].w /\ refcnt[old] > 1
        /\ tlb' = [tlb EXCEPT ![p] = NoPages]
    BY DEF pagefault_copy, flush, Legal, Writable
  <1>3. PICK mem \in free :
          /\ content' = [content EXCEPT ![mem] = content[old]]
          /\ refcnt' = Incremented(Decremented(refcnt, {old}), {mem})
          /\ free' = free \ {mem}
          /\ pt' = [pt EXCEPT ![p][v] = NewPage(mem)]
    BY Zenon DEF pagefault_copy
  <1> DEFINE e == [pt[p] EXCEPT ![v] = NewPage(mem)]
  <1>4. /\ pt[p] \in [Page -> PTE \cup {Absent}]
        /\ \A u, w \in Page : pt[p][u] # Absent /\ pt[p][w] # Absent
                              /\ pt[p][u].pa = pt[p][w].pa => u = w
        /\ \A f \in free : ~Holds(pt[p], f)
        /\ \A u \in Page : pt[p][u] # Absent <=> u < sz[p]
    BY TableFacts
  <1>5. old \in Frame /\ mem \in Frame /\ old # mem
    BY Zenon, <1>1, <1>2, <1>4 DEF TypeOK, PTE, Holds
  <1>6. pt' = [pt EXCEPT ![p] = e]
    BY Zenon, <1>1, <1>3 DEF TypeOK
  <1>7. /\ e[v] \in PTE /\ e[v] # Absent /\ e[v].pa = mem /\ e[v].w
        /\ \A u \in Page \ {v} : e[u] = pt[p][u]
        /\ e \in [Page -> PTE \cup {Absent}]
    <2>1. e[v] = [pa |-> mem, w |-> TRUE, u |-> TRUE]
      BY <1>4 DEF NewPage
    <2>2. NewPage(mem) \in PTE
      BY <1>5 DEF NewPage, PTE
    <2>3. e[v] \in PTE
      BY <1>4, <2>2
    <2>4. \A u \in Page \ {v} : e[u] = pt[p][u]
      BY <1>4
    <2>5. e \in [Page -> PTE \cup {Absent}]
      BY <1>4, <2>2
    <2> HIDE DEF e
    <2>6. e[v] # Absent
      BY <2>3, FrameAssumption
    <2>7. e[v].pa = mem /\ e[v].w
      BY <2>1
    <2> QED BY Zenon, <2>3, <2>4, <2>5, <2>6, <2>7
  <1> HIDE DEF e
  <1>8. NewTable(p, e, {mem})
    <2>1. \A u \in Page : e[u] # Absent => e[u] = pt[p][u] \/ (e[u].pa \in {mem} /\ e[u].w)
      BY <1>7
    <2>2. ASSUME NEW u \in Page, NEW w \in Page, e[u] # Absent, e[w] # Absent, e[u].pa = e[w].pa
          PROVE  u = w
      <3>1. \A i \in Page \ {v} : e[i] # Absent => e[i].pa # mem
        BY <1>4, <1>7 DEF Holds
      <3>2. CASE u = v \/ w = v
        BY Zenon, <1>7, <2>2, <3>1, <3>2
      <3>3. CASE u # v /\ w # v
        BY <1>4, <1>7, <2>2, <3>3
      <3> QED BY <3>2, <3>3
    <2> QED BY <1>7, <2>1, <2>2 DEF NewTable
  <1>9. NewFrames(p, e, {mem}, {old})
    <2>1. Holds(pt[p], old) /\ Holds(e, mem)
      BY Zenon, <1>2, <1>7 DEF Holds
    <2>2. ~Holds(e, old)
      BY <1>2, <1>4, <1>5, <1>7 DEF Holds
    <2>3. \A f \in Frame \ {old} : Holds(pt[p], f) => Holds(e, f)
      BY <1>7 DEF Holds
    <2> QED BY Zenon, <2>1, <2>2, <2>3 DEF NewFrames
  <1> HIDE DEF old
  <1>10. NewCounts({mem}, {old})
    <2> DEFINE rc == Decremented(refcnt, {old})
    <2>1. rc = [f \in Frame |-> IF f \in {old} THEN refcnt[f] - 1 ELSE refcnt[f]]
      <3>1. refcnt \in [Frame -> -2 .. 65]
        BY <1>1
      <3> QED BY <3>1, NoWrap
    <2>2. rc \in [Frame -> -2 .. 65]
      BY <1>1, <2>1
    <2>3. refcnt' = [f \in Frame |-> IF f \in {mem} THEN rc[f] + 1 ELSE rc[f]]
      <3> HIDE DEF rc
      <3>1. refcnt' = Incremented(rc, {mem})
        BY <1>3 DEF rc
      <3> QED BY <2>2, <3>1, NoWrap
    <2> HIDE DEF rc
    <2>4. refcnt' = [f \in Frame |-> IF f \in {mem} THEN refcnt[f] + 1
                                     ELSE IF f \in {old} THEN refcnt[f] - 1 ELSE refcnt[f]]
      BY <1>5, <2>1, <2>3
    <2>5. free' \subseteq Frame
      BY Zenon, <1>1, <1>3 DEF TypeOK
    <2>6. refcnt[old] # 1
      BY <1>1, <1>2, <1>5
    <2> QED BY Zenon, <1>3, <2>4, <2>5, <2>6 DEF NewCounts
  <1>11. /\ pt' \in [Proc -> [Page -> PTE \cup {Absent}]]
         /\ refcnt' \in [Frame -> -128 .. 127]
         /\ kpages' \subseteq Frame \ free'
         /\ Injective' /\ PrivateWritable'
         /\ \A f \in Frame : Tracked(f)'
    BY Zenon, <1>6, <1>8, <1>9, <1>10, Replace
  <1>12. NoStale' /\ tlb' = tlb
    BY Zenon, <1>1, <1>2 DEF J, TypeOK, NoStale
  <1>13. TypeOK'
    <2>1. content' \in [Frame -> Value] /\ free' \subseteq Frame
      BY Zenon, <1>1, <1>3, <1>5 DEF TypeOK
    <2> QED BY Zenon, <1>1, <1>11, <1>12, <2>1 DEF TypeOK
  <1>14. UnusedEmpty' /\ NoVmPanic'
    BY Zenon DEF J, UnusedEmpty, NoVmPanic
  <1>15. SizeOK'
    <2>1. pt'[p] = e /\ \A q \in Proc \ {p} : pt'[q] = pt[q]
      BY Zenon, <1>1, <1>6 DEF TypeOK
    <2>2. \A u \in Page : e[u] # Absent <=> u < sz[p]
      BY <1>2, <1>4, <1>7
    <2> QED BY Zenon, <2>1, <2>2 DEF J, SizeOK, Mapped
  <1> QED BY <1>11, <1>12, <1>13, <1>14, <1>15 DEF J

(* pagefault(): the only owner, in place.                                  *)
LEMMA FaultOwnStep ==
  ASSUME Counting, J, NEW p \in Proc, NEW v \in Page, state[p] = "LIVE", pagefault_own(p, v),
         UNCHANGED <<state, sz, kfault, panicked, kpages>>
  PROVE  J'
  <1> DEFINE old == pt[p][v].pa
             e == [pt[p] EXCEPT ![v] = Protect(pt[p][v], TRUE)]
  <1>1. TypeOK /\ refcnt \in [Frame -> -1 .. 64] /\ PrivateWritable
    BY JFacts DEF J
  <1>2. /\ pt[p][v] # Absent /\ refcnt[old] = 1
        /\ tlb' = [tlb EXCEPT ![p] = NoPages]
        /\ pt' = [pt EXCEPT ![p][v] = Protect(pt[p][v], TRUE)]
        /\ UNCHANGED <<free, refcnt, content>>
    BY Zenon DEF pagefault_own, flush, Legal
  <1>3. /\ pt[p] \in [Page -> PTE \cup {Absent}]
        /\ \A u, w \in Page : pt[p][u] # Absent /\ pt[p][w] # Absent
                              /\ pt[p][u].pa = pt[p][w].pa => u = w
        /\ \A u \in Page : pt[p][u] # Absent <=> u < sz[p]
    BY TableFacts
  <1>4. old \in Frame /\ pt[p][v] \in PTE
    BY <1>2, <1>3 DEF PTE
  <1>5. pt' = [pt EXCEPT ![p] = e]
    BY Zenon, <1>1, <1>2 DEF TypeOK
  <1>6. /\ e \in [Page -> PTE \cup {Absent}] /\ e[v] # Absent /\ e[v].pa = old
        /\ \A u \in Page \ {v} : e[u] = pt[p][u]
    <2>1. Protect(pt[p][v], TRUE) \in PTE /\ Protect(pt[p][v], TRUE).pa = old
      BY Zenon, <1>4 DEF Protect, PTE
    <2>2. e[v] = Protect(pt[p][v], TRUE) /\ \A u \in Page \ {v} : e[u] = pt[p][u]
      BY Zenon, <1>3
    <2>3. e \in [Page -> PTE \cup {Absent}]
      BY Zenon, <1>3, <2>1
    <2>4. e[v] # Absent
      BY Zenon, <2>1, <2>2, FrameAssumption
    <2> QED BY Zenon, <2>1, <2>2, <2>3, <2>4
  <1> HIDE DEF e, old
  <1>7. pt'[p] = e /\ \A q \in Proc \ {p} : pt'[q] = pt[q]
    BY Zenon, <1>1, <1>5 DEF TypeOK
  <1>8. pt' \in [Proc -> [Page -> PTE \cup {Absent}]]
    BY Zenon, <1>1, <1>5, <1>6 DEF TypeOK
  <1>9. \A u \in Page : (e[u] # Absent <=> pt[p][u] # Absent) /\ (e[u] # Absent => e[u].pa = pt[p][u].pa)
    BY Zenon, <1>2, <1>6 DEF old
  <1>10. /\ \A q \in Proc : FramesOf(q, Page)' = FramesOf(q, Page)
         /\ Injective' /\ SizeOK'
    <2>1. \A r \in Proc : SameShape(pt[r], pt'[r])
      BY <1>7, <1>9 DEF SameShape
    <2> QED BY <2>1, SameShapes
  <1>11. \A q \in Proc : Holds(pt[q], old) => q = p
    <2>1. Cardinality(Owners(old)) = 1 /\ p \in Owners(old)
      BY Zenon, <1>2, <1>4 DEF J, Tracked, Counted, Owners, FramesOf, Mapped, old
    <2>2. Owners(old) \ {p} = {}
      <3>1. \E q : Owners(old) = {q}
        BY <2>1, OwnersFinite, SoleMember
      <3> QED BY <2>1, <3>1
    <2> QED BY <2>2 DEF Owners, FramesOf, Mapped, Holds
  <1>12. PrivateWritable'
    <2> SUFFICES ASSUME NEW a \in Proc, NEW b \in Proc, NEW i \in Page, NEW j \in Page,
                        pt'[a][i] # Absent, pt'[a][i].w,
                        pt'[b][j] # Absent, pt'[b][j].pa = pt'[a][i].pa
                 PROVE  a = b /\ i = j
      BY PrivateTables
    <2>1. pt[a][i] # Absent /\ pt[b][j] # Absent /\ pt[b][j].pa = pt[a][i].pa
      BY Zenon, <1>7, <1>9
    <2>2. CASE a = p /\ i = v
      <3>1. Holds(pt[b], old)
        BY <2>1, <2>2 DEF Holds, old
      <3> QED BY Zenon, <1>3, <1>11, <2>1, <2>2, <3>1
    <2>3. CASE ~(a = p /\ i = v)
      <3>1. pt[a][i].w
        BY <1>6, <1>7, <2>3
      <3> QED BY <1>1, <2>1, <3>1 DEF PrivateWritable
    <2> QED BY <2>2, <2>3
  <1>13. ASSUME NEW f \in Frame PROVE Tracked(f)'
    <2>1. refcnt[f] \in Int /\ Tracked(f) /\ refcnt'[f] = refcnt[f]
      BY <1>1, <1>2 DEF J
    <2>2. refcnt[f] > 0 \/ (WritableWhereMapped(f) => WritableWhereMapped(f)')
      <3>1. CASE f = old
        BY <1>2, <3>1
      <3>2. CASE f # old
        <4>1. \A u \in Page : e[u] # Absent /\ e[u].pa = f => e[u] = pt[p][u]
          BY <1>6, <3>2
        <4>2. \A r \in Proc : \A u \in Page :
                pt'[r][u] # Absent /\ pt'[r][u].pa = f => pt'[r][u] = pt[r][u]
          BY <1>7, <4>1
        <4> QED BY Zenon, <4>2, KeepWritable
      <3> QED BY <3>1, <3>2
    <2> QED BY <1>2, <1>10, <2>1, <2>2, Keep
  <1>15. NoStale' /\ tlb' = tlb
    BY Zenon, <1>1, <1>2 DEF J, TypeOK, NoStale
  <1>16. TypeOK'
    BY Zenon, <1>1, <1>2, <1>8, <1>15 DEF TypeOK
  <1>17. UnusedEmpty' /\ NoVmPanic'
    BY Zenon DEF J, UnusedEmpty, NoVmPanic
  <1> QED BY <1>10, <1>12, <1>13, <1>15, <1>16, <1>17 DEF J

-----------------------------------------------------------------------------
(* fork(): copyuvm into fresh frames, which are not counted.               *)
LEMMA ForkStep ==
  ASSUME Counting, J, ~MixForks, NEW p \in Proc, NEW q \in Proc, fork(p, q)
  PROVE  J'
  <1> DEFINE k == sz[p]
  <1>1. TypeOK /\ refcnt \in [Frame -> -1 .. 64] /\ PrivateWritable
    BY JFacts DEF J
  <1>2. PICK g \in kalloc(k) :
          /\ pt' = [pt EXCEPT ![q] = [v \in Page |->
               IF v < k THEN [pa |-> g[v], w |-> pt[p][v].w, u |-> pt[p][v].u] ELSE Absent]]
          /\ content' = Copied(p, g)
          /\ free' = free \ Taken(g)
    BY Zenon DEF fork
  <1>3. /\ sz' = [sz EXCEPT ![q] = k]
        /\ state' = [state EXCEPT ![q] = "LIVE"]
        /\ state[q] = "UNUSED" /\ sz[q] = 0
        /\ UNCHANGED <<tlb, kfault, refcnt, panicked, kpages>>
        /\ \A v \in Page : pt[p][v] # Absent => pt[p][v].w
    BY DEF fork, forks, Unmixed, J, UnusedEmpty, Mapped
  <1> DEFINE e == [v \in Page |->
               IF v < k THEN [pa |-> g[v], w |-> pt[p][v].w, u |-> pt[p][v].u] ELSE Absent]
  <1>4. /\ k \in Nat /\ k <= NPages /\ NPages \in Nat
        /\ pt[p] \in [Page -> PTE \cup {Absent}]
        /\ \A v \in Page : v \in Nat /\ v < NPages
        /\ \A v \in Page : pt[p][v] # Absent <=> v < k
        /\ \A v \in Page : pt[q][v] = Absent
    <2>1. \A v \in Page : pt[q][v] # Absent <=> v < 0
      BY Zenon, <1>3, TableFacts
    <2>2. k \in Nat /\ k <= NPages /\ NPages \in Nat
      BY TableFacts
    <2>3. \A v \in Page : v \in Nat /\ v < NPages
      BY Zenon, TableFacts
    <2>4. /\ pt[p] \in [Page -> PTE \cup {Absent}]
          /\ \A v \in Page : pt[p][v] # Absent <=> v < k
      BY TableFacts
    <2>5. \A v \in Page : pt[q][v] = Absent
      BY <2>1, <2>3
    <2> QED BY <2>2, <2>3, <2>4, <2>5
  <1>5. /\ g \in [0 .. k - 1 -> free]
        /\ \A i, j \in 0 .. k - 1 : g[i] = g[j] => i = j
        /\ \A i \in 0 .. k - 1 : g[i] \in Frame /\ g[i] \in free
        /\ Taken(g) \subseteq free
        /\ \A f : f \in Taken(g) <=> \E i \in 0 .. k - 1 : f = g[i]
    <2>1. k \in Nat /\ g \in kalloc(k) /\ free \subseteq Frame
      BY Zenon, <1>1, <1>4 DEF TypeOK
    <2> HIDE DEF k
    <2> QED BY <2>1, KallocFacts
  <1>6. pt' = [pt EXCEPT ![q] = e]
    BY <1>2
  <1> HIDE DEF k
  <1>7. \A v \in Page : v < k =>
          v \in 0 .. k - 1 /\ e[v] \in PTE /\ e[v] # Absent /\ e[v].pa = g[v] /\ e[v].w
    <2> SUFFICES ASSUME NEW v \in Page, v < k
                 PROVE  v \in 0 .. k - 1 /\ e[v] \in PTE /\ e[v] # Absent /\ e[v].pa = g[v] /\ e[v].w
      BY Zenon
    <2>1. v \in 0 .. k - 1
      BY <1>4
    <2>2. e[v] = [pa |-> g[v], w |-> pt[p][v].w, u |-> pt[p][v].u]
      BY Zenon
    <2> HIDE DEF e
    <2>3. pt[p][v] \in PTE /\ pt[p][v].w
      BY <1>3, <1>4
    <2>4. g[v] \in Frame
      BY <1>5, <2>1
    <2>5. e[v] \in PTE
      BY <2>2, <2>3, <2>4 DEF PTE
    <2>6. e[v] # Absent
      BY <2>5, FrameAssumption
    <2>7. e[v].pa = g[v] /\ e[v].w
      BY <2>2, <2>3
    <2> QED BY Zenon, <2>1, <2>5, <2>6, <2>7
  <1>8. \A v \in Page : ~(v < k) => e[v] = Absent
    OBVIOUS
  <1>9. DOMAIN e = Page /\ e = [v \in Page |-> e[v]]
    OBVIOUS
  <1> HIDE DEF e
  <1>10. e \in [Page -> PTE \cup {Absent}]
    <2>1. \A v \in Page : e[v] \in PTE \cup {Absent}
      BY <1>7, <1>8
    <2> QED BY <1>9, <2>1
  <1>11. pt'[q] = e /\ \A r \in Proc \ {q} : pt'[r] = pt[r]
    BY Zenon, <1>1, <1>6 DEF TypeOK
  <1>12. pt' \in [Proc -> [Page -> PTE \cup {Absent}]]
    BY Zenon, <1>1, <1>6, <1>10 DEF TypeOK
  <1>13. \A f \in free : \A r \in Proc : ~Holds(pt[r], f)
    BY TableFacts
  <1>14. \A v \in Page : e[v] # Absent => e[v].pa = g[v] /\ e[v].w /\ v \in 0 .. k - 1 /\ e[v].pa \in Taken(g)
    BY <1>5, <1>7, <1>8
  <1>15. \A f : Holds(e, f) <=> f \in Taken(g)
    <2>1. \A f : Holds(e, f) => f \in Taken(g)
      BY <1>14 DEF Holds
    <2>2. ASSUME NEW i \in 0 .. k - 1 PROVE Holds(e, g[i])
      <3>1. i \in Page /\ i < k
        BY <1>4 DEF Page
      <3> QED BY <1>7, <3>1 DEF Holds
    <2> QED BY <1>5, <2>1, <2>2
  <1>16. PrivateWritable'
    <2> SUFFICES ASSUME NEW a \in Proc, NEW b \in Proc, NEW i \in Page, NEW j \in Page,
                        pt'[a][i] # Absent, pt'[a][i].w,
                        pt'[b][j] # Absent, pt'[b][j].pa = pt'[a][i].pa
                 PROVE  a = b /\ i = j
      BY PrivateTables
    <2>0. \A r \in Proc \ {q} : \A u \in Page : pt[r][u] # Absent => pt[r][u].pa \notin Taken(g)
      BY <1>5, <1>13 DEF Holds
    <2>1. CASE a = q /\ b = q
      <3>1. pt'[a][i].pa = g[i] /\ pt'[b][j].pa = g[j] /\ i \in 0 .. k - 1 /\ j \in 0 .. k - 1
        BY Zenon, <1>11, <1>14, <2>1
      <3> QED BY Zenon, <1>5, <2>1, <3>1
    <2>2. CASE a = q /\ b # q
      <3>1. pt'[a][i].pa \in Taken(g) /\ pt'[b][j] = pt[b][j]
        BY Zenon, <1>11, <1>14, <2>2
      <3> QED BY Zenon, <2>0, <2>2, <3>1
    <2>3. CASE a # q /\ b = q
      <3>1. pt'[b][j].pa \in Taken(g) /\ pt'[a][i] = pt[a][i]
        BY Zenon, <1>11, <1>14, <2>3
      <3> QED BY Zenon, <2>0, <2>3, <3>1
    <2>4. CASE a # q /\ b # q
      BY <1>1, <1>11, <2>4 DEF PrivateWritable
    <2> QED BY <2>1, <2>2, <2>3, <2>4
  <1>17. ASSUME NEW f \in Frame PROVE Tracked(f)'
    <2>1. refcnt[f] \in Int /\ Tracked(f) /\ refcnt'[f] = refcnt[f]
      BY <1>1, <1>3 DEF J
    <2>2. \A r \in Proc \ {q} : FramesOf(r, Page)' = FramesOf(r, Page)
      BY <1>11 DEF FramesOf, Mapped
    <2>3. f \in FramesOf(q, Page)' <=> f \in Taken(g)
      BY <1>11, <1>15, FrameTables
    <2>4. f \notin FramesOf(q, Page)
      BY Zenon, <1>4 DEF FramesOf, Mapped
    <2>5. CASE f \in Taken(g)
      <3>1. WritableWhereMapped(f)'
        BY <1>5, <1>11, <1>13, <1>14, <2>5 DEF WritableWhereMapped, Mapped, Holds
      <3>2. f \notin free' \cup kpages'
        BY Zenon, <1>1, <1>2, <1>3, <1>5, <2>5 DEF TypeOK
      <3>3. "fork" \in Forks
        BY DEF fork, forks
      <3> QED BY <1>5, <2>1, <2>2, <2>3, <2>5, <3>1, <3>2, <3>3, PlainGain
    <2>6. CASE f \notin Taken(g)
      <3>1. WritableWhereMapped(f) => WritableWhereMapped(f)'
        <4>1. \A r \in Proc : \A u \in Page :
                pt'[r][u] # Absent /\ pt'[r][u].pa = f => pt'[r][u] = pt[r][u]
          BY <1>11, <1>14, <2>6
        <4> QED BY <4>1, KeepWritable
      <3>2. f \in free' \cup kpages' <=> f \in free \cup kpages
        BY <1>2, <1>3, <2>6
      <3> QED BY Zenon, <2>1, <2>2, <2>3, <2>4, <2>6, <3>1, <3>2, Keep
    <2> QED BY <2>5, <2>6
  <1>18. Injective'
    <2>1. OneToOne(e)
      BY <1>5, <1>14 DEF OneToOne
    <2> QED BY <1>11, <2>1, InjectiveTables DEF J
  <1>19. SizeOK'
    <2>1. sz'[q] = k /\ \A r \in Proc \ {q} : sz'[r] = sz[r]
      BY Zenon, <1>1, <1>3 DEF TypeOK
    <2>2. \A v \in Page : e[v] # Absent <=> v < k
      BY <1>7, <1>8
    <2>3. \A r \in Proc : \A v \in Page : pt'[r][v] # Absent <=> v < sz'[r]
      BY <1>11, <2>1, <2>2, SizeTables DEF J
    <2> QED BY <2>3, SizeTables
  <1>20. NoStale' /\ NoVmPanic'
    BY Zenon, <1>3 DEF J, NoStale, NoVmPanic
  <1>21. TypeOK'
    <2>1. content' \in [Frame -> Value]
      <3>1. \A f \in Taken(g) : content[pt[p][CHOOSE v \in DOMAIN g : g[v] = f].pa] \in Value
        <4> SUFFICES ASSUME NEW f \in Taken(g)
                     PROVE  content[pt[p][CHOOSE v \in DOMAIN g : g[v] = f].pa] \in Value
          OBVIOUS
        <4>1. PICK i \in 0 .. k - 1 : f = g[i]
          BY <1>5
        <4>2. (CHOOSE v \in DOMAIN g : g[v] = f) = i
          BY <1>5, <4>1
        <4>3. i \in Page /\ i < k
          BY <1>4 DEF Page
        <4>4. pt[p][i].pa \in Frame
          BY <1>4, <4>3 DEF PTE
        <4> QED BY Zenon, <1>1, <4>2, <4>4 DEF TypeOK
      <3> QED BY Zenon, <1>1, <1>2, <3>1 DEF Copied, TypeOK
    <2>2. sz' \in [Proc -> 0 .. NPages] /\ state' \in [Proc -> {"UNUSED", "LIVE", "ZOMBIE"}]
      <3>1. k \in 0 .. NPages
        BY <1>4
      <3> QED BY Zenon, <1>1, <1>3, <3>1 DEF TypeOK
    <2>3. free' \subseteq Frame /\ kpages' \subseteq Frame \ free'
      BY Zenon, <1>1, <1>2, <1>3 DEF TypeOK
    <2> QED BY Zenon, <1>1, <1>3, <1>12, <2>1, <2>2, <2>3 DEF TypeOK
  <1>22. UnusedEmpty'
    BY Zenon, <1>1, <1>3 DEF J, TypeOK, UnusedEmpty
  <1> QED BY <1>16, <1>17, <1>18, <1>19, <1>20, <1>21, <1>22 DEF J
=============================================================================
