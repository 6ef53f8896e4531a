-------------------------- MODULE CowMemoryProofs --------------------------
(***************************************************************************)
(* IInv is an invariant of CowMemory for every number of processes, pages  *)
(* and frames, as long as no lineage of processes mixes fork and forkcow   *)
(* and none shrinks to nothing; and then CowMemory implements AddrSpace:   *)
(* sharing frames copy-on-write cannot be told from copying them.          *)
(***************************************************************************)
EXTENDS CowMemoryLemmas

(* The panics of vm.c are not enabled: every page below sz is there, a     *)
(* fault is never on a page that is writable and accessible, and a page    *)
(* that is not writable has a positive counter.                            *)
LEMMA NoPanics ==
  ASSUME Counting, J, NEW p \in Proc
  PROVE  /\ ~NotPresent(p)
         /\ \A v \in Page : Faults(p, v) \/ ~Writable(p, v) => ~pagefault_panics(p, v)
  <1>1. ~NotPresent(p)
    BY TableFacts DEF NotPresent
  <1>2. ASSUME NEW v \in Page, Faults(p, v) \/ ~Writable(p, v), pagefault_panics(p, v)
        PROVE  FALSE
    <2>1. pt[p][v] # Absent /\ pt[p][v].u
      BY Zenon, <1>2 DEF pagefault_panics, Legal
    <2>2. Trans(p, v) \subseteq {pt[p][v]}
      BY DEF J, NoStale, Trans, NoPages
    <2>3. ~Writable(p, v)
      BY <1>2, <2>1, <2>2 DEF Faults, Writable
    <2>4. ~pt[p][v].w /\ refcnt[pt[p][v].pa] < 1
      BY Zenon, <1>2, <2>1, <2>3 DEF pagefault_panics, Writable
    <2> DEFINE f == pt[p][v].pa
    <2>5. f \in Frame /\ p \in Owners(f) /\ ~WritableWhereMapped(f)
      <3>1. f \in Frame
        BY <2>1, TableFacts DEF PTE
      <3>2. p \in Owners(f)
        BY <2>1 DEF Owners, FramesOf, Mapped
      <3>3. ~WritableWhereMapped(f)
        BY <2>1, <2>4 DEF WritableWhereMapped, Mapped
      <3> QED BY <3>1, <3>2, <3>3
    <2> HIDE DEF f
    <2>6. Cardinality(Owners(f)) \in Nat /\ Cardinality(Owners(f)) # 0
      BY <2>5, OwnersFinite, CountEmpty
    <2>7. refcnt[f] = Cardinality(Owners(f))
      BY <2>5 DEF J, Tracked, Counted
    <2> QED BY <2>4, <2>6, <2>7 DEF f
  <1> QED BY <1>1, <1>2

(* copyuvm out of frames: the copies made so far are abandoned at -1.      *)
LEMMA ForkBadStep ==
  ASSUME Counting, J, NEW p \in Proc, fork_bad(p)
  PROVE  J'
  <1>1. TypeOK /\ refcnt \in [Frame -> -1 .. 64]
    BY JFacts
  <1>0. ~NotPresent(p)
    BY NoPanics
  <1>2. /\ free' = {}
        /\ UNCHANGED <<state, sz, pt, tlb, kfault, panicked, kpages>>
    BY Zenon, <1>0 DEF fork_bad
  <1>3. PICK k \in 0 .. sz[p] - 1 : \E g \in kalloc(k) :
          content' = Copied(p, g) /\ refcnt' = Decremented(refcnt, Taken(g))
    BY Zenon, <1>0 DEF fork_bad
  <1>4. PICK g \in kalloc(k) :
          content' = Copied(p, g) /\ refcnt' = Decremented(refcnt, Taken(g))
    BY <1>3
  <1>5. /\ sz[p] \in Nat /\ sz[p] <= NPages /\ NPages \in Nat
        /\ pt[p] \in [Page -> PTE \cup {Absent}]
        /\ \A v \in Page : pt[p][v] # Absent <=> v < sz[p]
    BY TableFacts
  <1>6. /\ g \in [0 .. k - 1 -> free]
        /\ \A i, j \in 0 .. k - 1 : g[i] = g[j] => i = j
        /\ Taken(g) \subseteq free
        /\ \A f : f \in Taken(g) <=> \E i \in 0 .. k - 1 : f = g[i]
    <2>1. k \in Nat
      BY <1>5
    <2> QED BY Zenon, <1>1, <2>1, KallocFacts DEF TypeOK
  <1>7. refcnt' = [f \in Frame |-> IF f \in Taken(g) THEN refcnt[f] - 1 ELSE refcnt[f]]
    <2>1. refcnt \in [Frame -> -2 .. 65]
      BY <1>1
    <2> QED BY <1>4, <2>1, NoWrap
  <1>8. content' \in [Frame -> Value]
    <2>1. \A f \in Taken(g) : content[pt[p][CHOOSE v \in DOMAIN g : g[v] = f].pa] \in Value
      <3> SUFFICES ASSUME NEW f \in Taken(g)
                   PROVE  content[pt[p][CHOOSE v \in DOMAIN g : g[v] = f].pa] \in Value
        OBVIOUS
      <3>1. PICK i \in 0 .. k - 1 : f = g[i]
        BY <1>6
      <3>2. (CHOOSE v \in DOMAIN g : g[v] = f) = i
        BY <1>6, <3>1
      <3>3. i \in Page /\ i < sz[p]
        BY <1>5 DEF Page
      <3>4. pt[p][i].pa \in Frame
        BY <1>5, <3>3 DEF PTE
      <3> QED BY Zenon, <1>1, <3>2, <3>4 DEF TypeOK
    <2> QED BY Zenon, <1>1, <1>4, <2>1 DEF Copied, TypeOK
  <1>9. TypeOK'
    <2>1. \A f \in Frame : refcnt'[f] \in -128 .. 127
      BY <1>1, <1>7
    <2>2. refcnt' \in [Frame -> -128 .. 127]
      BY <1>7, <2>1
    <2> QED BY Zenon, <1>1, <1>2, <1>8, <2>2 DEF TypeOK
  <1>10. ASSUME NEW f \in Frame PROVE Tracked(f)'
    <2>1. Owners(f)' = Owners(f) /\ (WritableWhereMapped(f)' <=> WritableWhereMapped(f))
      BY <1>2 DEF Owners, FramesOf, Mapped, WritableWhereMapped
    <2>2. Tracked(f) /\ f \notin free'
      BY <1>2 DEF J
    <2>5. Accounted(f)'
      BY Zenon DEF fork_bad, forks, Accounted
    <2>3. CASE f \in Taken(g)
      <3>1. f \notin kpages /\ Owners(f) = {} /\ refcnt[f] = 0
        BY Zenon, <1>1, <1>6, <2>2, <2>3 DEF TypeOK, Tracked
      <3>2. refcnt'[f] = -1
        BY <1>7, <2>3, <3>1
      <3> QED BY <1>2, <2>1, <2>2, <2>5, <3>1, <3>2 DEF Tracked, Counted
    <2>4. CASE f \notin Taken(g)
      <3>1. refcnt'[f] = refcnt[f]
        BY <1>7, <2>4
      <3> QED BY <1>2, <2>1, <2>2, <2>5, <3>1 DEF Tracked, Counted
    <2> QED BY <2>3, <2>4
  <1>11. NoStale' /\ UnusedEmpty' /\ Injective' /\ SizeOK' /\ PrivateWritable' /\ NoVmPanic'
    <2>1. NoStale' /\ UnusedEmpty' /\ NoVmPanic'
      BY Zenon, <1>2 DEF J, NoStale, UnusedEmpty, NoVmPanic
    <2>2. Injective' /\ SizeOK'
      BY <1>2 DEF J, Injective, SizeOK, Mapped
    <2>3. PrivateWritable'
      <3>1. PrivateWritable /\ pt' = pt
        BY <1>2 DEF J
      <3> QED BY <3>1 DEF PrivateWritable
    <2> QED BY <2>1, <2>2, <2>3
  <1> QED BY <1>9, <1>10, <1>11 DEF J

(* What write-protecting the pages below k leaves alone.                   *)
LEMMA ReadOnlyFacts ==
  ASSUME J, NEW p \in Proc, NEW k \in Nat
  PROVE  /\ ReadOnly(p, k) \in [Page -> PTE \cup {Absent}]
         /\ \A v \in Page : /\ ReadOnly(p, k)[v] # Absent <=> pt[p][v] # Absent
                            /\ pt[p][v] # Absent => ReadOnly(p, k)[v].pa = pt[p][v].pa
                            /\ pt[p][v] # Absent /\ v < k => ~ReadOnly(p, k)[v].w
                            /\ ~(v < k) => ReadOnly(p, k)[v] = pt[p][v]
  <1>1. pt[p] \in [Page -> PTE \cup {Absent}]
    BY TableFacts
  <1> DEFINE e == ReadOnly(p, k)
  <1>2. \A v \in Page : e[v] = IF v < k /\ pt[p][v] # Absent THEN Protect(pt[p][v], FALSE) ELSE pt[p][v]
    BY DEF ReadOnly, Mapped
  <1>3. DOMAIN e = Page /\ e = [v \in Page |-> e[v]]
    BY DEF ReadOnly
  <1> HIDE DEF e
  <1>4. ASSUME NEW v \in Page
        PROVE  /\ e[v] \in PTE \cup {Absent}
               /\ e[v] # Absent <=> pt[p][v] # Absent
               /\ pt[p][v] # Absent => e[v].pa = pt[p][v].pa
               /\ pt[p][v] # Absent /\ v < k => ~e[v].w
               /\ ~(v < k) => e[v] = pt[p][v]
    <2>1. CASE v < k /\ pt[p][v] # Absent
      <3>1. e[v] = [pa |-> pt[p][v].pa, w |-> FALSE, u |-> pt[p][v].u]
        BY <1>2, <2>1 DEF Protect
      <3>2. pt[p][v] \in PTE
        BY <1>1, <2>1
      <3>3. e[v] \in PTE
        BY <3>1, <3>2 DEF PTE
      <3>4. e[v].pa = pt[p][v].pa /\ ~e[v].w
        BY <3>1
      <3> QED BY <2>1, <3>3, <3>4, FrameAssumption
    <2>2. CASE ~(v < k /\ pt[p][v] # Absent)
      BY Zenon, <1>1, <1>2, <2>2
    <2> QED BY <2>1, <2>2
  <1>5. e \in [Page -> PTE \cup {Absent}]
    BY <1>3, <1>4
  <1> QED BY <1>4, <1>5 DEF e

(* copyuvmcow out of frames: the parent is left write-protected.           *)
LEMMA ForkcowBadStep ==
  ASSUME Counting, J, ~MixForks, NEW p \in Proc, forkcow_bad(p)
  PROVE  J'
  <1>1. TypeOK /\ refcnt \in [Frame -> -1 .. 64] /\ PrivateWritable
    BY JFacts DEF J
  <1>0. ~NotPresent(p)
    BY NoPanics
  <1>2. PICK k \in 0 .. sz[p] - 1 :
          /\ pt' = [pt EXCEPT ![p] = ReadOnly(p, k + 1)]
          /\ refcnt' = Decremented(Incremented(refcnt, FramesOf(p, 0 .. k - 1)), FramesOf(p, 0 .. k - 1))
    BY <1>0 DEF forkcow_bad
  <1>3. /\ tlb' = [tlb EXCEPT ![p] = NoPages]
        /\ UNCHANGED <<state, sz, kfault, free, content, panicked, kpages>>
        /\ \A f \in FramesOf(p, Page) : refcnt[f] > 0
    BY <1>0 DEF forkcow_bad, flush, forks, Unmixed
  <1>4. /\ \A v \in Page : v \in Nat /\ (pt[p][v] # Absent <=> v < sz[p])
        /\ \A v, u \in Page : pt[p][v] # Absent /\ pt[p][u] # Absent
                              /\ pt[p][v].pa = pt[p][u].pa => v = u
        /\ \A f : f \in FramesOf(p, Page) <=> Holds(pt[p], f)
        /\ sz[p] \in Nat
    BY TableFacts
  <1> DEFINE e == ReadOnly(p, k + 1)
  <1>5. /\ e \in [Page -> PTE \cup {Absent}]
        /\ \A v \in Page : /\ e[v] # Absent <=> pt[p][v] # Absent
                           /\ pt[p][v] # Absent => e[v].pa = pt[p][v].pa
                           /\ pt[p][v] # Absent /\ v < k + 1 => ~e[v].w
                           /\ ~(v < k + 1) => e[v] = pt[p][v]
    <2>1. k + 1 \in Nat
      BY <1>4
    <2> QED BY <2>1, ReadOnlyFacts
  <1> HIDE DEF e
  <1>6. /\ pt'[p] = e /\ \A q \in Proc \ {p} : pt'[q] = pt[q]
        /\ pt' \in [Proc -> [Page -> PTE \cup {Absent}]]
    BY Zenon, <1>1, <1>2, <1>5 DEF TypeOK, e
  <1>7. refcnt' = refcnt
    <2> DEFINE S == FramesOf(p, 0 .. k - 1)
               rc == Incremented(refcnt, S)
    <2>1. refcnt' = Decremented(rc, S)
      BY <1>2
    <2> HIDE DEF S
    <2>2. rc = [f \in Frame |-> IF f \in S THEN refcnt[f] + 1 ELSE refcnt[f]]
      <3>1. refcnt \in [Frame -> -2 .. 65]
        BY <1>1
      <3> QED BY <3>1, NoWrap
    <2> HIDE DEF rc
    <2>3. rc \in [Frame -> -2 .. 65]
      BY <1>1, <2>2
    <2>4. refcnt' = [f \in Frame |-> IF f \in S THEN rc[f] - 1 ELSE rc[f]]
      BY <2>1, <2>3, NoWrap
    <2> QED BY <1>1, <2>2, <2>4
  <1>8. /\ \A q \in Proc : FramesOf(q, Page)' = FramesOf(q, Page)
        /\ Injective' /\ SizeOK'
    <2>1. SameShape(pt[p], e)
      BY <1>5 DEF SameShape
    <2>2. \A r \in Proc : SameShape(pt[r], pt[r])
      BY DEF SameShape
    <2>3. \A r \in Proc : SameShape(pt[r], pt'[r])
      BY <1>6, <2>1, <2>2
    <2> QED BY <1>3, <2>3, SameShapes
  <1>9. PrivateWritable'
    <2>1. \A q \in Proc, v \in Page :
             /\ pt'[q][v] # Absent <=> pt[q][v] # Absent
             /\ pt[q][v] # Absent => pt'[q][v].pa = pt[q][v].pa
             /\ pt[q][v] # Absent /\ pt'[q][v].w => pt[q][v].w
      BY <1>4, <1>5, <1>6
    <2> SUFFICES ASSUME NEW a \in Proc, NEW b \in Proc, NEW i \in Page, NEW j \in Page,
                        pt'[a][i] # Absent, pt'[a][i].w,
                        pt'[b][j] # Absent, pt'[b][j].pa = pt'[a][i].pa
                 PROVE  a = b /\ i = j
      BY PrivateTables
    <2>2. /\ pt[a][i] # Absent /\ pt[a][i].w
          /\ pt[b][j] # Absent /\ pt[b][j].pa = pt[a][i].pa
      BY <2>1
    <2> QED BY <1>1, <2>2 DEF PrivateWritable
  <1>10. ASSUME NEW f \in Frame PROVE Tracked(f)'
    <2>1. refcnt[f] \in Int /\ Tracked(f) /\ refcnt'[f] = refcnt[f]
      BY <1>1, <1>7 DEF J
    <2>2. refcnt[f] > 0 \/ (WritableWhereMapped(f) => WritableWhereMapped(f)')
      <3>1. CASE Holds(pt[p], f)
        BY <1>3, <1>4, <3>1
      <3>2. CASE ~Holds(pt[p], f)
        <4>1. \A u \in Page : ~(e[u] # Absent /\ e[u].pa = f)
          BY <1>5, <3>2 DEF Holds
        <4>2. \A r \in Proc : \A u \in Page :
                pt'[r][u] # Absent /\ pt'[r][u].pa = f => pt'[r][u] = pt[r][u]
          BY <1>6, <4>1
        <4> QED BY <4>2, KeepWritable
      <3> QED BY <3>1, <3>2
    <2> QED BY <1>3, <1>8, <2>1, <2>2, Keep
  <1>13. NoStale' /\ tlb' = tlb
    BY Zenon, <1>1, <1>3 DEF J, TypeOK, NoStale
  <1>14. TypeOK'
    BY Zenon, <1>1, <1>3, <1>6, <1>7, <1>13 DEF TypeOK
  <1>15. UnusedEmpty' /\ NoVmPanic'
    BY Zenon, <1>3 DEF J, UnusedEmpty, NoVmPanic
  <1> QED BY <1>8, <1>9, <1>10, <1>13, <1>14, <1>15 DEF J

(* forkcow(): copyuvmcow.                                                  *)
LEMMA ForkcowStep ==
  ASSUME Counting, J, ~MixForks, NEW p \in Proc, NEW q \in Proc, forkcow(p, q)
  PROVE  J'
  <1> DEFINE e == ReadOnly(p, sz[p])
             S == FramesOf(p, Page)
  <1>1. TypeOK /\ refcnt \in [Frame -> -1 .. 64] /\ PrivateWritable /\ S \subseteq Frame
    BY JFacts DEF J
  <1>2. /\ state[q] = "UNUSED" /\ state[p] = "LIVE" /\ sz[q] = 0
        /\ pt' = [pt EXCEPT ![p] = e, ![q] = e]
        /\ refcnt' = Incremented(refcnt, S)
        /\ sz' = [sz EXCEPT ![q] = sz[p]]
        /\ state' = [state EXCEPT ![q] = "LIVE"]
        /\ tlb' = [tlb EXCEPT ![p] = NoPages]
        /\ UNCHANGED <<kfault, free, content, panicked, kpages>>
    BY DEF forkcow, flush, forks, Running, Live, J, UnusedEmpty
  <1>3. \A f \in S : refcnt[f] > 0
    BY DEF forkcow, forks, Unmixed
  <1>4. /\ \A v \in Page : v \in Nat /\ (pt[p][v] # Absent <=> v < sz[p])
        /\ \A v, u \in Page : pt[p][v] # Absent /\ pt[p][u] # Absent
                              /\ pt[p][v].pa = pt[p][u].pa => v = u
        /\ \A f : f \in S <=> Holds(pt[p], f)
        /\ \A v \in Page : pt[q][v] = Absent
        /\ sz[p] \in Nat
    <2>1. \A v \in Page : pt[q][v] # Absent <=> v < 0
      BY <1>2, TableFacts
    <2>2. \A v \in Page : v \in Nat
      BY TableFacts
    <2>3. \A v \in Page : pt[q][v] = Absent
      BY <2>1, <2>2
    <2> QED BY <2>3, TableFacts
  <1>5. /\ e \in [Page -> PTE \cup {Absent}]
        /\ \A v \in Page : /\ e[v] # Absent <=> pt[p][v] # Absent
                           /\ pt[p][v] # Absent => e[v].pa = pt[p][v].pa /\ ~e[v].w
    <2>1. /\ e \in [Page -> PTE \cup {Absent}]
          /\ \A v \in Page : /\ e[v] # Absent <=> pt[p][v] # Absent
                             /\ pt[p][v] # Absent => e[v].pa = pt[p][v].pa
                             /\ pt[p][v] # Absent /\ v < sz[p] => ~e[v].w
      BY <1>4, ReadOnlyFacts
    <2> HIDE DEF e
    <2> QED BY <1>4, <2>1
  <1> HIDE DEF e, S
  <1>6. /\ pt'[p] = e /\ pt'[q] = e /\ \A r \in Proc \ {p, q} : pt'[r] = pt[r]
        /\ pt' \in [Proc -> [Page -> PTE \cup {Absent}]]
    BY Zenon, <1>1, <1>2, <1>5 DEF TypeOK
  <1>7. refcnt' = [f \in Frame |-> IF f \in S THEN refcnt[f] + 1 ELSE refcnt[f]]
    <2>1. refcnt \in [Frame -> -2 .. 65]
      BY <1>1
    <2> QED BY <1>2, <2>1, NoWrap
  <1>7a. OneToOne(e) /\ \A f : Holds(e, f) <=> Holds(pt[p], f)
    <2>1. SameShape(pt[p], e) /\ OneToOne(pt[p])
      BY <1>4, <1>5 DEF SameShape, OneToOne
    <2> QED BY <2>1, ShapeFacts
  <1>8. \A r \in Proc \ {q} : FramesOf(r, Page)' = FramesOf(r, Page)
    <2>1. FramesOf(p, Page)' = FramesOf(p, Page)
      BY <1>6, <1>7a, SameFrames
    <2>2. \A r \in Proc \ {p, q} : FramesOf(r, Page)' = FramesOf(r, Page)
      BY <1>6, SameFrames
    <2> QED BY <2>1, <2>2
  <1>9. \A f : (f \in FramesOf(q, Page)' <=> f \in S) /\ f \notin FramesOf(q, Page)
    <2>1. \A f : ~Holds(pt[q], f)
      BY <1>4 DEF Holds
    <2> QED BY <1>4, <1>6, <1>7a, <2>1, FrameTables
  <1>10. PrivateWritable'
    <2> SUFFICES ASSUME NEW a \in Proc, NEW b \in Proc, NEW i \in Page, NEW j \in Page,
                        pt'[a][i] # Absent, pt'[a][i].w,
                        pt'[b][j] # Absent, pt'[b][j].pa = pt'[a][i].pa
                 PROVE  a = b /\ i = j
      BY PrivateTables
    <2>1. a # p /\ a # q
      BY <1>5, <1>6
    <2>4. pt[a][i] # Absent /\ pt[a][i].w /\ pt[a][i].pa = pt'[a][i].pa
      BY <1>6, <2>1
    <2>2. CASE b = p \/ b = q
      <3>1. pt[p][j] # Absent /\ pt[p][j].pa = pt[a][i].pa
        <4>1. pt'[b] = e
          BY <1>6, <2>2
        <4> QED BY <1>5, <2>4, <4>1
      <3>2. a = p
        BY <1>1, <2>4, <3>1 DEF PrivateWritable
      <3> QED BY <2>1, <3>2
    <2>3. CASE b # p /\ b # q
      <3>1. pt[b][j] # Absent /\ pt[b][j].pa = pt[a][i].pa
        BY <1>6, <2>3, <2>4
      <3> QED BY <1>1, <2>4, <3>1 DEF PrivateWritable
    <2> QED BY <2>2, <2>3
  <1>11. ASSUME NEW f \in Frame PROVE Tracked(f)'
    <2>1. refcnt[f] \in Int /\ Tracked(f)
      BY <1>1 DEF J
    <2>2. CASE f \in S
      <3>1. refcnt[f] > 0 /\ refcnt'[f] = refcnt[f] + 1
        BY <1>3, <1>7, <2>2
      <3>2. f \notin free \cup kpages
        BY <2>1, <3>1 DEF Tracked
      <3> QED BY <1>2, <1>8, <1>9, <2>1, <2>2, <3>1, <3>2, Gain
    <2>3. CASE f \notin S
      <3>1. refcnt'[f] = refcnt[f]
        BY <1>7, <2>3
      <3>2. ~Holds(pt[p], f)
        BY <1>4, <2>3
      <3>3. WritableWhereMapped(f) => WritableWhereMapped(f)'
        <4>1. \A u \in Page : ~(e[u] # Absent /\ e[u].pa = f)
          BY <1>7a, <3>2 DEF Holds
        <4>2. \A r \in Proc : \A u \in Page :
                pt'[r][u] # Absent /\ pt'[r][u].pa = f => pt'[r][u] = pt[r][u]
          BY <1>6, <4>1
        <4> QED BY <4>2, KeepWritable
      <3> QED BY <1>2, <1>8, <1>9, <2>1, <2>3, <3>1, <3>3, Keep
    <2> QED BY <2>2, <2>3
  <1>12. Injective'
    BY <1>6, <1>7a, InjectiveTables DEF J
  <1>13. SizeOK'
    <2>1. sz'[q] = sz[p] /\ \A r \in Proc \ {q} : sz'[r] = sz[r]
      BY Zenon, <1>1, <1>2 DEF TypeOK
    <2>2. \A v \in Page : e[v] # Absent <=> v < sz[p]
      BY <1>4, <1>5
    <2>3. p # q
      BY <1>2
    <2>4. ASSUME NEW r \in Proc, NEW v \in Page PROVE pt'[r][v] # Absent <=> v < sz'[r]
      <3>1. CASE r = p \/ r = q
        BY <1>6, <2>1, <2>2, <2>3, <3>1
      <3>2. CASE r # p /\ r # q
        BY <1>6, <2>1, <3>2, SizeTables DEF J
      <3> QED BY <3>1, <3>2
    <2> QED BY <2>4, SizeTables
  <1>14. NoStale' /\ tlb' = tlb
    BY Zenon, <1>1, <1>2 DEF J, TypeOK, NoStale
  <1>15. TypeOK'
    <2>1. \A f \in Frame : refcnt'[f] \in -128 .. 127
      BY <1>1, <1>7
    <2>2. refcnt' \in [Frame -> -128 .. 127]
      BY <1>7, <2>1
    <2>3. sz' \in [Proc -> 0 .. NPages] /\ state' \in [Proc -> {"UNUSED", "LIVE", "ZOMBIE"}]
      BY Zenon, <1>1, <1>2 DEF TypeOK
    <2> QED BY Zenon, <1>1, <1>2, <1>6, <1>14, <2>2, <2>3 DEF TypeOK
  <1>16. UnusedEmpty' /\ NoVmPanic'
    BY Zenon, <1>1, <1>2 DEF J, TypeOK, UnusedEmpty, NoVmPanic
  <1> QED BY <1>10, <1>11, <1>12, <1>13, <1>14, <1>15, <1>16 DEF J

(* Whatever pagefault does, in user mode, in kernel mode or once more.     *)
LEMMA FaultStep ==
  ASSUME Counting, J, NEW p \in Proc, NEW v \in Page, state[p] = "LIVE",
         Faults(p, v) \/ ~Writable(p, v),
         \/ /\ pagefault_own(p, v) \/ pagefault_copy(p, v)
            /\ UNCHANGED <<state, sz, kfault, panicked, kpages>>
         \/ pagefault_panics(p, v)
         \/ exit(p)
         \/ UNCHANGED vars
  PROVE  J'
  BY FaultOwnStep, FaultCopyStep, NoPanics, ExitStep, StutterStep

(* The state userinit() leaves behind.                                     *)
LEMMA InitJ ==
  ASSUME Counting, Init
  PROVE  J
  <1>1. PICK f \in Frame :
        /\ state = [p \in Proc |-> IF p = InitProc THEN "LIVE" ELSE "UNUSED"]
        /\ sz = [p \in Proc |-> IF p = InitProc THEN 1 ELSE 0]
        /\ pt = [p \in Proc |-> [v \in Page |->
                    IF p = InitProc /\ v = 0 THEN NewPage(f) ELSE Absent]]
        /\ tlb = [p \in Proc |-> NoPages]
        /\ kfault = [p \in Proc |-> NoPage]
        /\ free = Frame \ {f}
        /\ kpages = {}
        /\ refcnt = [g \in Frame |-> IF g = f THEN 1 ELSE 0]
        /\ content = [g \in Frame |-> IF g = f THEN Zero ELSE Junk]
        /\ panicked = "no"
    BY DEF Init
  <1>2. /\ NewPage(f) \in PTE /\ NewPage(f) # Absent
        /\ NewPage(f).pa = f /\ NewPage(f).w
    <2>1. NewPage(f) \in PTE
      BY DEF NewPage, PTE
    <2>2. NewPage(f).pa = f /\ NewPage(f).w
      BY DEF NewPage
    <2> QED BY <2>1, <2>2, FrameAssumption
  <1>3. 0 \in Page /\ InitProc \in Proc
    BY PageAssumption, ProcAssumption DEF Page
  <1>4. \A p \in Proc, v \in Page :
          /\ pt[p][v] # Absent <=> p = InitProc /\ v = 0
          /\ pt[p][v] # Absent => pt[p][v] = NewPage(f)
    BY <1>1, <1>2
  <1>5. TypeOK
    <2>1. pt \in [Proc -> [Page -> PTE \cup {Absent}]]
      BY <1>1, <1>2
    <2>2. tlb \in [Proc -> [Page -> PTE \cup {Absent}]]
      BY <1>1 DEF NoPages
    <2>3. sz \in [Proc -> 0 .. NPages]
      <3>1. 0 \in 0 .. NPages /\ 1 \in 0 .. NPages
        BY PageAssumption
      <3> QED BY <1>1, <3>1
    <2>4. refcnt \in [Frame -> -128 .. 127]
      BY <1>1
    <2> QED BY <1>1, <2>1, <2>2, <2>3, <2>4, ValueAssumption DEF TypeOK
  <1>6. NoStale /\ UnusedEmpty /\ NoVmPanic
    BY Zenon, <1>1, <1>3 DEF NoStale, UnusedEmpty, NoVmPanic
  <1>7. Injective /\ PrivateWritable
    BY Zenon, <1>4 DEF Injective, PrivateWritable, Mapped
  <1>8. SizeOK
    <2>1. \A p \in Proc : sz[p] = IF p = InitProc THEN 1 ELSE 0
      BY <1>1
    <2>2. \A v \in Page : v \in Nat
      BY PageAssumption DEF Page
    <2>3. \A p \in Proc, v \in Page : pt[p][v] # Absent <=> v < sz[p]
      BY <1>4, <2>1, <2>2
    <2> QED BY <2>3 DEF SizeOK, Mapped
  <1>9. ASSUME NEW g \in Frame PROVE Tracked(g)
    <2>1. CASE g = f
      <3>1. Owners(g) = {InitProc}
        <4>1. \A p \in Proc : Holds(pt[p], f) <=> p = InitProc
          BY <1>2, <1>3, <1>4 DEF Holds, NewPage
        <4>2. \A p \in Proc : f \in FramesOf(p, Page) <=> p = InitProc
          BY <4>1, FrameTables
        <4> QED BY <1>3, <2>1, <4>2 DEF Owners
      <3>2. Cardinality(Owners(g)) = 1
        BY Zenon, <3>1, CountOne
      <3> QED BY <1>1, <2>1, <3>1, <3>2 DEF Tracked, Counted, Accounted
    <2>2. CASE g # f
      <3>1. Owners(g) = {}
        BY <1>2, <1>4, <2>2 DEF Owners, FramesOf, Mapped
      <3>2. Cardinality(Owners(g)) = 0
        BY Zenon, <3>1, CountEmpty
      <3> QED BY <1>1, <2>2, <3>1, <3>2 DEF Tracked, Counted, Accounted
    <2> QED BY <2>1, <2>2
  <1> QED BY <1>5, <1>6, <1>7, <1>8, <1>9 DEF J

(* One case per disjunct of Next.                                          *)
LEMMA NextJ ==
  ASSUME Counting, ~MixForks, ~ShrinkToZero, J, [Next]_vars
  PROVE  J'
  <1>1. ASSUME NEW p \in Proc, Running(p) /\ exit(p)
        PROVE  J'
    BY Zenon, <1>1, ExitStep DEF Running, Live
  <1>3. ASSUME NEW p \in Proc, refault(p)
        PROVE  J'
    <2>1. kfault[p] \in Page
      BY Zenon, <1>3 DEF refault, J, TypeOK
    <2> QED BY <1>3, <2>1, FaultStep DEF refault
  <1>4. ASSUME NEW p \in Proc, NEW v \in Page, pagefault(p, v)
        PROVE  J'
    BY <1>4, FaultStep DEF pagefault, Live
  <1>5. CASE frozen \/ UNCHANGED vars
    BY <1>5, StutterStep DEF frozen
  <1> QED
    BY <1>1, <1>3, <1>4, <1>5, WaitStep, ForkBadStep, ForkcowBadStep, SwitchStep,
       ForkStep, ForkcowStep, GrowStep, ShrinkStep, ExecStep, KernelFaultStep, StoreStep,
       SyscallReturnStep, KernelStep DEF Next

-----------------------------------------------------------------------------
(* Memory, page by page.                                                   *)
LEMMA Reads ==
  ASSUME NEW p \in Proc, NEW v \in Page
  PROVE  /\ Memory[p][v] = IF pt[p][v] = Absent THEN Absent ELSE content[pt[p][v].pa]
         /\ Memory'[p][v] = IF pt'[p][v] = Absent THEN Absent ELSE content'[pt'[p][v].pa]
  BY DEF Memory

(* One process sees its memory change, the others do not.                  *)
LEMMA OneChanged ==
  ASSUME NEW p \in Proc, NEW m,
         \A q \in Proc \ {p} : \A v \in Page : Memory'[q][v] = Memory[q][v],
         m = [v \in Page |-> m[v]],
         \A v \in Page : Memory'[p][v] = m[v]
  PROVE  Memory' = [Memory EXCEPT ![p] = m]
  <1>1. /\ Memory = [q \in Proc |-> Memory[q]]
        /\ Memory' = [q \in Proc |-> Memory'[q]]
        /\ \A q \in Proc : /\ Memory[q] = [v \in Page |-> Memory[q][v]]
                           /\ Memory'[q] = [v \in Page |-> Memory'[q][v]]
    BY DEF Memory
  <1>2. \A q \in Proc \ {p} : Memory'[q] = Memory[q]
    BY <1>1
  <1>3. Memory'[p] = m
    BY <1>1
  <1> QED BY Zenon, <1>1, <1>2, <1>3

(* Nobody does.                                                            *)
LEMMA NoneChanged ==
  ASSUME \A q \in Proc : \A v \in Page : Memory'[q][v] = Memory[q][v]
  PROVE  Memory' = Memory
  BY DEF Memory

(* What is mapped is read as a value, never as Absent; a frame that is     *)
(* free is read by nobody.                                                 *)
LEMMA ReadsValue ==
  ASSUME Counting, J, NEW p \in Proc, NEW v \in Page
  PROVE  /\ pt[p][v] # Absent => /\ pt[p][v].pa \in Frame \ free
                                 /\ content[pt[p][v].pa] \in Value
                                 /\ content[pt[p][v].pa] # Absent
         /\ Memory[p][v] = Absent <=> pt[p][v] = Absent
  <1>1. /\ pt[p] \in [Page -> PTE \cup {Absent}]
        /\ \A f \in free : ~Holds(pt[p], f)
        /\ content \in [Frame -> Value]
    BY Zenon, TableFacts, JFacts DEF TypeOK
  <1>2. ASSUME pt[p][v] # Absent
        PROVE  /\ pt[p][v].pa \in Frame \ free
               /\ content[pt[p][v].pa] \in Value
               /\ content[pt[p][v].pa] # Absent
    <2>1. pt[p][v].pa \in Frame
      BY <1>1, <1>2 DEF PTE
    <2>2. pt[p][v].pa \notin free
      BY <1>1, <1>2 DEF Holds
    <2> QED BY <1>1, <2>1, <2>2, ValueAssumption
  <1> QED BY <1>2, Reads

(* A step that keeps every entry's frame, and what those frames hold, is   *)
(* not seen.                                                               *)
LEMMA Unseen ==
  ASSUME \A r \in Proc : SameShape(pt[r], pt'[r]),
         \A r \in Proc : \A v \in Page :
             pt[r][v] # Absent => content'[pt[r][v].pa] = content[pt[r][v].pa]
  PROVE  Memory' = Memory
  <1>1. ASSUME NEW r \in Proc, NEW v \in Page PROVE Memory'[r][v] = Memory[r][v]
    <2>1. /\ pt'[r][v] # Absent <=> pt[r][v] # Absent
          /\ pt[r][v] # Absent => pt'[r][v].pa = pt[r][v].pa
      BY DEF SameShape
    <2> QED BY <2>1, Reads
  <1> QED BY <1>1, NoneChanged

(* A step that touches neither page tables nor frames is not seen.         *)
LEMMA UntouchedUnseen ==
  ASSUME UNCHANGED <<pt, content>>
  PROVE  Memory' = Memory
  BY DEF Memory

(* A store through an entry that may be written changes that page alone.   *)
LEMMA WriteSeen ==
  ASSUME Counting, J, NEW p \in Proc, NEW v \in Page, NEW x \in Value, pt' = pt,
         pt[p][v] # Absent, pt[p][v].w,
         content' = [content EXCEPT ![pt[p][v].pa] = x]
  PROVE  AS!Store(p, v, x)
  <1>1. Memory[p][v] # Absent /\ pt[p][v].pa \in Frame /\ content \in [Frame -> Value]
    BY Zenon, ReadsValue, JFacts DEF TypeOK
  <1>2. ASSUME NEW q \in Proc, NEW u \in Page, ~(q = p /\ u = v)
        PROVE  Memory'[q][u] = Memory[q][u]
    <2>1. pt[q][u] # Absent => pt[q][u].pa # pt[p][v].pa
      BY <1>2 DEF J, PrivateWritable
    <2>2. pt[q][u] # Absent => pt[q][u].pa \in Frame
      BY ReadsValue
    <2> QED BY <1>1, <2>1, <2>2, Reads
  <1>3. Memory'[p][v] = x
    BY <1>1, Reads
  <1> DEFINE m == [Memory[p] EXCEPT ![v] = x]
  <1>4. /\ Memory[p] = [u \in Page |-> Memory[p][u]]
        /\ Memory = [q \in Proc |-> Memory[q]]
    BY DEF Memory
  <1>5. m = [u \in Page |-> m[u]] /\ m[v] = x /\ \A u \in Page \ {v} : m[u] = Memory[p][u]
    BY <1>4
  <1> HIDE DEF m
  <1>6. Memory' = [Memory EXCEPT ![p] = m]
    BY <1>2, <1>3, <1>5, OneChanged
  <1>7. Memory' = [Memory EXCEPT ![p][v] = x]
    BY Zenon, <1>4, <1>6 DEF m
  <1> QED BY <1>1, <1>7 DEF AS!Store

(* A store of the program that does not fault.                             *)
LEMMA StoreSeen ==
  ASSUME Counting, J, NEW p \in Proc, NEW v \in Page, NEW x \in Value, store(p, v, x)
  PROVE  AS!Store(p, v, x)
  <1>1. tlb[p][v] = Absent
    BY DEF J, NoStale, NoPages
  <1>2. PICK t \in Trans(p, v) : t.w /\ content' = [content EXCEPT ![t.pa] = x]
    BY Zenon DEF store
  <1>3. t = pt[p][v] /\ pt[p][v] # Absent
    BY <1>1 DEF Trans
  <1> QED BY Zenon, <1>2, <1>3, WriteSeen DEF store

(* A store of the kernel for a system call, once its fault is handled.     *)
LEMMA ReturnSeen ==
  ASSUME Counting, J, NEW p \in Proc, NEW x \in Value, syscall_return(p, x)
  PROVE  \E v \in Page : AS!Store(p, v, x)
  <1>1. kfault[p] \in Page
    BY Zenon DEF syscall_return, J, TypeOK
  <1> QED BY Zenon, <1>1, WriteSeen DEF syscall_return, Writable

(* copyuvm gives up: what it had allocated was read by nobody.             *)
LEMMA ForkBadSeen ==
  ASSUME Counting, J, NEW p \in Proc, fork_bad(p)
  PROVE  Memory' = Memory
  <1>0. ~NotPresent(p)
    BY NoPanics
  <1>1. pt' = pt
    BY <1>0 DEF fork_bad
  <1>2. PICK k \in 0 .. sz[p] - 1 : \E g \in kalloc(k) : content' = Copied(p, g)
    BY Zenon, <1>0 DEF fork_bad
  <1>3. PICK g \in kalloc(k) : content' = Copied(p, g)
    BY <1>2
  <1>4. Taken(g) \subseteq free
    BY DEF kalloc, Taken
  <1>5. \A r \in Proc : \A v \in Page :
             pt[r][v] # Absent => content'[pt[r][v].pa] = content[pt[r][v].pa]
    BY Zenon, <1>3, <1>4, ReadsValue DEF Copied
  <1> QED BY <1>1, <1>5, Unseen DEF SameShape

(* copyuvmcow gives up: the parent keeps its frames, though not always     *)
(* PTE_W.                                                                  *)
LEMMA ForkcowBadSeen ==
  ASSUME Counting, J, NEW p \in Proc, forkcow_bad(p)
  PROVE  Memory' = Memory
  <1>0. ~NotPresent(p)
    BY NoPanics
  <1>1. PICK k \in 0 .. sz[p] - 1 : pt' = [pt EXCEPT ![p] = ReadOnly(p, k + 1)]
    BY <1>0 DEF forkcow_bad
  <1>2. content' = content
    BY <1>0 DEF forkcow_bad
  <1>3. k + 1 \in Nat
    BY TableFacts
  <1>4. SameShape(pt[p], ReadOnly(p, k + 1))
    BY <1>3, ReadOnlyFacts DEF SameShape
  <1>5. pt'[p] = ReadOnly(p, k + 1) /\ \A r \in Proc \ {p} : pt'[r] = pt[r]
    BY Zenon, <1>1 DEF J, TypeOK
  <1>6. \A r \in Proc : SameShape(pt[r], pt'[r])
    BY <1>4, <1>5 DEF SameShape
  <1> QED BY <1>2, <1>6, Unseen

(* pagefault on a page of one owner only sets PTE_W (vm.c:462).            *)
LEMMA FaultOwnSeen ==
  ASSUME J, NEW p \in Proc, NEW v \in Page, pagefault_own(p, v)
  PROVE  Memory' = Memory
  <1>1. /\ pt[p][v] # Absent
        /\ pt' = [pt EXCEPT ![p][v] = Protect(pt[p][v], TRUE)]
        /\ content' = content
    BY DEF pagefault_own, Legal
  <1>2. /\ pt[p] \in [Page -> PTE \cup {Absent}]
        /\ pt \in [Proc -> [Page -> PTE \cup {Absent}]]
    BY Zenon DEF J, TypeOK
  <1>3. Protect(pt[p][v], TRUE) # Absent /\ Protect(pt[p][v], TRUE).pa = pt[p][v].pa
    <2>1. pt[p][v] \in PTE
      BY <1>1, <1>2
    <2>2. Protect(pt[p][v], TRUE) \in PTE /\ Protect(pt[p][v], TRUE).pa = pt[p][v].pa
      BY <2>1 DEF Protect, PTE
    <2> QED BY Zenon, <2>2, FrameAssumption
  <1>4. /\ pt'[p][v] = Protect(pt[p][v], TRUE)
        /\ \A u \in Page \ {v} : pt'[p][u] = pt[p][u]
        /\ \A r \in Proc \ {p} : pt'[r] = pt[r]
    BY <1>1, <1>2
  <1>5. \A r \in Proc : SameShape(pt[r], pt'[r])
    BY Zenon, <1>1, <1>3, <1>4 DEF SameShape
  <1> QED BY Zenon, <1>1, <1>5, Unseen

(* The copy reads like the page it replaces.                               *)
LEMMA FaultCopySeen ==
  ASSUME Counting, J, NEW p \in Proc, NEW v \in Page, pagefault_copy(p, v)
  PROVE  Memory' = Memory
  <1>1. pt[p][v] # Absent
    BY DEF pagefault_copy, Legal
  <1>2. PICK mem \in free :
          /\ content' = [content EXCEPT ![mem] = content[pt[p][v].pa]]
          /\ pt' = [pt EXCEPT ![p][v] = NewPage(mem)]
    BY Zenon DEF pagefault_copy
  <1>3. /\ pt \in [Proc -> [Page -> PTE \cup {Absent}]]
        /\ content \in [Frame -> Value] /\ mem \in Frame
    BY Zenon DEF J, TypeOK
  <1>4. NewPage(mem) # Absent /\ NewPage(mem).pa = mem
    <2>1. NewPage(mem) \in PTE /\ NewPage(mem).pa = mem
      BY <1>3 DEF NewPage, PTE
    <2> QED BY <2>1, FrameAssumption
  <1>5. /\ pt'[p][v] = NewPage(mem)
        /\ \A u \in Page \ {v} : pt'[p][u] = pt[p][u]
        /\ \A r \in Proc \ {p} : pt'[r] = pt[r]
    BY <1>2, <1>3
  <1>6. /\ content'[mem] = content[pt[p][v].pa]
        /\ \A f \in Frame \ {mem} : content'[f] = content[f]
    BY Zenon, <1>2, <1>3
  <1>7. Memory'[p][v] = Memory[p][v]
    BY <1>1, <1>4, <1>5, <1>6, Reads
  <1>8. ASSUME NEW r \in Proc, NEW u \in Page, ~(r = p /\ u = v)
        PROVE  Memory'[r][u] = Memory[r][u]
    <2>1. pt'[r][u] = pt[r][u]
      BY <1>5, <1>8
    <2>2. pt[r][u] # Absent => pt[r][u].pa \in Frame \ {mem}
      BY ReadsValue
    <2> QED BY <1>6, <2>1, <2>2, Reads
  <1> QED BY <1>7, <1>8, NoneChanged

(* The slot fork finds reads nothing.                                      *)
LEMMA UnusedReadsNothing ==
  ASSUME J, NEW q \in Proc, state[q] = "UNUSED"
  PROVE  /\ \A v \in Page : pt[q][v] = Absent
         /\ Memory[q] = AS!Empty
  <1>1. \A v \in Page : pt[q][v] # Absent <=> v < 0
    BY TableFacts DEF J, UnusedEmpty
  <1>2. \A v \in Page : v \in Nat
    BY TableFacts
  <1>3. \A v \in Page : pt[q][v] = Absent
    BY <1>1, <1>2
  <1> QED BY <1>3 DEF Memory, AS!Empty, AS!Page, Page

(* copyuvm: the child reads what the parent reads.                         *)
LEMMA ForkSeen ==
  ASSUME Counting, J, NEW p \in Proc, NEW q \in Proc, fork(p, q)
  PROVE  AS!Fork(p, q)
  <1> DEFINE k == sz[p]
  <1>1. PICK g \in kalloc(k) :
          /\ pt' = [pt EXCEPT ![q] = [v \in Page |->
               IF v < k THEN [pa |-> g[v], w |-> pt[p][v].w, u |-> pt[p][v].u] ELSE Absent]]
          /\ content' = Copied(p, g)
    BY Zenon DEF fork
  <1>2. Memory[q] = AS!Empty /\ q # p
    BY UnusedReadsNothing DEF fork, forks, Running, Live
  <1>3. /\ k \in Nat /\ free \subseteq Frame
        /\ pt \in [Proc -> [Page -> PTE \cup {Absent}]]
    BY Zenon, TableFacts DEF J, TypeOK
  <1>4. /\ \A v \in Page : v \in Nat
        /\ \A v \in Page : pt[p][v] # Absent <=> v < k
    BY TableFacts
  <1> HIDE DEF k
  <1>5. /\ g \in [0 .. k - 1 -> free]
        /\ \A i, j \in 0 .. k - 1 : g[i] = g[j] => i = j
        /\ \A i \in 0 .. k - 1 : g[i] \in Frame /\ g[i] \in free
        /\ Taken(g) \subseteq free
        /\ \A f : f \in Taken(g) <=> \E i \in 0 .. k - 1 : f = g[i]
    BY Zenon, <1>3, KallocFacts
  <1>6. ASSUME NEW i \in 0 .. k - 1 PROVE content'[g[i]] = content[pt[p][i].pa]
    <2>1. (CHOOSE v \in DOMAIN g : g[v] = g[i]) = i
      BY <1>5
    <2> QED BY <1>1, <1>5, <2>1 DEF Copied
  <1>7. \A f \in Frame \ free : content'[f] = content[f]
    BY <1>1, <1>5 DEF Copied
  <1>8. /\ \A r \in Proc \ {q} : pt'[r] = pt[r]
        /\ \A v \in Page : pt'[q][v] =
             IF v < k THEN [pa |-> g[v], w |-> pt[p][v].w, u |-> pt[p][v].u] ELSE Absent
    BY <1>1, <1>3
  <1>9. ASSUME NEW r \in Proc \ {q}, NEW v \in Page
        PROVE  Memory'[r][v] = Memory[r][v]
    <2>1. pt[r][v] # Absent => pt[r][v].pa \in Frame \ free
      BY ReadsValue
    <2> QED BY <1>7, <1>8, <2>1, Reads
  <1>10. ASSUME NEW v \in Page PROVE Memory'[q][v] = Memory[p][v]
    <2>1. CASE v < k
      <3>1. v \in 0 .. k - 1
        BY <1>3, <1>4, <2>1
      <3>2. pt'[q][v] = [pa |-> g[v], w |-> pt[p][v].w, u |-> pt[p][v].u]
        BY <1>8, <2>1
      <3>3. pt'[q][v] \in PTE
        <4>1. pt[p][v] \in PTE
          BY Zenon, <1>3, <1>4, <2>1
        <4> QED BY <1>5, <3>1, <3>2, <4>1 DEF PTE
      <3>4. pt'[q][v] # Absent /\ pt'[q][v].pa = g[v]
        BY <3>2, <3>3, FrameAssumption
      <3> QED BY <1>4, <1>6, <2>1, <3>1, <3>4, Reads
    <2>2. CASE ~(v < k)
      <3>1. pt'[q][v] = Absent /\ pt[p][v] = Absent
        BY Zenon, <1>4, <1>8, <2>2
      <3> QED BY Zenon, <3>1, Reads
    <2> QED BY Zenon, <2>1, <2>2
  <1>11. Memory[p] = [v \in Page |-> Memory[p][v]]
    BY DEF Memory
  <1>12. Memory' = [Memory EXCEPT ![q] = Memory[p]]
    BY <1>9, <1>10, <1>11, OneChanged
  <1> QED BY <1>2, <1>12 DEF AS!Fork

(* copyuvmcow: so does the child that shares its parent's pages.           *)
LEMMA ForkcowSeen ==
  ASSUME J, NEW p \in Proc, NEW q \in Proc, forkcow(p, q)
  PROVE  AS!Fork(p, q)
  <1>0. content' = content
    BY Zenon DEF forkcow
  <1>1. pt' = [pt EXCEPT ![p] = ReadOnly(p, sz[p]), ![q] = ReadOnly(p, sz[p])]
    BY DEF forkcow
  <1>2. Memory[q] = AS!Empty /\ q # p
    BY UnusedReadsNothing DEF forkcow, forks, Running, Live
  <1>3. sz[p] \in Nat /\ pt \in [Proc -> [Page -> PTE \cup {Absent}]]
    BY Zenon, TableFacts DEF J, TypeOK
  <1> DEFINE e == ReadOnly(p, sz[p])
  <1>4. pt'[p] = e /\ pt'[q] = e /\ \A r \in Proc \ {p, q} : pt'[r] = pt[r]
    BY <1>1, <1>2, <1>3
  <1>5. \A v \in Page : /\ e[v] # Absent <=> pt[p][v] # Absent
                        /\ pt[p][v] # Absent => e[v].pa = pt[p][v].pa
    BY <1>3, ReadOnlyFacts
  <1> HIDE DEF e
  <1>6. ASSUME NEW v \in Page
        PROVE  Memory'[p][v] = Memory[p][v] /\ Memory'[q][v] = Memory[p][v]
    <2>1. pt'[p][v] = e[v] /\ pt'[q][v] = e[v]
      BY Zenon, <1>4
    <2>2. Memory'[q][v] = Memory'[p][v]
      BY <2>1, Reads
    <2>3. /\ pt'[p][v] # Absent <=> pt[p][v] # Absent
          /\ pt[p][v] # Absent => pt'[p][v].pa = pt[p][v].pa
      BY Zenon, <1>5, <2>1
    <2>4. Memory'[p][v] = Memory[p][v]
      BY <1>0, <2>3, Reads
    <2> QED BY <2>2, <2>4
  <1>7. ASSUME NEW r \in Proc \ {p, q}, NEW v \in Page
        PROVE  Memory'[r][v] = Memory[r][v]
    <2>1. pt'[r][v] = pt[r][v] /\ r \in Proc
      BY Zenon, <1>4
    <2> QED BY <1>0, <2>1, Reads
  <1>8. Memory[p] = [v \in Page |-> Memory[p][v]]
    BY DEF Memory
  <1>9. Memory' = [Memory EXCEPT ![q] = Memory[p]]
    BY <1>6, <1>7, <1>8, OneChanged
  <1> QED BY <1>2, <1>9 DEF AS!Fork

(* A frame deallocuvm gives back (vm.c:276) had one owner: the others read *)
(* something else.                                                         *)
LEMMA ReleasedUnread ==
  ASSUME Counting, J, NEW p \in Proc, NEW rc \in [Frame -> -2 .. 65], NEW S,
         \A f \in S : f \in Frame /\ Holds(pt[p], f) /\ rc[f] = refcnt[f],
         NEW q \in Proc \ {p}, NEW v \in Page, pt[q][v] # Absent
  PROVE  pt[q][v].pa \notin Released(rc, S)
  <1> DEFINE f == pt[q][v].pa
  <1> SUFFICES ASSUME f \in Released(rc, S) PROVE FALSE
    OBVIOUS
  <1>1. f \in S /\ f \in Frame
    BY DEF Released
  <1>2. rc[f] = 1
    BY <1>1, NoWrap
  <1>3. p \in Owners(f) /\ q \in Owners(f)
    <2>1. f \in FramesOf(p, Page)
      BY <1>1, FrameTables
    <2>2. Holds(pt[q], f)
      BY DEF Holds
    <2>3. f \in FramesOf(q, Page)
      BY <2>2, FrameTables
    <2> QED BY <2>1, <2>3 DEF Owners
  <1> HIDE DEF f
  <1>4. Cardinality(Owners(f)) = 1
    <2>1. refcnt[f] = 1 /\ Counted(f)
      BY <1>1, <1>2 DEF J, Tracked
    <2> QED BY <2>1 DEF Counted
  <1>5. IsFiniteSet(Owners(f))
    BY OwnersFinite
  <1>6. PICK r : Owners(f) = {r}
    BY Zenon, <1>4, <1>5, SoleMember
  <1> QED BY <1>3, <1>6

(* Pages from n on are gone, for p only: deallocuvm from wait and sbrk.    *)
LEMMA DroppedSeen ==
  ASSUME Counting, J, NEW p \in Proc, NEW n \in Nat, NEW S,
         pt' = [pt EXCEPT ![p] = [v \in Page |-> IF v >= n THEN Absent ELSE pt[p][v]]],
         \A f : f \in S <=> \E v \in Page : v >= n /\ pt[p][v] # Absent /\ pt[p][v].pa = f,
         content' = Freed(content, Released(refcnt, S))
  PROVE  AS!Shrink(p, n)
  <1>0. refcnt \in [Frame -> -1 .. 64] /\ pt \in [Proc -> [Page -> PTE \cup {Absent}]]
    BY Zenon, JFacts DEF TypeOK
  <1>1. refcnt \in [Frame -> -2 .. 65] /\ pt \in [Proc -> [Page -> PTE \cup {Absent}]]
    BY <1>0
  <1>2. /\ \A r \in Proc \ {p} : pt'[r] = pt[r]
        /\ \A v \in Page : pt'[p][v] = IF v >= n THEN Absent ELSE pt[p][v]
    BY <1>1
  <1>3. \A f \in S : f \in Frame /\ Holds(pt[p], f) /\ refcnt[f] = refcnt[f]
    BY <1>1 DEF PTE, Holds
  <1>4. \A f \in Frame : f \notin Released(refcnt, S) => content'[f] = content[f]
    BY Zenon DEF Freed
  <1>5. ASSUME NEW r \in Proc \ {p}, NEW v \in Page
        PROVE  Memory'[r][v] = Memory[r][v]
    <2>1. pt[r][v] # Absent =>
            pt[r][v].pa \in Frame /\ pt[r][v].pa \notin Released(refcnt, S)
      BY Zenon, <1>1, <1>3, ReleasedUnread, ReadsValue
    <2> QED BY <1>2, <1>4, <2>1, Reads
  <1> DEFINE m == [v \in Page |-> IF v >= n THEN Absent ELSE Memory[p][v]]
  <1>6. ASSUME NEW v \in Page PROVE Memory'[p][v] = m[v]
    <2>1. CASE v >= n
      BY <1>2, <2>1, Reads
    <2>2. CASE ~(v >= n)
      <3>1. pt[p][v] # Absent => pt[p][v].pa \in Frame
        BY Zenon, ReadsValue
      <3>2. pt[p][v] # Absent => pt[p][v].pa \notin S
        BY <2>2 DEF J, Injective, Mapped
      <3>3. pt[p][v] # Absent => content'[pt[p][v].pa] = content[pt[p][v].pa]
        BY <1>4, <3>1, <3>2 DEF Released
      <3>4. pt'[p][v] = pt[p][v]
        BY <1>2, <2>2
      <3> QED BY <2>2, <3>3, <3>4, Reads
    <2> QED BY Zenon, <2>1, <2>2
  <1>7. m = [v \in Page |-> m[v]]
    OBVIOUS
  <1> HIDE DEF m
  <1>8. Memory' = [Memory EXCEPT ![p] = m]
    BY <1>5, <1>6, <1>7, OneChanged
  <1>9. Memory = [q \in Proc |-> Memory[q]]
    BY DEF Memory
  <1> QED BY <1>8, <1>9 DEF AS!Shrink, AS!Page, Page, m

(* wait frees all the memory of a child that has exited.                   *)
LEMMA WaitSeen ==
  ASSUME Counting, J, NEW p \in Proc, wait(p)
  PROVE  AS!Shrink(p, 0)
  <1>1. \A v \in Page : v \in Nat
    BY TableFacts
  <1>2. NoPages = [v \in Page |-> IF v >= 0 THEN Absent ELSE pt[p][v]]
    BY <1>1 DEF NoPages
  <1>3. \A f : f \in FramesOf(p, Page) <=>
                 \E v \in Page : v >= 0 /\ pt[p][v] # Absent /\ pt[p][v].pa = f
    BY <1>1 DEF FramesOf, Mapped
  <1> QED BY Zenon, <1>2, <1>3, DroppedSeen DEF wait

(* sbrk with a negative argument drops the pages from the new size on.     *)
LEMMA ShrinkSeen ==
  ASSUME Counting, J, NEW p \in Proc, NEW n \in 0 .. NPages, shrink(p, n)
  PROVE  AS!Shrink(p, n)
  <1>1. /\ n \in Nat /\ n < sz[p] /\ sz[p] \in Nat
        /\ \A v \in Page : v \in Nat
        /\ \A v \in Page : pt[p][v] # Absent <=> v < sz[p]
    <2>1. n < sz[p]
      BY Zenon DEF shrink
    <2> QED BY <2>1, TableFacts
  <1>2. \A v \in Page : v \in Dropped(p, n) <=> v >= n /\ pt[p][v] # Absent
    BY <1>1 DEF Dropped
  <1>3. [v \in Page |-> IF v \in Dropped(p, n) THEN Absent ELSE pt[p][v]]
          = [v \in Page |-> IF v >= n THEN Absent ELSE pt[p][v]]
    BY <1>2
  <1>4. \A f : f \in FramesOf(p, Dropped(p, n)) <=>
                 \E v \in Page : v >= n /\ pt[p][v] # Absent /\ pt[p][v].pa = f
    BY <1>2 DEF FramesOf, Mapped
  <1>5. /\ pt' = [pt EXCEPT ![p] = [v \in Page |-> IF v >= n THEN Absent ELSE pt[p][v]]]
        /\ content' = Freed(content, Released(refcnt, FramesOf(p, Dropped(p, n))))
    BY Zenon, <1>3 DEF shrink
  <1> QED BY Zenon, <1>1, <1>4, <1>5, DroppedSeen

(* allocuvm: the new pages read as zero.                                   *)
LEMMA GrowSeen ==
  ASSUME Counting, J, NEW p \in Proc, NEW n \in 0 .. NPages, grow(p, n)
  PROVE  AS!Grow(p, sz[p], n)
  <1> DEFINE k == sz[p]
  <1>1. PICK g \in kalloc(n - k) :
          /\ pt' = [pt EXCEPT ![p] = [v \in Page |->
                      IF v >= k /\ v < n THEN NewPage(g[v - k]) ELSE pt[p][v]]]
          /\ content' = [f \in Frame |-> IF f \in Taken(g) THEN Zero ELSE content[f]]
    BY Zenon DEF grow
  <1>2. /\ k \in Nat /\ n \in Nat /\ n - k \in Nat /\ free \subseteq Frame
        /\ pt \in [Proc -> [Page -> PTE \cup {Absent}]]
    <2>1. n > k
      BY DEF grow
    <2>2. free \subseteq Frame /\ pt \in [Proc -> [Page -> PTE \cup {Absent}]]
      BY Zenon DEF J, TypeOK
    <2> QED BY <2>1, <2>2, TableFacts
  <1>3. /\ \A v \in Page : v \in Nat
        /\ \A v \in Page : pt[p][v] # Absent <=> v < k
    BY TableFacts
  <1> HIDE DEF k
  <1>4. /\ \A i \in 0 .. (n - k) - 1 : g[i] \in Frame /\ g[i] \in free
        /\ Taken(g) \subseteq free
        /\ \A f : f \in Taken(g) <=> \E i \in 0 .. (n - k) - 1 : f = g[i]
    BY <1>2, KallocFacts
  <1>5. /\ \A r \in Proc \ {p} : pt'[r] = pt[r]
        /\ \A v \in Page : pt'[p][v] =
             IF v >= k /\ v < n THEN NewPage(g[v - k]) ELSE pt[p][v]
    BY Zenon, <1>1, <1>2
  <1>6. ASSUME NEW r \in Proc, NEW v \in Page, pt'[r][v] = pt[r][v]
        PROVE  Memory'[r][v] = Memory[r][v]
    <2>1. pt[r][v] # Absent => pt[r][v].pa \in Frame \ free
      BY Zenon, ReadsValue
    <2> QED BY <1>1, <1>4, <1>6, <2>1, Reads
  <1> DEFINE m == [v \in Page |-> IF v >= k /\ v < n THEN Zero ELSE Memory[p][v]]
  <1>7. ASSUME NEW v \in Page PROVE Memory'[p][v] = m[v]
    <2>1. CASE v >= k /\ v < n
      <3>1. v - k \in 0 .. (n - k) - 1
        BY <1>2, <1>3, <2>1
      <3>2. g[v - k] \in Taken(g) /\ g[v - k] \in Frame
        BY <1>4, <3>1
      <3>3. pt'[p][v] = NewPage(g[v - k])
        BY <1>5, <2>1
      <3>4. pt'[p][v] # Absent /\ pt'[p][v].pa = g[v - k]
        <4>1. NewPage(g[v - k]) \in PTE /\ NewPage(g[v - k]).pa = g[v - k]
          BY <3>2 DEF NewPage, PTE
        <4> QED BY <3>3, <4>1, FrameAssumption
      <3> QED BY <1>1, <2>1, <3>2, <3>4, Reads
    <2>2. CASE ~(v >= k /\ v < n)
      BY <1>5, <1>6, <2>2
    <2> QED BY Zenon, <2>1, <2>2
  <1>8. m = [v \in Page |-> m[v]]
    OBVIOUS
  <1> HIDE DEF m
  <1>9. Memory' = [Memory EXCEPT ![p] = m]
    BY Zenon, <1>5, <1>6, <1>7, <1>8, OneChanged
  <1>10. \A v \in Page : v >= k /\ v < n => Memory[p][v] = Absent
    <2>1. \A v \in Page : v >= k => pt[p][v] = Absent
      BY <1>2, <1>3
    <2> QED BY <2>1, Reads
  <1>11. Memory = [q \in Proc |-> Memory[q]]
    BY DEF Memory
  <1> QED BY <1>9, <1>10, <1>11 DEF AS!Grow, AS!Page, Page, m, k

(* exec: the new program, a zero page, the stack, and nothing else.        *)
LEMMA ExecSeen ==
  ASSUME Counting, J, NEW p \in Proc, NEW t \in TextPages, NEW x \in Value, exec(p, t, x)
  PROVE  AS!Exec(p, t, x)
  <1> DEFINE S == FramesOf(p, Page)
  <1>1. PICK g \in kalloc(t + 2) :
          /\ pt' = [pt EXCEPT ![p] = [v \in Page |->
                      IF v < t + 2 THEN [pa |-> g[v], w |-> TRUE, u |-> v # t] ELSE Absent]]
          /\ content' = [f \in Frame |->
               IF f \in Taken(g) THEN (IF f = g[t] THEN Zero ELSE x)
               ELSE Freed(content, Released(Incremented(refcnt, Taken(g)), S))[f]]
    BY Zenon DEF exec
  <1> DEFINE rc == Incremented(refcnt, Taken(g))
  <1>2. /\ t \in Nat /\ t + 2 \in Nat /\ free \subseteq Frame
        /\ pt \in [Proc -> [Page -> PTE \cup {Absent}]]
        /\ \A v \in Page : v \in Nat
    <2>1. free \subseteq Frame /\ pt \in [Proc -> [Page -> PTE \cup {Absent}]]
      BY Zenon DEF J, TypeOK
    <2> QED BY <2>1, TableFacts, PageAssumption
  <1>3. /\ \A i, j \in 0 .. t + 2 - 1 : g[i] = g[j] => i = j
        /\ \A i \in 0 .. t + 2 - 1 : g[i] \in Frame /\ g[i] \in free
        /\ Taken(g) \subseteq free
        /\ \A f : f \in Taken(g) <=> \E i \in 0 .. t + 2 - 1 : f = g[i]
    BY <1>2, KallocFacts
  <1>4. rc \in [Frame -> -2 .. 65] /\ \A f \in S : f \in Frame /\ Holds(pt[p], f) /\ rc[f] = refcnt[f]
    <2>1. refcnt \in [Frame -> -1 .. 64]
      BY JFacts
    <2>2. rc = [f \in Frame |-> IF f \in Taken(g) THEN refcnt[f] + 1 ELSE refcnt[f]]
      <3>1. refcnt \in [Frame -> -2 .. 65]
        BY <2>1
      <3> QED BY <3>1, NoWrap
    <2>3. \A f \in S : f \in Frame /\ Holds(pt[p], f)
      BY Zenon, JFacts, TableFacts
    <2>4. \A f \in S : f \notin Taken(g)
      BY <1>3, <2>3, TableFacts
    <2> HIDE DEF rc, S
    <2>5. rc \in [Frame -> -2 .. 65]
      BY <2>1, <2>2
    <2>6. \A f \in S : rc[f] = refcnt[f]
      BY Zenon, <2>2, <2>3, <2>4
    <2> QED BY <2>3, <2>5, <2>6
  <1>5. /\ \A r \in Proc \ {p} : pt'[r] = pt[r]
        /\ \A v \in Page : pt'[p][v] =
             IF v < t + 2 THEN [pa |-> g[v], w |-> TRUE, u |-> v # t] ELSE Absent
    BY Zenon, <1>1, <1>2
  <1>6. \A f \in Frame : f \notin Taken(g) /\ f \notin Released(rc, S) => content'[f] = content[f]
    BY Zenon, <1>1 DEF Freed
  <1> HIDE DEF rc, S
  <1>7. ASSUME NEW r \in Proc \ {p}, NEW v \in Page
        PROVE  Memory'[r][v] = Memory[r][v]
    <2>1. pt[r][v] # Absent => pt[r][v].pa \in Frame \ free
      BY ReadsValue
    <2>2. pt[r][v] # Absent => pt[r][v].pa \notin Released(rc, S)
      BY <1>4, ReleasedUnread
    <2>3. pt[r][v] # Absent => content'[pt[r][v].pa] = content[pt[r][v].pa]
      BY Zenon, <1>3, <1>6, <2>1, <2>2
    <2>4. pt'[r][v] = pt[r][v]
      BY Zenon, <1>5
    <2> QED BY <2>3, <2>4, Reads
  <1> DEFINE m == [v \in Page |-> IF v >= t + 2 THEN Absent ELSE IF v = t THEN Zero ELSE x]
  <1>8. ASSUME NEW v \in Page PROVE Memory'[p][v] = m[v]
    <2>1. CASE v < t + 2
      <3>1. v \in 0 .. t + 2 - 1 /\ t \in 0 .. t + 2 - 1
        BY <1>2, <2>1
      <3>2. g[v] \in Taken(g) /\ g[v] \in Frame /\ (g[v] = g[t] <=> v = t)
        BY Zenon, <1>3, <3>1
      <3>3. pt'[p][v] = [pa |-> g[v], w |-> TRUE, u |-> v # t]
        BY Zenon, <1>5, <2>1
      <3>4. pt'[p][v] \in PTE /\ pt'[p][v].pa = g[v]
        BY <3>2, <3>3 DEF PTE
      <3>5. pt'[p][v] # Absent /\ pt'[p][v].pa = g[v]
        BY Zenon, <3>4, FrameAssumption
      <3>6. content'[g[v]] = IF v = t THEN Zero ELSE x
        BY Zenon, <1>1, <3>2
      <3>7. ~(v >= t + 2)
        BY <1>2, <2>1
      <3> QED BY <3>5, <3>6, <3>7, Reads
    <2>2. CASE ~(v < t + 2)
      <3>1. v >= t + 2
        BY <1>2, <2>2
      <3> QED BY Zenon, <1>5, <2>2, <3>1, Reads
    <2> QED BY Zenon, <2>1, <2>2
  <1>9. m = [v \in Page |-> m[v]]
    OBVIOUS
  <1> HIDE DEF m
  <1>10. Memory' = [Memory EXCEPT ![p] = m]
    BY <1>7, <1>8, <1>9, OneChanged
  <1> QED BY <1>10 DEF AS!Exec, AS!Page, Page, m

-----------------------------------------------------------------------------
(* userinit(): one process with one page of zeros.                         *)
LEMMA InitSeen == Init => AS!Init
  <1> SUFFICES ASSUME Init PROVE AS!Init
    OBVIOUS
  <1>1. PICK f \in Frame :
          /\ pt = [p \in Proc |-> [v \in Page |->
                    IF p = InitProc /\ v = 0 THEN NewPage(f) ELSE Absent]]
          /\ content = [g \in Frame |-> IF g = f THEN Zero ELSE Junk]
    BY DEF Init
  <1>2. NewPage(f) # Absent /\ NewPage(f).pa = f
    <2>1. NewPage(f) \in PTE /\ NewPage(f).pa = f
      BY DEF NewPage, PTE
    <2> QED BY <2>1, FrameAssumption
  <1>3. \A q \in Proc, v \in Page :
          Memory[q][v] = IF q = InitProc /\ v = 0 THEN Zero ELSE Absent
    BY <1>1, <1>2, Reads
  <1>4. Memory = [q \in Proc |-> [v \in Page |-> Memory[q][v]]]
    BY DEF Memory
  <1>5. Memory = [q \in Proc |-> [v \in Page |->
                    IF q = InitProc /\ v = 0 THEN Zero ELSE Absent]]
    BY <1>3, <1>4
  <1> QED BY <1>5, ProcAssumption DEF AS!Init, AS!Page, Page

(* Whatever pagefault does is not seen.                                    *)
LEMMA FaultSeen ==
  ASSUME Counting, J, NEW p \in Proc, NEW v \in Page,
         \/ pagefault_own(p, v) \/ pagefault_copy(p, v)
         \/ pagefault_panics(p, v) \/ exit(p) \/ UNCHANGED vars
  PROVE  Memory' = Memory
  <1>1. CASE pagefault_panics(p, v) \/ exit(p) \/ UNCHANGED vars
    <2>1. UNCHANGED <<pt, content>>
      BY Zenon, <1>1 DEF pagefault_panics, exit, Panic, vars
    <2> QED BY <2>1, UntouchedUnseen
  <1> QED BY <1>1, FaultOwnSeen, FaultCopySeen

(* One case per disjunct of Next.                                          *)
LEMMA NextSeen ==
  ASSUME Counting, J, [Next]_vars
  PROVE  [AS!Next]_Memory
  <1>1. ASSUME NEW p \in Proc,
               \/ (Running(p) /\ exit(p)) \/ switchuvm(p)
               \/ \E v \in Page : pagefault_kernel(p, v)
        PROVE  Memory' = Memory
    <2>1. UNCHANGED <<pt, content>>
      BY Zenon, <1>1 DEF exit, Panic, switchuvm, pagefault_kernel
    <2> QED BY <2>1, UntouchedUnseen
  <1>2. ASSUME NEW f \in Frame, kernel_kalloc(f) \/ kernel_kfree(f)
        PROVE  Memory' = Memory
    BY <1>2, UntouchedUnseen DEF kernel_kalloc, kernel_kfree
  <1>3. CASE frozen \/ UNCHANGED vars
    BY Zenon, <1>3, UntouchedUnseen DEF frozen, vars
  <1>4. ASSUME NEW p \in Proc, refault(p)
        PROVE  Memory' = Memory
    <2>1. kfault[p] \in Page
      BY <1>4 DEF refault, J, TypeOK
    <2> QED BY <1>4, <2>1, FaultSeen DEF refault
  <1>5. ASSUME NEW p \in Proc, NEW v \in Page, pagefault(p, v)
        PROVE  Memory' = Memory
    BY <1>5, FaultSeen DEF pagefault
  <1>6. ASSUME NEW p \in Proc, fork_bad(p) \/ forkcow_bad(p)
        PROVE  Memory' = Memory
    BY <1>6, ForkBadSeen, ForkcowBadSeen
  <1>7. AS!Page = Page
    BY DEF AS!Page, Page
  <1>8. ASSUME NEW p \in Proc, wait(p)
        PROVE  AS!Next
    <2>1. AS!Shrink(p, 0) /\ 0 \in 0 .. NPages
      BY <1>8, WaitSeen, PageAssumption
    <2> QED BY <2>1 DEF AS!Next
  <1>9. ASSUME NEW p \in Proc, NEW q \in Proc, fork(p, q) \/ forkcow(p, q)
        PROVE  AS!Next
    <2>1. AS!Fork(p, q)
      BY <1>9, ForkSeen, ForkcowSeen
    <2> QED BY <2>1 DEF AS!Next
  <1>10. ASSUME NEW p \in Proc, NEW n \in 0 .. NPages, grow(p, n)
         PROVE  AS!Next
    <2>1. AS!Grow(p, sz[p], n) /\ sz[p] \in 0 .. NPages
      BY Zenon, <1>10, GrowSeen DEF J, TypeOK
    <2> QED BY <2>1 DEF AS!Next
  <1>11. ASSUME NEW p \in Proc, NEW n \in 0 .. NPages, shrink(p, n)
         PROVE  AS!Next
    <2>1. AS!Shrink(p, n)
      BY <1>11, ShrinkSeen
    <2> QED BY <2>1 DEF AS!Next
  <1>12. ASSUME NEW p \in Proc, NEW t \in TextPages, NEW x \in Value, exec(p, t, x)
         PROVE  AS!Next
    <2>1. AS!Exec(p, t, x)
      BY <1>12, ExecSeen
    <2> QED BY <2>1 DEF AS!Next
  <1>13. ASSUME NEW p \in Proc, NEW v \in Page, NEW x \in Value, store(p, v, x)
         PROVE  AS!Next
    <2>1. AS!Store(p, v, x)
      BY <1>13, StoreSeen
    <2> QED BY <1>7, <2>1 DEF AS!Next
  <1>14. ASSUME NEW p \in Proc, NEW x \in Value, syscall_return(p, x)
         PROVE  AS!Next
    <2>1. PICK v \in Page : AS!Store(p, v, x)
      BY <1>14, ReturnSeen
    <2> QED BY <1>7, <2>1 DEF AS!Next
  <1> QED
    BY <1>1, <1>2, <1>3, <1>4, <1>5, <1>6, <1>8, <1>9, <1>10, <1>11, <1>12, <1>13, <1>14
    DEF Next

-----------------------------------------------------------------------------
INSTANCE FiniteSetTheorems

(* What the lemmas assume of finite sets is what the library proves.       *)
LEMMA Counts == Counting
  <1>1. /\ IsFiniteSet({}) /\ Cardinality({}) = 0
        /\ \A S : IsFiniteSet(S) => (Cardinality(S) = 0 <=> S = {})
    BY Zenon, FS_EmptySet
  <1>2. \A S : IsFiniteSet(S) => Cardinality(S) \in Nat
    BY Zenon, FS_CardinalityType
  <1>3. /\ \A x : IsFiniteSet({x}) /\ Cardinality({x}) = 1
        /\ \A S : IsFiniteSet(S) => (Cardinality(S) = 1 <=> \E x : S = {x})
    BY Zenon, FS_Singleton
  <1>4. \A S, T : IsFiniteSet(S) /\ T \in SUBSET S
                 => IsFiniteSet(T) /\ Cardinality(T) <= Cardinality(S)
    BY Zenon, FS_Subset
  <1>5. ASSUME NEW S, NEW x, IsFiniteSet(S)
        PROVE  /\ IsFiniteSet(S \cup {x}) /\ IsFiniteSet(S \ {x})
               /\ x \notin S => Cardinality(S \cup {x}) = Cardinality(S) + 1
               /\ x \in S => Cardinality(S \ {x}) = Cardinality(S) - 1
    BY <1>5, FS_AddElement, FS_RemoveElement
  <1> QED BY Zenon, <1>1, <1>2, <1>3, <1>4, <1>5 DEF Counting

(* In every execution in which no lineage mixes fork with forkcow and no   *)
(* process shrinks to nothing, whatever the number of processes up to      *)
(* NPROC, frames and pages: the page tables, p->sz, kmem.freelist and      *)
(* pg_refcount satisfy IInv.                                               *)
THEOREM Invariance ==
  ASSUME ~MixForks, ~ShrinkToZero
  PROVE  Spec => []IInv
  <1>1. Init => J
    BY Counts, InitJ
  <1>2. J /\ [Next]_vars => J'
    BY Counts, NextJ
  <1>3. J => IInv
    BY JIsIInv
  <1> QED BY <1>1, <1>2, <1>3, PTL DEF Spec

(* The counters never leave the range of a signed char, and every other    *)
(* variable keeps its type.                                                *)
THEOREM TypeCorrectness ==
  ASSUME ~MixForks, ~ShrinkToZero
  PROVE  Spec => []TypeOK
  <1>1. IInv => TypeOK
    BY DEF IInv
  <1> QED BY <1>1, Invariance, PTL

(* "There is no shared writable memory" (syscall.c:74) holds with          *)
(* copy-on-write.                                                          *)
THEOREM NoSharing ==
  ASSUME ~MixForks, ~ShrinkToZero
  PROVE  Spec => []NoSharedWritable
  <1>1. IInv => NoSharedWritable
    BY DEF IInv
  <1> QED BY <1>1, Invariance, PTL

(* deallocuvm never frees a page that is still mapped, and kalloc never    *)
(* hands out one.                                                          *)
THEOREM NoUseAfterFree ==
  ASSUME ~MixForks, ~ShrinkToZero
  PROVE  Spec => []FreeUnmapped
  <1>1. IInv => FreeUnmapped
    BY DEF IInv
  <1> QED BY <1>1, Invariance, PTL

(* The panics in copyuvm, copyuvmcow and pagefault are unreachable.        *)
THEOREM VmDoesNotPanic ==
  ASSUME ~MixForks, ~ShrinkToZero
  PROVE  Spec => []NoVmPanic
  <1>1. IInv => NoVmPanic
    BY DEF IInv
  <1> QED BY <1>1, Invariance, PTL

(* Where programs call forkcow and not fork, pg_refcount is exact: every   *)
(* ++ and -- of vm.c is matched by a mapping, so that a frame leaves the   *)
(* page tables by way of kfree (vm.c:276) and none is lost.                *)
THEOREM CountersExact ==
  ASSUME ~MixForks, ~ShrinkToZero, "fork" \notin Forks
  PROVE  Spec => [](Exact /\ NoLeak)
  <1>1. Init => J
    BY Counts, InitJ
  <1>2. J /\ [Next]_vars => J'
    BY Counts, NextJ
  <1>3. J => Exact /\ NoLeak
    BY DEF J, Tracked, Accounted, Exact, NoLeak
  <1> QED BY <1>1, <1>2, <1>3, PTL DEF Spec

(* Copy-on-write cannot be told from copying.  Seen through the page       *)
(* tables (Memory), every system call, fault and store of vm.c, proc.c and *)
(* exec.c is one step of private address spaces, or is not seen at all.    *)
THEOREM CowIsCopying ==
  ASSUME ~MixForks, ~ShrinkToZero
  PROVE  Spec => Isolation
  <1>1. Init => J /\ AS!Init
    BY Counts, InitJ, InitSeen
  <1>2. J /\ [Next]_vars => J'
    BY Counts, NextJ
  <1>3. J /\ [Next]_vars => [AS!Next]_Memory
    BY Counts, NextSeen
  <1> QED BY <1>1, <1>2, <1>3, PTL DEF Spec, Isolation, AS!Spec
=============================================================================
