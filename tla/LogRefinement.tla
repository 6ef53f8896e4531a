--------------------------- MODULE LogRefinement ---------------------------
(***************************************************************************)
(* The log implements the atomic disk.  The disk as recovery would make it *)
(* is the durable state: it changes at the commit point and nowhere else.  *)
(* Last, the space of the log: what begin_op sets aside is enough.         *)
(***************************************************************************)
EXTENDS LogProofs

-----------------------------------------------------------------------------
(* What recovery makes of a header, the log's blocks and the disk.         *)
After(hd, sl, hm) ==
    [b \in Block |-> IF InHeader(hd, b) THEN sl[CHOOSE i \in DOMAIN hd : hd[i] = b] ELSE hm[b]]

(* The log has c's blocks where the header names one, the disk elsewhere.  *)
Has(hd, sl, hm, c) ==
    /\ c = [b \in Block |-> c[b]]
    /\ \A i \in 1 .. Len(hd) : sl[i] = c[hd[i]]
    /\ \A b \in Block : ~InHeader(hd, b) => hm[b] = c[b]

(* What recovery would leave on disk is c when the log and the home        *)
(* blocks together say c (install_trans).                                  *)
LEMMA AfterIs ==
  ASSUME NEW hd \in Seq(Block), NEW sl, NEW hm, NEW c, Has(hd, sl, hm, c)
  PROVE  After(hd, sl, hm) = c
  <1> USE DEF Has
  <1>1. ASSUME NEW b \in Block, InHeader(hd, b)
        PROVE  sl[CHOOSE i \in DOMAIN hd : hd[i] = b] = c[b]
    <2> DEFINE k == CHOOSE i \in DOMAIN hd : hd[i] = b
    <2>1. DOMAIN hd = 1 .. Len(hd)
      OBVIOUS
    <2>2. \E i \in DOMAIN hd : hd[i] = b
      BY <1>1, <2>1 DEF InHeader
    <2>3. k \in DOMAIN hd /\ hd[k] = b
      BY <2>2
    <2> HIDE DEF k
    <2> QED
      BY <2>1, <2>3 DEF k
  <1>2. \A b \in Block : (IF InHeader(hd, b) THEN sl[CHOOSE i \in DOMAIN hd : hd[i] = b]
                                             ELSE hm[b]) = c[b]
    BY Zenon, <1>1
  <1> QED
    BY <1>2, Zenon DEF After

(* An empty header: recovery leaves the disk as it is.                     *)
LEMMA AfterNothing ==
  ASSUME NEW sl, NEW hm \in [Block -> Value]
  PROVE  After(<<>>, sl, hm) = hm
  <1>1. <<>> \in Seq(Block) /\ Len(<<>>) = 0
    OBVIOUS
  <1>2. Has(<<>>, sl, hm, hm)
    BY <1>1 DEF Has
  <1> QED
    BY Zenon, <1>1, <1>2, AfterIs

(* What a consistent header's blocks become.                               *)
LEMMA AfterOf ==
  ASSUME NEW hd \in Seq(Block), NEW sl, NEW hm,
         \A i, j \in 1 .. Len(hd) : hd[i] = hd[j] => sl[i] = sl[j]
  PROVE  Has(hd, sl, hm, After(hd, sl, hm))
  <1>1. ASSUME NEW i \in 1 .. Len(hd)
        PROVE  sl[i] = After(hd, sl, hm)[hd[i]]
    <2> DEFINE k == CHOOSE j \in DOMAIN hd : hd[j] = hd[i]
    <2>1. DOMAIN hd = 1 .. Len(hd) /\ hd[i] \in Block
      OBVIOUS
    <2>2. InHeader(hd, hd[i])
      BY DEF InHeader
    <2>3. k \in 1 .. Len(hd) /\ hd[k] = hd[i]
      BY <2>1
    <2>4. After(hd, sl, hm)[hd[i]] = sl[k]
      BY <2>1, <2>2 DEF After
    <2> HIDE DEF k
    <2> QED
      BY <2>3, <2>4
  <1>2. \A b \in Block : ~InHeader(hd, b) => After(hd, sl, hm)[b] = hm[b]
    BY DEF After
  <1>3. After(hd, sl, hm) = [b \in Block |-> After(hd, sl, hm)[b]]
    BY DEF After
  <1> QED
    BY Zenon, <1>1, <1>2, <1>3 DEF Has

(* Recovered, and its value after a step, as instances of After.           *)
LEMMA RecoveredIs ==
  /\ Recovered = After(head, slot, home)
  /\ Recovered' = After(head', slot', home')
  BY DEF Recovered, After

(* From the commit point to the end of the installation, recovery would    *)
(* make the disk what the cache is.                                        *)
LEMMA Committed ==
  ASSUME IInv, boot = "up", panicked = "no", NEW p \in Proc,
         pc[p] \in {"write_head", "install_trans", "erase"},
         NEW hm, \A b \in Block : ~InHeader(lh, b) => hm[b] = home[b]
  PROVE  After(lh, slot, hm) = cache
  <1>1. lh \in Seq(Block) /\ cache \in [Block -> Value] /\ dirty \subseteq Block
    BY Facts
  <1>2. UpOK
    BY DEF IInv
  <1>3. \A i \in 1 .. Len(lh) : slot[i] = cache[lh[i]]
    BY <1>2 DEF UpOK, StageOK
  <1>4. \A b \in Block : b \notin dirty => cache[b] = home[b]
    BY Alone DEF Committer
  <1>5. \A b \in Block : ~InHeader(lh, b) => b \notin dirty
    BY <1>2 DEF UpOK, InHeader
  <1>6. \A b \in Block : ~InHeader(lh, b) => hm[b] = cache[b]
    BY <1>4, <1>5
  <1>7. cache = [b \in Block |-> cache[b]]
    BY <1>1
  <1>8. Has(lh, slot, hm, cache)
    BY Zenon, <1>3, <1>6, <1>7 DEF Has
  <1> QED
    BY <1>1, <1>8, AfterIs

(* Every step of the log is a step of AtomicDisk or changes nothing of     *)
(* it.                                                                     *)
LEMMA RefinementStep ==
  ASSUME IInv, Next
  PROVE  Disk!Next \/ UNCHANGED Disk!vars
  <1> DEFINE current == IF boot = "up" THEN cache ELSE Recovered
  <1>t. /\ lh \in Seq(Block) /\ head \in Seq(Block)
        /\ pc \in [Proc -> Place] /\ home \in [Block -> Value] /\ cache \in [Block -> Value]
        /\ slot \in [1 .. MaxLen -> Value]
    BY Facts
  <1>v. UNCHANGED <<Recovered, current, Active>> => UNCHANGED Disk!vars
    BY DEF Disk!vars, Active
  <1>s. \A p \in Proc : write_log(p) \/ write_head(p) \/ install_trans(p) \/ erase(p) \/ committed(p)
           => /\ boot = "up" /\ boot' = "up" /\ panicked = "no" /\ pc[p] \in Committer
              /\ Active' = Active
    BY <1>t DEF write_log, write_head, install_trans, erase, committed, Writing, Up, CommitPoint,
                Committer, Goto, wakeup, Active
  <1>1. ASSUME NEW p \in Proc, begin_op(p)
        PROVE  Disk!Next \/ UNCHANGED Disk!vars
    <2>1. /\ UNCHANGED <<home, slot, head, cache, boot>> /\ boot = "up"
          /\ pc[p] \in {"idle", "awake"}
          /\ pc' = [pc EXCEPT ![p] = "asleep"] \/ pc' = [pc EXCEPT ![p] = "op"]
      BY <1>1 DEF begin_op, disk, Goto, Up
    <2>2. Recovered' = Recovered
      BY <2>1, RecoveredIs
    <2>3. CASE pc' = [pc EXCEPT ![p] = "asleep"]
      <3>1. Active' = Active
        BY <1>t, <2>1, <2>3 DEF Active
      <3> QED
        BY <1>v, <2>1, <2>2, <3>1
    <2>4. CASE pc' = [pc EXCEPT ![p] = "op"]
      <3>1. Active' = Active \cup {p} /\ p \notin Active
        BY <1>t, <2>1, <2>4 DEF Active
      <3>2. Disk!Begin(p)
        BY <2>1, <2>2, <3>1 DEF Disk!Begin, Active
      <3> QED
        BY <3>2 DEF Disk!Next
    <2> QED
      BY <2>1, <2>3, <2>4
  <1>2. ASSUME NEW p \in Proc, kill(p) \/ log_write(p)
        PROVE  Disk!Next \/ UNCHANGED Disk!vars
    <2>1. UNCHANGED <<home, slot, head, cache, boot>> /\ Active' = Active
      BY <1>2, <1>t DEF kill, log_write, disk, Goto, Active
    <2> QED
      BY <1>v, <2>1, RecoveredIs
  <1>3. ASSUME NEW p \in Proc, NEW b \in Block, NEW x \in Value, modify(p, b, x)
        PROVE  Disk!Next \/ UNCHANGED Disk!vars
    <2>1. /\ UNCHANGED <<home, slot, head, boot>> /\ boot = "up" /\ pc[p] = "op"
          /\ cache' = [cache EXCEPT ![b] = x]
      BY Zenon, <1>3 DEF modify, disk, Up
    <2>2. pc' = pc \/ pc' = [pc EXCEPT ![p] = "log_write"]
      <3>1. CASE TooBig \/ outstanding < 1
        BY Zenon, <1>3, <3>1 DEF modify
      <3>2. CASE ~(TooBig \/ outstanding < 1)
        BY <1>3, <3>2 DEF modify, Goto
      <3> QED
        BY <3>1, <3>2
    <2>3. Active' = Active /\ p \in Active
      BY <1>t, <2>1, <2>2 DEF Active
    <2>4. Recovered' = Recovered
      BY <2>1, RecoveredIs
    <2>5. Disk!Write(p, b, x)
      BY <2>1, <2>3, <2>4 DEF Disk!Write, Active
    <2> QED
      BY <2>5 DEF Disk!Next
  <1>4. ASSUME NEW p \in Proc, end_op(p)
        PROVE  Disk!Next \/ UNCHANGED Disk!vars
    <2>1. UNCHANGED <<home, slot, head, cache, boot>> /\ pc[p] = "op"
      BY <1>4 DEF end_op, disk
    <2>2. Active' = Active \ {p} /\ p \in Active
      <3>1. CASE LastOut
        BY <1>t, <1>4, <2>1, <3>1 DEF end_op, Goto, Active
      <3>2. CASE ~LastOut
        BY <1>t, <1>4, <2>1, <3>2 DEF end_op, wakeup, Active
      <3> QED
        BY <3>1, <3>2
    <2>3. Recovered' = Recovered
      BY <2>1, RecoveredIs
    <2>4. Disk!End(p)
      BY <2>1, <2>2, <2>3 DEF Disk!End, Active
    <2> QED
      BY <2>4 DEF Disk!Next
  <1>5. ASSUME NEW p \in Proc, write_log(p)
        PROVE  Disk!Next \/ UNCHANGED Disk!vars
    <2>1. UNCHANGED <<home, head, cache>> /\ pc[p] = "write_log"
      BY <1>5 DEF write_log, Writing
    <2>2. head = <<>>
      <3>1. UpOK /\ \A q \in Proc : q # p => pc[q] \notin Committer
        BY <1>5, <1>s, Alone DEF IInv
      <3> QED
        BY <2>1, <3>1 DEF UpOK, Committer
    <2>3. Recovered' = Recovered
      BY <1>t, <2>1, <2>2, RecoveredIs, AfterNothing
    <2> QED
      BY <1>5, <1>s, <1>v, <2>1, <2>3
  <1>6. ASSUME NEW p \in Proc, write_head(p)
        PROVE  Disk!Next \/ UNCHANGED Disk!vars
    <2>1. UNCHANGED <<home, slot, cache>> /\ head' = lh /\ pc[p] = "write_head"
      BY <1>6 DEF write_head, Writing, CommitPoint
    <2>2. Active = {}
      BY <1>6, <1>s, Alone
    <2>3. After(lh, slot, home) = cache
      BY <1>6, <1>s, <2>1, Committed
    <2>4. Recovered' = cache
      BY <2>1, <2>3, RecoveredIs
    <2>5. Disk!Commit
      BY <1>6, <1>s, <2>1, <2>2, <2>4 DEF Disk!Commit, Active
    <2> QED
      BY <2>5 DEF Disk!Next
  <1>7. ASSUME NEW p \in Proc, install_trans(p)
        PROVE  Disk!Next \/ UNCHANGED Disk!vars
    <2>1. /\ home' = [home EXCEPT ![lh[tail]] = slot[tail]]
          /\ cache' = [cache EXCEPT ![lh[tail]] = slot[tail]]
          /\ UNCHANGED <<slot, head, lh>> /\ pc[p] = "install_trans"
      BY <1>7 DEF install_trans, Install, Writing
    <2>2. /\ tail \in 1 .. Len(lh) /\ head = lh
          /\ \A i \in 1 .. Len(lh) : slot[i] = cache[lh[i]]
      <3>1. StageOK(p)
        BY <1>7, <1>s DEF IInv, UpOK
      <3> QED
        BY <2>1, <3>1 DEF StageOK
    <2>3. cache' = cache
      BY <1>t, <2>1, <2>2
    <2>4. \A b \in Block : ~InHeader(lh, b) => home'[b] = home[b]
      BY <1>t, <2>1, <2>2 DEF InHeader
    <2>5. After(lh, slot, home) = cache /\ After(lh, slot, home') = cache
      BY Zenon, <1>7, <1>s, <2>1, <2>4, Committed
    <2>6. Recovered' = Recovered
      BY <2>1, <2>2, <2>5, RecoveredIs
    <2> QED
      BY <1>7, <1>s, <1>v, <2>3, <2>6
  <1>8. ASSUME NEW p \in Proc, erase(p)
        PROVE  Disk!Next \/ UNCHANGED Disk!vars
    <2>1. UNCHANGED <<home, slot, cache>> /\ head' = <<>> /\ pc[p] = "erase"
      BY <1>8 DEF erase, Writing
    <2>2. head = lh /\ dirty = {}
      BY <1>8, <1>s, <2>1 DEF IInv, UpOK, StageOK
    <2>3. Recovered = cache
      <3>1. After(lh, slot, home) = cache
        BY <1>8, <1>s, <2>1, Committed
      <3> QED
        BY <2>2, <3>1, RecoveredIs
    <2>4. Recovered' = home
      BY <1>t, <2>1, RecoveredIs, AfterNothing
    <2>5. cache = home
      <3>1. \A b \in Block : cache[b] = home[b]
        BY <1>8, <1>s, <2>2, Alone
      <3> QED
        BY <1>t, <3>1
    <2> QED
      BY <1>8, <1>s, <1>v, <2>1, <2>3, <2>4, <2>5
  <1>9. ASSUME NEW p \in Proc, committed(p)
        PROVE  Disk!Next \/ UNCHANGED Disk!vars
    <2>1. UNCHANGED <<home, slot, head, cache>>
      BY <1>9 DEF committed, disk
    <2> QED
      BY <1>9, <1>s, <1>v, <2>1, RecoveredIs
  <1>10. CASE crash
    <2>1. UNCHANGED <<home, slot, head>> /\ boot' # "up" /\ Active' = {}
      BY <1>10 DEF crash, disk, Active
    <2>2. Recovered' = Recovered
      BY <2>1, RecoveredIs
    <2>3. Disk!Crash
      BY <2>1, <2>2 DEF Disk!Crash, Active
    <2> QED
      BY <2>3 DEF Disk!Next
  <1>11. CASE read_head
    <2>1. UNCHANGED <<home, slot, head>> /\ boot # "up" /\ boot' # "up" /\ Active' = Active
      BY <1>11 DEF read_head, disk, ops, Active
    <2> QED
      BY <1>v, <2>1, RecoveredIs
  <1>12. CASE recover_install
    <2>1. /\ home' = [home EXCEPT ![lh[tail]] = slot[tail]]
          /\ UNCHANGED <<slot, head>> /\ boot = "install_trans" /\ boot' # "up" /\ Active' = Active
      BY <1>12 DEF recover_install, Install, ops, Active
    <2>2. tail \in 1 .. Len(head) /\ lh = head
      BY <2>1 DEF IInv, BootOK
    <2>3. \A i, j \in 1 .. Len(head) : head[i] = head[j] => slot[i] = slot[j]
      BY DEF IInv, Consistent
    <2>4. \A b \in Block : ~InHeader(head, b) => home'[b] = home[b]
      BY <1>t, <2>1, <2>2 DEF InHeader
    <2>5. After(head, slot, home') = After(head, slot, home)
      <3>1. Has(head, slot, home, After(head, slot, home))
        BY Zenon, <1>t, <2>3, AfterOf
      <3>2. Has(head, slot, home', After(head, slot, home))
        BY <2>4, <3>1, Zenon DEF Has
      <3> QED
        BY <1>t, <3>2, AfterIs
    <2>6. Recovered' = Recovered
      BY <2>1, <2>5, RecoveredIs
    <2> QED
      BY <1>v, <2>1, <2>6
  <1>13. CASE recover_erase
    <2>1. /\ UNCHANGED <<home, slot, cache>> /\ head' = <<>> /\ boot = "erase" /\ boot' = "up"
          /\ Active' = Active
      BY <1>13 DEF recover_erase, ops, Active
    <2>2. cache = home /\ \A i \in 1 .. Len(head) : slot[i] = home[head[i]]
      BY <2>1 DEF IInv, BootOK
    <2>3. Recovered' = home
      BY <1>t, <2>1, RecoveredIs, AfterNothing
    <2>4. Recovered = home
      <3>1. Has(head, slot, home, home)
        BY <1>t, <2>2 DEF Has
      <3>2. After(head, slot, home) = home
        BY <1>t, <3>1, AfterIs
      <3> QED
        BY <3>2, RecoveredIs
    <2> QED
      BY <1>v, <2>1, <2>2, <2>3, <2>4
  <1> QED
    BY <1>1, <1>2, <1>3, <1>4, <1>5, <1>6, <1>7, <1>8, <1>9, <1>10, <1>11, <1>12, <1>13 DEF Next

(* Crash safety: whatever the calls write and wherever the machine stops,  *)
(* recovery included, the log implements the disk on which a group of      *)
(* whole calls happens at once or not at all.                              *)
THEOREM CrashSafety == Spec => CrashSafe
  <1>1. Init => Disk!Init
    <2> SUFFICES ASSUME Init
                 PROVE  Disk!Init
      OBVIOUS
    <2>1. home = [b \in Block |-> Zero] /\ head = <<>> /\ boot # "up" /\ home \in [Block -> Value]
      BY Sizes DEF Init
    <2>2. Recovered = home
      BY <2>1, RecoveredIs, AfterNothing
    <2>3. Active = {}
      BY DEF Init, Active
    <2> QED
      BY <2>1, <2>2, <2>3 DEF Disk!Init, Active
  <1>2. IInv /\ [Next]_vars => [Disk!Next]_(Disk!vars)
    <2>1. ASSUME UNCHANGED vars
          PROVE  UNCHANGED Disk!vars
      BY <2>1 DEF vars, disk, ops, Disk!vars, Recovered
    <2> QED
      BY <2>1, RefinementStep
  <1> QED
    BY <1>1, <1>2, Invariance, PTL DEF Spec, CrashSafe, Disk!Spec

-----------------------------------------------------------------------------
(***************************************************************************)
(* The space of the log.                                                   *)
(*                                                                         *)
(* Spare has one pair for each block that a call in progress may still add *)
(* to the log, as begin_op set it aside; a call never uses its last pair.  *)
(* Entries and pairs together fit in LOGSIZE.  But one block of the log on *)
(* disk is the header, so one entry must stay unused even when a call      *)
(* writes a block again that is in the log already.  While two calls are   *)
(* in progress their last pairs are two; a call that ends leaves its last  *)
(* pair behind; and a call that begins alone begins with an empty log.     *)
(***************************************************************************)
Roomy == OpBlocks < MAXOPBLOCKS /\ MAXOPBLOCKS < LOGSIZE /\ LOGSIZE <= nlog

SpareOf(A, used) == {x \in A \X (1 .. MAXOPBLOCKS) : x[2] > used[x[1]]}

In(b, l) == \E i \in 1 .. Len(l) : l[i] = b
UsedOf(w, l) == [p \in Proc |-> Cardinality({b \in w[p] : In(b, l)})]

Spare == SpareOf(Active, UsedOf(wrote, lh))

Few(w) == \A p \in Proc : IsFiniteSet(w[p]) /\ Cardinality(w[p]) <= OpBlocks
WroteOK == Few(wrote) /\ \A p \in Proc : held[p] # NoBlock => held[p] \in wrote[p]

Reserved ==
    Active # {} => Len(lh) + Cardinality(Spare) <= IF outstanding = 1 THEN LOGSIZE - 1 ELSE LOGSIZE

SpaceInv ==
    /\ panicked = "no"
    /\ Len(lh) < LOGSIZE /\ Len(head) < LOGSIZE
    /\ WroteOK
    /\ Reserved
    /\ boot = "up" /\ ~committing /\ Active = {} => lh = <<>>

(* What begin_op sets aside for the calls in A (log.c:132).                *)
LEMMA SpareSize ==
  ASSUME NEW A \in SUBSET Proc, NEW used
  PROVE  /\ IsFiniteSet(SpareOf(A, used)) /\ Cardinality(SpareOf(A, used)) \in Nat
         /\ Cardinality(SpareOf(A, used)) <= Cardinality(A) * MAXOPBLOCKS
  <1>1. IsFiniteSet(A) /\ MAXOPBLOCKS \in Nat /\ MAXOPBLOCKS >= 1
    BY PartOfProc, Sizes
  <1>2. IsFiniteSet(1 .. MAXOPBLOCKS) /\ Cardinality(1 .. MAXOPBLOCKS) = MAXOPBLOCKS
    BY <1>1, FS_Interval
  <1> DEFINE T == A \X (1 .. MAXOPBLOCKS)
  <1>3. IsFiniteSet(T) /\ Cardinality(T) = Cardinality(A) * MAXOPBLOCKS
    BY Zenon, <1>1, <1>2, FS_Product
  <1>4. SpareOf(A, used) \in SUBSET T
    BY DEF SpareOf
  <1> HIDE DEF T
  <1>5. IsFiniteSet(SpareOf(A, used)) /\ Cardinality(SpareOf(A, used)) <= Cardinality(T)
    BY <1>3, <1>4, FS_Subset
  <1> QED
    BY <1>3, <1>5, FS_CardinalityType

(* Calls that end and blocks that are logged leave fewer pairs.            *)
LEMMA SpareShrinks ==
  ASSUME NEW A \in SUBSET Proc, NEW B \in SUBSET A,
         NEW u \in [Proc -> Nat], NEW w \in [Proc -> Nat], \A q \in B : u[q] <= w[q]
  PROVE  /\ SpareOf(B, w) \subseteq SpareOf(A, u)
         /\ Cardinality(SpareOf(B, w)) <= Cardinality(SpareOf(A, u))
  <1>1. MAXOPBLOCKS \in Nat
    BY Sizes
  <1>2. SpareOf(B, w) \subseteq SpareOf(A, u)
    <2> SUFFICES ASSUME NEW x \in SpareOf(B, w)
                 PROVE  x \in SpareOf(A, u)
      OBVIOUS
    <2>1. x \in B \X (1 .. MAXOPBLOCKS) /\ x[2] > w[x[1]]
      BY DEF SpareOf
    <2>2. x[1] \in B /\ x[2] \in Nat /\ u[x[1]] \in Nat /\ w[x[1]] \in Nat /\ u[x[1]] <= w[x[1]]
      BY <1>1, <2>1
    <2>3. x \in A \X (1 .. MAXOPBLOCKS) /\ x[2] > u[x[1]]
      BY <2>1, <2>2
    <2> QED
      BY <2>3 DEF SpareOf
  <1>3. IsFiniteSet(SpareOf(A, u))
    BY Zenon, SpareSize
  <1> QED
    BY <1>2, <1>3, FS_Subset

(* The call p ends with pairs left, or logs a block: one pair less.        *)
LEMMA SpareLoses ==
  ASSUME NEW A \in SUBSET Proc, NEW B \in SUBSET A,
         NEW u \in [Proc -> Nat], NEW w \in [Proc -> Nat], \A q \in B : u[q] <= w[q],
         NEW p \in A, u[p] < MAXOPBLOCKS, p \notin B \/ u[p] < w[p]
  PROVE  Cardinality(SpareOf(B, w)) + 1 <= Cardinality(SpareOf(A, u))
  <1>1. MAXOPBLOCKS \in Nat /\ u[p] \in Nat /\ w[p] \in Nat
    BY Sizes
  <1> DEFINE x == <<p, u[p] + 1>>
  <1>2. x \in SpareOf(A, u)
    <2>1. u[p] + 1 \in 1 .. MAXOPBLOCKS /\ u[p] + 1 > u[p]
      BY <1>1
    <2> QED
      BY <2>1 DEF SpareOf
  <1>3. x \notin SpareOf(B, w)
    <2>1. CASE p \notin B
      BY <2>1 DEF SpareOf
    <2>2. CASE u[p] < w[p]
      <3>1. ~(u[p] + 1 > w[p])
        BY <1>1, <2>2
      <3> QED
        BY <3>1 DEF SpareOf
    <2> QED
      BY <2>1, <2>2
  <1>4. SpareOf(B, w) \subseteq SpareOf(A, u)
    BY SpareShrinks
  <1> HIDE DEF x
  <1>5. /\ IsFiniteSet(SpareOf(A, u)) /\ Cardinality(SpareOf(A, u)) \in Nat
        /\ Cardinality(SpareOf(B, w)) \in Nat
    BY Zenon, SpareSize
  <1>6. /\ IsFiniteSet(SpareOf(A, u) \ {x})
        /\ Cardinality(SpareOf(A, u) \ {x}) = Cardinality(SpareOf(A, u)) - 1
    BY <1>2, <1>5, FS_RemoveElement
  <1>7. Cardinality(SpareOf(B, w)) <= Cardinality(SpareOf(A, u) \ {x})
    BY <1>3, <1>4, <1>6, FS_Subset
  <1> QED
    BY <1>5, <1>6, <1>7

(* Every call has its last pair.                                           *)
LEMMA LastPairs ==
  ASSUME NEW A \in SUBSET Proc, NEW u \in [Proc -> Nat], \A q \in A : u[q] < MAXOPBLOCKS,
         NEW p \in A
  PROVE  /\ Cardinality(SpareOf(A, u)) >= 1
         /\ Cardinality(A) # 1 => Cardinality(SpareOf(A, u)) >= 2
  <1>1. \A B \in SUBSET Proc : Cardinality(SpareOf(B, u)) \in Nat
    BY SpareSize
  <1>2. \A q \in Proc : u[q] <= u[q]
    OBVIOUS
  <1>3. ASSUME NEW B \in SUBSET A, NEW q \in B
        PROVE  Cardinality(SpareOf(B \ {q}, u)) + 1 <= Cardinality(SpareOf(B, u))
    <2>1. B \in SUBSET Proc /\ B \ {q} \in SUBSET B /\ u[q] < MAXOPBLOCKS /\ q \notin B \ {q}
      BY <1>3
    <2> QED
      BY <1>2, <2>1, SpareLoses
  <1>4. /\ Cardinality(SpareOf(A \ {p}, u)) + 1 <= Cardinality(SpareOf(A, u))
        /\ Cardinality(SpareOf(A \ {p}, u)) \in Nat /\ Cardinality(SpareOf(A, u)) \in Nat
    BY <1>1, <1>3
  <1>5. ASSUME Cardinality(A) # 1
        PROVE  Cardinality(SpareOf(A, u)) >= 2
    <2>1. PICK q \in A \ {p} : TRUE
      <3>1. IsFiniteSet(A)
        BY PartOfProc
      <3>2. A # {p}
        BY <1>5, <3>1, FS_Singleton
      <3> QED
        BY <3>2
    <2> DEFINE B == A \ {p}
    <2>2. B \in SUBSET A /\ q \in B /\ B \ {q} \in SUBSET Proc
      OBVIOUS
    <2> HIDE DEF B
    <2>3. Cardinality(SpareOf(B \ {q}, u)) + 1 <= Cardinality(SpareOf(B, u))
      BY <1>3, <2>2
    <2>4. Cardinality(SpareOf(B \ {q}, u)) \in Nat
      BY <1>1, <2>2
    <2>5. Cardinality(SpareOf(B, u)) + 1 <= Cardinality(SpareOf(A, u)) /\ Cardinality(SpareOf(B, u)) \in Nat
      BY <1>4 DEF B
    <2> QED
      BY <1>4, <2>3, <2>4, <2>5
  <1> QED
    BY <1>4, <1>5

(* What a call in progress has used of its pairs.                          *)
LEMMA UsedFacts ==
  ASSUME Roomy, NEW w, Few(w), NEW l
  PROVE  /\ UsedOf(w, l) \in [Proc -> Nat] /\ \A q \in Proc : UsedOf(w, l)[q] < MAXOPBLOCKS
         /\ \A q \in Proc : IsFiniteSet({b \in w[q] : In(b, l)})
  <1>1. OpBlocks \in Nat /\ MAXOPBLOCKS \in Nat
    BY LogAssumption, Sizes DEF filewrite_max
  <1>2. ASSUME NEW q \in Proc
        PROVE  LET U == {b \in w[q] : In(b, l)}
               IN  IsFiniteSet(U) /\ Cardinality(U) \in Nat /\ Cardinality(U) < MAXOPBLOCKS
    <2> DEFINE U == {b \in w[q] : In(b, l)}
    <2>1. IsFiniteSet(w[q]) /\ Cardinality(w[q]) \in Nat /\ Cardinality(w[q]) <= OpBlocks
      BY FS_CardinalityType DEF Few
    <2>2. U \in SUBSET w[q]
      OBVIOUS
    <2> HIDE DEF U
    <2>3. IsFiniteSet(U) /\ Cardinality(U) <= Cardinality(w[q]) /\ Cardinality(U) \in Nat
      BY <2>1, <2>2, FS_Subset, FS_CardinalityType
    <2>4. Cardinality(U) < MAXOPBLOCKS
      BY <1>1, <2>1, <2>3 DEF Roomy
    <2> QED
      BY <2>3, <2>4 DEF U
  <1> QED
    BY <1>2 DEF UsedOf

(* It uses more when it writes and logs more.                              *)
LEMMA UsedGrows ==
  ASSUME Roomy, NEW w, NEW w2, Few(w), Few(w2), NEW l, NEW l2, NEW q \in Proc,
         w[q] \subseteq w2[q], \A b \in w[q] : In(b, l) => In(b, l2)
  PROVE  /\ UsedOf(w, l)[q] <= UsedOf(w2, l2)[q]
         /\ \A b \in w2[q] : In(b, l2) /\ ~In(b, l) => UsedOf(w, l)[q] < UsedOf(w2, l2)[q]
  <1> DEFINE U == {b \in w[q] : In(b, l)}
             V == {b \in w2[q] : In(b, l2)}
  <1>1. IsFiniteSet(U) /\ IsFiniteSet(V)
    BY Zenon, UsedFacts
  <1>2. U \in SUBSET V
    OBVIOUS
  <1>3. UsedOf(w, l)[q] = Cardinality(U) /\ UsedOf(w2, l2)[q] = Cardinality(V)
    BY DEF UsedOf
  <1>4. ASSUME NEW b \in w2[q], In(b, l2) /\ ~In(b, l)
        PROVE  U # V
    BY <1>4
  <1> HIDE DEF U, V
  <1>5. Cardinality(U) \in Nat /\ Cardinality(V) \in Nat /\ Cardinality(U) <= Cardinality(V)
    BY <1>1, <1>2, FS_Subset, FS_CardinalityType
  <1>6. U # V => Cardinality(U) # Cardinality(V)
    BY <1>1, <1>2, FS_Subset
  <1>7. U # V => Cardinality(U) < Cardinality(V)
    BY <1>5, <1>6
  <1> QED
    BY <1>3, <1>4, <1>5, <1>7

(* With a call in progress the log has two entries left, one of them for   *)
(* the header: the test of log_write (log.c:218) does not fire.            *)
LEMMA NotTooBig ==
  ASSUME Roomy, IInv, SpaceInv, Active # {}
  PROVE  Len(lh) <= LOGSIZE - 2
  <1>1. Len(lh) \in Nat /\ LOGSIZE \in Nat
    BY Facts, Sizes
  <1>2. Active \in SUBSET Proc
    BY DEF Active
  <1>3. PICK p \in Active : TRUE
    OBVIOUS
  <1>4. /\ Cardinality(Spare) >= 1 /\ Cardinality(Spare) \in Nat
        /\ Cardinality(Active) # 1 => Cardinality(Spare) >= 2
    <2>1. UsedOf(wrote, lh) \in [Proc -> Nat] /\ \A q \in Active : UsedOf(wrote, lh)[q] < MAXOPBLOCKS
      BY <1>2, UsedFacts DEF SpaceInv, WroteOK
    <2> QED
      BY Zenon, <1>2, <1>3, <2>1, LastPairs, SpareSize DEF Spare
  <1>5. outstanding = Cardinality(Active)
    BY Zenon DEF IInv, CallsOK
  <1>6. Len(lh) + Cardinality(Spare) <= IF outstanding = 1 THEN LOGSIZE - 1 ELSE LOGSIZE
    BY DEF SpaceInv, Reserved
  <1>7. CASE outstanding = 1
    BY <1>1, <1>4, <1>6, <1>7
  <1>8. CASE outstanding # 1
    BY <1>1, <1>4, <1>5, <1>6, <1>8
  <1> QED
    BY <1>7, <1>8

(* A step that logs nothing, begins no call and forgets nothing a call in  *)
(* progress has written.                                                   *)
LEMMA ReservedKept ==
  ASSUME Roomy, IInv, SpaceInv, WroteOK', Active' = Active, lh' = lh, outstanding' = outstanding,
         \A q \in Active : wrote[q] \subseteq wrote'[q]
  PROVE  Reserved'
  <1>1. Active \in SUBSET Proc
    BY DEF Active
  <1>2. Few(wrote) /\ Few(wrote')
    BY DEF SpaceInv, WroteOK
  <1>3. UsedOf(wrote, lh) \in [Proc -> Nat] /\ UsedOf(wrote', lh) \in [Proc -> Nat]
    BY <1>2, UsedFacts
  <1>4. \A q \in Active : UsedOf(wrote, lh)[q] <= UsedOf(wrote', lh)[q]
    BY Zenon, <1>1, <1>2, UsedGrows
  <1>5. Cardinality(SpareOf(Active, UsedOf(wrote', lh))) <= Cardinality(SpareOf(Active, UsedOf(wrote, lh)))
    BY <1>1, <1>3, <1>4, SpareShrinks
  <1>6. Spare' = SpareOf(Active, UsedOf(wrote', lh))
    BY DEF Spare
  <1>7. /\ Len(lh) \in Nat /\ LOGSIZE \in Nat /\ Cardinality(Spare) \in Nat
        /\ Cardinality(Spare') \in Nat /\ Cardinality(Spare') <= Cardinality(Spare)
    BY Zenon, <1>1, <1>5, <1>6, Facts, Sizes, SpareSize DEF Spare
  <1> QED
    BY <1>7 DEF SpaceInv, Reserved

(* begin_op: the space is set aside, and who begins alone finds the log    *)
(* empty.                                                                  *)
LEMMA SpaceBegin ==
  ASSUME Roomy, IInv, SpaceInv, NEW p \in Proc, begin_op(p)
  PROVE  SpaceInv'
  <1>1. /\ UNCHANGED <<head, lh, committing, held, wrote, boot, panicked>> /\ boot = "up"
        /\ pc[p] \in {"idle", "awake"}
    BY DEF begin_op, disk, Up
  <1>2. pc \in [Proc -> Place] /\ Len(lh) \in Nat /\ outstanding \in Nat /\ outstanding = Cardinality(Active)
    BY Zenon, Facts, Types DEF IInv, CallsOK
  <1>3. LOGSIZE \in Nat /\ MAXOPBLOCKS \in Nat
    BY Sizes
  <1>4. WroteOK' /\ Active \in SUBSET Proc
    BY <1>1 DEF SpaceInv, WroteOK, Active
  <1>5. Reserved' /\ (boot' = "up" /\ ~committing' /\ Active' = {} => lh' = <<>>)
    <2>1. CASE committing \/ Full
      <3>1. pc' = [pc EXCEPT ![p] = "asleep"] /\ outstanding' = outstanding
        BY <2>1 DEF begin_op, Goto
      <3>2. Active' = Active
        BY <1>1, <1>2, <3>1 DEF Active
      <3> QED
        BY <1>1, <1>4, <3>1, <3>2, ReservedKept DEF SpaceInv
    <2>2. CASE ~(committing \/ Full)
      <3>1. pc' = [pc EXCEPT ![p] = "op"] /\ outstanding' = outstanding + 1
        BY <2>2, Zenon DEF begin_op, Goto, Admitted
      <3>2. Active' = Active \cup {p} /\ p \notin Active
        BY <1>1, <1>2, <3>1 DEF Active
      <3>3. Cardinality(Active') = outstanding + 1 /\ Active' \in SUBSET Proc
        BY <1>2, <1>4, <3>2, PartOfProc, FS_AddElement
      <3>4. Cardinality(Spare') \in Nat /\ Cardinality(Spare') <= (outstanding + 1) * MAXOPBLOCKS
        BY <3>3, SpareSize DEF Spare
      <3>5. Len(lh) + (outstanding + 1) * MAXOPBLOCKS <= LOGSIZE
        <4>1. (outstanding + 1) * MAXOPBLOCKS \in Nat
          BY <1>2, <1>3
        <4>2. ~(Len(lh) + (outstanding + 1) * MAXOPBLOCKS > LOGSIZE)
          BY <2>2 DEF Full, Admitted
        <4> QED
          BY <1>2, <1>3, <4>1, <4>2
      <3>6. ASSUME outstanding' = 1
            PROVE  Len(lh) + Cardinality(Spare') <= LOGSIZE - 1
        <4>1. outstanding = 0
          BY <1>2, <3>1, <3>6
        <4>2. Active = {}
          BY Zenon, <1>2, <1>4, <4>1, PartOfProc, FS_EmptySet
        <4>3. lh = <<>>
          BY <1>1, <2>2, <4>2 DEF SpaceInv
        <4>4. Len(lh) = 0
          BY <4>3
        <4>5. Cardinality(Spare') <= MAXOPBLOCKS
          BY <1>3, <3>4, <4>1
        <4> QED
          BY <1>3, <3>4, <4>4, <4>5 DEF Roomy
      <3>7. Len(lh) + Cardinality(Spare') <= LOGSIZE
        <4>1. (outstanding + 1) * MAXOPBLOCKS \in Nat
          BY <1>2, <1>3
        <4> QED
          BY <1>2, <1>3, <3>4, <3>5, <4>1
      <3> QED
        BY <1>1, <3>2, <3>6, <3>7 DEF Reserved
    <2> QED
      BY <2>1, <2>2
  <1> QED
    BY <1>1, <1>4, <1>5 DEF SpaceInv

(* The first half of log_write does not panic.                             *)
LEMMA SpaceModify ==
  ASSUME Roomy, IInv, SpaceInv, NEW p \in Proc, NEW b \in Block, NEW x \in Value, modify(p, b, x)
  PROVE  SpaceInv'
  <1>1. /\ UNCHANGED <<head, lh, committing, outstanding, boot>> /\ boot = "up" /\ pc[p] = "op"
        /\ held' = [held EXCEPT ![p] = b] /\ wrote' = [wrote EXCEPT ![p] = @ \cup {b}]
        /\ Cardinality(wrote[p] \cup {b}) <= OpBlocks
    BY Zenon DEF modify, disk, Up
  <1>2. /\ pc \in [Proc -> Place] /\ Len(lh) \in Nat /\ outstanding \in Nat /\ outstanding = Cardinality(Active)
        /\ held \in [Proc -> Block \cup {NoBlock}] /\ wrote \in [Proc -> SUBSET Block]
        /\ LOGSIZE \in Nat /\ nlog \in Nat
    BY Zenon, Facts, Types, Sizes, LogAssumption DEF IInv, CallsOK, TypeOK
  <1>3. p \in Active /\ Active \in SUBSET Proc
    BY <1>1 DEF Active
  <1>4. outstanding # 0
    BY <1>2, <1>3, PartOfProc, FS_EmptySet
  <1>5. ~TooBig /\ ~(outstanding < 1)
    <2>1. Len(lh) <= LOGSIZE - 2
      BY <1>3, NotTooBig
    <2> QED
      BY <1>2, <1>4, <2>1 DEF TooBig, Roomy
  <1>6. panicked' = panicked /\ pc' = [pc EXCEPT ![p] = "log_write"]
    BY Zenon, <1>5 DEF modify, Goto
  <1>7. Active' = Active
    BY <1>1, <1>2, <1>6 DEF Active
  <1>8. WroteOK'
    <2>1. Few(wrote')
      <3>1. IsFiniteSet(wrote[p] \cup {b})
        BY FS_AddElement DEF SpaceInv, WroteOK, Few
      <3>2. wrote'[p] = wrote[p] \cup {b} /\ \A q \in Proc \ {p} : wrote'[q] = wrote[q]
        BY <1>1, <1>2
      <3> QED
        BY <1>1, <3>1, <3>2 DEF SpaceInv, WroteOK, Few
    <2>2. \A q \in Proc : held'[q] # NoBlock => held'[q] \in wrote'[q]
      BY <1>1, <1>2 DEF SpaceInv, WroteOK
    <2> QED
      BY <2>1, <2>2 DEF WroteOK
  <1>9. \A q \in Active : wrote[q] \subseteq wrote'[q]
    BY <1>1, <1>2, <1>3
  <1>10. Reserved'
    BY <1>1, <1>7, <1>8, <1>9, ReservedKept
  <1> QED
    BY <1>1, <1>3, <1>6, <1>7, <1>8, <1>10 DEF SpaceInv

(* The second half: an entry more and a pair less, or neither.             *)
LEMMA SpaceLogWrite ==
  ASSUME Roomy, IInv, SpaceInv, NEW p \in Proc, log_write(p)
  PROVE  SpaceInv'
  <1>1. /\ UNCHANGED <<head, committing, outstanding, wrote, boot, panicked>> /\ boot = "up" /\ pc[p] = "log_write"
        /\ held' = [held EXCEPT ![p] = NoBlock] /\ pc' = [pc EXCEPT ![p] = "op"]
        /\ lh' = Logged(held[p])
    BY DEF log_write, disk, Up, Goto
  <1>2. /\ pc \in [Proc -> Place] /\ Len(lh) \in Nat /\ lh \in Seq(Block)
        /\ held \in [Proc -> Block \cup {NoBlock}] /\ LOGSIZE \in Nat
    BY Facts, Sizes
  <1>3. p \in Active /\ Active \in SUBSET Proc /\ Active' = Active
    BY <1>1, <1>2 DEF Active
  <1>4. held[p] \in Block /\ held[p] \in wrote[p]
    BY <1>1, <1>2 DEF IInv, CallsOK, SpaceInv, WroteOK
  <1>5. WroteOK'
    BY <1>1, <1>2 DEF SpaceInv, WroteOK
  <1>6. Few(wrote)
    BY DEF SpaceInv, WroteOK
  <1>7. CASE InHeader(lh, held[p])
    <2>1. lh' = lh
      BY <1>1, <1>7 DEF Logged
    <2>2. Reserved'
      BY <1>1, <1>3, <1>5, <2>1, ReservedKept
    <2> QED
      BY <1>1, <1>3, <1>5, <2>1, <2>2 DEF SpaceInv
  <1>8. CASE ~InHeader(lh, held[p])
    <2>1. lh' = Append(lh, held[p])
      BY <1>1, <1>8 DEF Logged
    <2>2. /\ Len(lh') = Len(lh) + 1 /\ lh'[Len(lh) + 1] = held[p]
          /\ \A i \in 1 .. Len(lh) : lh'[i] = lh[i]
      BY <1>2, <1>4, <2>1
    <2>3. In(held[p], lh') /\ \A b : In(b, lh) => In(b, lh')
      BY <1>2, <2>2 DEF In
    <2>4. ~In(held[p], lh)
      BY <1>2, <1>8 DEF In, InHeader
    <2>5. UsedOf(wrote, lh) \in [Proc -> Nat] /\ UsedOf(wrote, lh') \in [Proc -> Nat]
          /\ UsedOf(wrote, lh)[p] < MAXOPBLOCKS
      BY <1>6, UsedFacts
    <2>6. \A q \in Active : UsedOf(wrote, lh)[q] <= UsedOf(wrote, lh')[q]
      BY <1>3, <1>6, <2>3, UsedGrows
    <2>7. UsedOf(wrote, lh)[p] < UsedOf(wrote, lh')[p]
      BY Zenon, <1>4, <1>6, <2>3, <2>4, UsedGrows
    <2>8. Cardinality(SpareOf(Active, UsedOf(wrote, lh'))) + 1 <= Cardinality(SpareOf(Active, UsedOf(wrote, lh)))
      BY <1>3, <2>5, <2>6, <2>7, SpareLoses
    <2>9. /\ Cardinality(Spare') + 1 <= Cardinality(Spare)
          /\ Cardinality(Spare) \in Nat /\ Cardinality(Spare') \in Nat
      BY <1>1, <1>3, <2>8, SpareSize DEF Spare
    <2>10. Reserved'
      BY <1>1, <1>2, <1>3, <2>2, <2>9 DEF SpaceInv, Reserved
    <2>11. Len(lh') < LOGSIZE
      <3>1. Len(lh) <= LOGSIZE - 2
        BY <1>3, NotTooBig
      <3> QED
        BY <1>2, <2>2, <3>1
    <2> QED
      BY <1>1, <1>3, <1>5, <2>10, <2>11 DEF SpaceInv
  <1> QED
    BY <1>7, <1>8

(* end_op: the call's last pair is left to the others.                     *)
LEMMA SpaceEnd ==
  ASSUME Roomy, IInv, SpaceInv, NEW p \in Proc, end_op(p)
  PROVE  SpaceInv'
  <1>1. /\ UNCHANGED <<head, lh, held, boot>> /\ boot = "up" /\ pc[p] = "op"
        /\ wrote' = [wrote EXCEPT ![p] = {}] /\ outstanding' = outstanding - 1
    BY DEF end_op, disk, Up
  <1>2. /\ pc \in [Proc -> Place] /\ Len(lh) \in Nat /\ outstanding \in Nat /\ outstanding = Cardinality(Active)
        /\ wrote \in [Proc -> SUBSET Block]
    BY Zenon, Facts, Types DEF IInv, CallsOK, TypeOK
  <1>n. LOGSIZE \in Nat /\ OpBlocks \in Nat
    BY Sizes, LogAssumption DEF filewrite_max
  <1>3. ~committing
    BY <1>1, NobodyElse
  <1>4. panicked' = "no"
    BY <1>3 DEF end_op, SpaceInv
  <1>5. Active \in SUBSET Proc /\ p \in Active /\ Active' = Active \ {p}
    BY <1>1, <1>2 DEF end_op, Goto, wakeup, Active
  <1>6. held[p] = NoBlock
    BY <1>1 DEF IInv, CallsOK, SpaceInv
  <1>7. /\ wrote'[p] = {} /\ \A q \in Proc \ {p} : wrote'[q] = wrote[q]
        /\ Few(wrote) /\ Few(wrote')
    <2>1. wrote'[p] = {} /\ \A q \in Proc \ {p} : wrote'[q] = wrote[q]
      BY <1>1, <1>2
    <2>2. IsFiniteSet({}) /\ Cardinality({}) <= OpBlocks
      BY <1>n, FS_EmptySet
    <2> QED
      BY Zenon, <2>1, <2>2 DEF SpaceInv, WroteOK, Few
  <1>8. WroteOK'
    BY <1>1, <1>6, <1>7 DEF SpaceInv, WroteOK
  <1>9. /\ UsedOf(wrote, lh) \in [Proc -> Nat] /\ UsedOf(wrote', lh) \in [Proc -> Nat]
        /\ UsedOf(wrote, lh)[p] < MAXOPBLOCKS
    BY <1>7, UsedFacts
  <1>10. \A q \in Active' : UsedOf(wrote, lh)[q] <= UsedOf(wrote', lh)[q]
    BY Zenon, <1>5, <1>7, UsedGrows
  <1>11. Cardinality(SpareOf(Active', UsedOf(wrote', lh))) + 1 <= Cardinality(SpareOf(Active, UsedOf(wrote, lh)))
    BY <1>5, <1>9, <1>10, SpareLoses
  <1>12. /\ Cardinality(Spare') + 1 <= Cardinality(Spare)
         /\ Cardinality(Spare) \in Nat /\ Cardinality(Spare') \in Nat
    BY Zenon, <1>1, <1>5, <1>11, SpareSize DEF Spare
  <1>13. Reserved'
    BY <1>1, <1>2, <1>n, <1>5, <1>12 DEF SpaceInv, Reserved
  <1>14. ~committing' => Active' # {}
    <2>1. CASE LastOut
      BY <2>1 DEF end_op
    <2>2. CASE ~LastOut
      <3>1. Active # {p}
        BY Zenon, <1>2, <2>2, FS_Singleton DEF LastOut
      <3> QED
        BY <1>5, <3>1
    <2> QED
      BY <2>1, <2>2
  <1> QED
    BY <1>1, <1>4, <1>8, <1>13, <1>14 DEF SpaceInv

(* Recovery and commit: no call is in progress.                            *)
LEMMA SpaceIdle ==
  ASSUME Roomy, IInv, SpaceInv, Active = {}, Active' = {}, WroteOK',
         panicked' = panicked, lh' \in {lh, head, <<>>}, head' \in {head, lh, <<>>},
         boot' = "up" /\ ~committing' => lh' = <<>>
  PROVE  SpaceInv'
  <1>1. LOGSIZE \in Nat /\ LOGSIZE >= 1 /\ Len(<<>>) = 0
    BY Sizes
  <1>2. Len(lh') < LOGSIZE /\ Len(head') < LOGSIZE
    BY <1>1 DEF SpaceInv
  <1> QED
    BY <1>2 DEF SpaceInv, Reserved

(* One step, whatever it is.                                               *)
LEMMA SpaceStep ==
  ASSUME Roomy, IInv, SpaceInv, [Next]_vars
  PROVE  SpaceInv'
  <1>1. ASSUME NEW p \in Proc, kill(p)
        PROVE  SpaceInv'
    <2>1. /\ UNCHANGED <<head, lh, committing, held, wrote, outstanding, boot, panicked>>
          /\ pc[p] = "asleep" /\ pc' = [pc EXCEPT ![p] = "awake"]
      BY <1>1 DEF kill, disk, Goto
    <2>2. pc \in [Proc -> Place]
      BY Facts
    <2>3. Active' = Active /\ WroteOK'
      BY <2>1, <2>2 DEF Active, SpaceInv, WroteOK
    <2>4. Reserved'
      BY <2>1, <2>3, ReservedKept
    <2> QED
      BY <2>1, <2>3, <2>4 DEF SpaceInv
  <1>2. ASSUME NEW p \in Proc,
               write_log(p) \/ write_head(p) \/ install_trans(p) \/ erase(p) \/ committed(p)
        PROVE  SpaceInv'
    <2>1. pc[p] \in Committer /\ boot = "up" /\ panicked = "no"
      BY <1>2 DEF write_log, write_head, install_trans, erase, committed, Writing, Up, CommitPoint, Committer
    <2>2. Active = {} /\ committing
      BY <2>1, Alone
    <2>3. /\ UNCHANGED <<held, wrote, outstanding, boot, panicked>>
          /\ lh' \in {lh, <<>>} /\ head' \in {head, lh, <<>>}
      BY <1>2 DEF write_log, write_head, install_trans, erase, committed, disk
    <2>4. Active' = {}
      <3>1. pc \in [Proc -> Place]
        BY Facts
      <3> QED
        BY Zenon, <1>2, <2>2, <3>1 DEF write_log, write_head, install_trans, erase, committed, Writing,
           CommitPoint, Goto, wakeup, Active
    <2>5. ~committing' => lh' = <<>>
      <3>1. CASE committed(p)
        BY Zenon, <2>1, <3>1 DEF committed, Writing, IInv, UpOK, StageOK
      <3>2. CASE ~committed(p)
        BY Zenon, <1>2, <2>2, <3>2 DEF write_log, write_head, install_trans, erase
      <3> QED
        BY <3>1, <3>2
    <2>6. WroteOK'
      BY <2>3 DEF SpaceInv, WroteOK
    <2> QED
      BY <2>2, <2>3, <2>4, <2>5, <2>6, SpaceIdle
  <1>3. CASE crash
    <2>1. /\ lh' = <<>> /\ head' = head /\ panicked' = "no" /\ boot' = "read_head"
          /\ pc' = [p \in Proc |-> "idle"] /\ held' = [p \in Proc |-> NoBlock]
          /\ wrote' = [p \in Proc |-> {}]
      BY <1>3 DEF crash, disk
    <2>2. OpBlocks \in Nat /\ LOGSIZE \in Nat /\ LOGSIZE >= 1 /\ Len(<<>>) = 0
      BY LogAssumption, Sizes DEF filewrite_max
    <2>3. Active' = {}
      BY <2>1 DEF Active
    <2>4. WroteOK'
      BY <2>1, <2>2, FS_EmptySet DEF WroteOK, Few
    <2> QED
      BY <2>1, <2>2, <2>3, <2>4 DEF SpaceInv, Reserved
  <1>4. CASE read_head \/ recover_install \/ recover_erase
    <2>1. /\ UNCHANGED <<outstanding, committing, pc, held, wrote, panicked>> /\ boot # "up"
          /\ lh' \in {lh, head, <<>>} /\ head' \in {head, <<>>}
          /\ boot' = "up" => lh' = <<>>
      BY <1>4 DEF read_head, recover_install, recover_erase, disk, ops
    <2>2. Active = {} /\ Active' = {}
      BY <2>1 DEF IInv, BootOK, Active
    <2>3. WroteOK'
      BY <2>1 DEF SpaceInv, WroteOK
    <2> QED
      BY <2>1, <2>2, <2>3, SpaceIdle
  <1>5. CASE UNCHANGED vars
    <2>1. UNCHANGED <<head, lh, outstanding, committing, pc, held, wrote, boot, panicked>>
      BY <1>5 DEF vars, ops, disk
    <2>2. Active' = Active /\ WroteOK'
      BY <2>1 DEF Active, SpaceInv, WroteOK
    <2>3. Reserved'
      BY <2>1, <2>2, ReservedKept
    <2> QED
      BY <2>1, <2>2, <2>3 DEF SpaceInv
  <1> QED
    BY <1>1, <1>2, <1>3, <1>4, <1>5, SpaceBegin, SpaceModify, SpaceLogWrite, SpaceEnd DEF Next

(* begin_op's reservation is enough: when a call writes fewer blocks than  *)
(* MAXOPBLOCKS, one call alone does not fill the log and the log on disk   *)
(* has LOGSIZE blocks, as mkfs makes it, then whatever calls overlap       *)
(* log_write (log.c:218) never panics and the log stays inside its blocks. *)
THEOREM LogHasSpace ==
  ASSUME OpBlocks < MAXOPBLOCKS, MAXOPBLOCKS < LOGSIZE, LOGSIZE <= nlog
  PROVE  Spec => []FitsInSpace
  <1>1. Roomy
    BY DEF Roomy
  <1>2. Init => SpaceInv
    <2> SUFFICES ASSUME Init PROVE SpaceInv
      OBVIOUS
    <2>1. OpBlocks \in Nat /\ LOGSIZE \in Nat /\ LOGSIZE >= 1 /\ Len(<<>>) = 0
      BY LogAssumption, Sizes DEF filewrite_max
    <2>2. Active = {}
      BY DEF Init, Active
    <2>3. WroteOK
      BY <2>1, FS_EmptySet DEF Init, WroteOK, Few
    <2> QED
      BY <2>1, <2>2, <2>3 DEF Init, SpaceInv, Reserved
  <1>3. IInv /\ SpaceInv /\ [Next]_vars => SpaceInv'
    BY <1>1, SpaceStep
  <1>4. IInv /\ SpaceInv => FitsInSpace
    <2> SUFFICES ASSUME IInv, SpaceInv PROVE FitsInSpace
      OBVIOUS
    <2>1. Len(lh) \in Nat /\ LOGSIZE \in Nat /\ nlog \in Nat
      BY Facts, Sizes, LogAssumption
    <2> QED
      BY <2>1 DEF SpaceInv, FitsInSpace, NoLogPanic, LogFits
  <1> QED
    BY <1>2, <1>3, <1>4, Invariance, PTL DEF Spec
=============================================================================
