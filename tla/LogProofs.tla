----------------------------- MODULE LogProofs -----------------------------
(***************************************************************************)
(* What the log keeps for every set of processes, blocks and values, every *)
(* log size and every number of blocks a call writes; also when calls      *)
(* write more than begin_op set aside for them, and then log_write panics. *)
(* First the types, the counts and who is where, then the blocks, then the *)
(* theorems.                                                               *)
(***************************************************************************)
EXTENDS Log, FiniteSetTheorems, TLAPS

Committer == {"write_log", "write_head", "install_trans", "erase", "done"}
Active == {p \in Proc : pc[p] \in {"op", "log_write"}}
Entering == {p \in Proc : pc[p] = "log_write"}
MaxLen == LOGSIZE + Cardinality(Proc)

(* Who is where: outstanding counts the calls in progress, one process at  *)
(* most commits, and then no call is in progress; a buffer is held between *)
(* the two halves of log_write only.                                       *)
CallsOK ==
    /\ outstanding = Cardinality(Active)
    /\ Len(lh) + Cardinality(Entering) <= MaxLen
    /\ Len(head) <= MaxLen
    /\ \A p \in Proc : pc[p] \in Committer =>
         committing /\ \A q \in Proc : q # p => pc[q] \notin Committer \cup {"op", "log_write"}
    /\ committing => \E p \in Proc : pc[p] \in Committer
    /\ \A p \in Proc : pc[p] = "log_write" => held[p] # NoBlock
    /\ \A p \in Proc : held[p] # NoBlock =>
         pc[p] \in {"op", "log_write"} /\ (panicked = "no" => pc[p] = "log_write")
    /\ panicked \in {"no", "too big a transaction"}

(* What the log has of the cache at each stage of a commit, and what is    *)
(* left to install.                                                        *)
StageOK(p) ==
    /\ pc[p] = "write_log" => tail \in 1 .. Len(lh) /\ \A i \in 1 .. tail - 1 : slot[i] = cache[lh[i]]
    /\ pc[p] = "write_head" => tail = 1 /\ tail \in 1 .. Len(lh)
    /\ pc[p] = "install_trans" =>
         tail \in 1 .. Len(lh) /\ dirty \subseteq {lh[i] : i \in tail .. Len(lh)}
    /\ pc[p] \in {"write_head", "install_trans", "erase"} =>
         \A i \in 1 .. Len(lh) : slot[i] = cache[lh[i]]
    /\ pc[p] \in {"install_trans", "erase"} => head = lh
    /\ pc[p] \in {"erase", "done"} => dirty = {}
    /\ pc[p] = "done" => lh = <<>>

UpOK ==
    /\ CleanIsHome
    /\ (\A p \in Proc : pc[p] \notin {"install_trans", "erase"}) => head = <<>>
    /\ \A b \in dirty : \E i \in 1 .. Len(lh) : lh[i] = b
    /\ \A p \in Proc : StageOK(p)

(* Recovery: nothing else runs, and what it has not done it can do again.  *)
BootOK ==
    /\ cache = home /\ dirty = {}
    /\ \A p \in Proc : pc[p] = "idle"
    /\ panicked = "no"
    /\ boot = "read_head" => lh = <<>> /\ tail = 1
    /\ boot # "read_head" => lh = head
    /\ boot = "install_trans" =>
         tail \in 1 .. Len(head) /\ \A i \in 1 .. tail - 1 : home[head[i]] = slot[i]
    /\ boot = "erase" => \A i \in 1 .. Len(head) : home[head[i]] = slot[i]

(* Installing a header's blocks once more, in any order, is harmless.      *)
Consistent ==
    \A i, j \in 1 .. Len(head) : head[i] = head[j] => slot[i] = slot[j]

IInv ==
    /\ TypeOK
    /\ CallsOK
    /\ Consistent
    /\ boot = "up" => UpOK
    /\ boot # "up" => BootOK

-----------------------------------------------------------------------------
(* The constants of log.c, as the assumptions bound them.                  *)
LEMMA Sizes ==
  /\ LOGSIZE \in Nat /\ LOGSIZE >= 1 /\ MAXOPBLOCKS \in Nat /\ MAXOPBLOCKS >= 1
  /\ Cardinality(Proc) \in Nat
  /\ MaxLen \in Nat /\ MaxLen >= 1 /\ Slots = 1 .. MaxLen
  /\ Zero \in Value /\ NoBlock \notin Block
  <1>1. Cardinality(Proc) \in Nat
    BY LogAssumption, FS_CardinalityType
  <1> QED
    BY <1>1, LogAssumption DEF MaxLen, Slots

(* Every set of processes is finite: outstanding (log.c:43) can count it.  *)
LEMMA PartOfProc ==
  ASSUME NEW S \in SUBSET Proc
  PROVE  IsFiniteSet(S) /\ Cardinality(S) \in Nat /\ Cardinality(S) <= Cardinality(Proc)
  BY LogAssumption, FS_Subset, FS_CardinalityType

(* The loop counter of write_log and install_trans.                        *)
LEMMA NextTail ==
  ASSUME NEW n \in Nat, NEW t \in 1 .. n
  PROVE  (t % n) + 1 = IF t = n THEN 1 ELSE t + 1
  <1>1. CASE t = n
    BY <1>1
  <1>2. CASE t # n
    BY <1>2
  <1> QED
    BY <1>1, <1>2

-----------------------------------------------------------------------------
Place == {"idle", "asleep", "awake", "op", "log_write", "write_log",
          "write_head", "install_trans", "erase", "done"}

(* The types of the variables, one by one.                                 *)
LEMMA Types ==
  ASSUME TypeOK
  PROVE  /\ lh \in Seq(Block) /\ head \in Seq(Block)
         /\ Len(lh) \in Nat /\ Len(head) \in Nat /\ Len(<<>>) = 0
         /\ pc \in [Proc -> Place]
         /\ home \in [Block -> Value] /\ cache \in [Block -> Value]
         /\ slot \in [1 .. MaxLen -> Value]
         /\ dirty \subseteq Block
         /\ held \in [Proc -> Block \cup {NoBlock}]
         /\ tail \in 1 .. MaxLen
         /\ outstanding \in Nat
  <1>1. lh \in Seq(Block) /\ head \in Seq(Block)
    BY Zenon DEF TypeOK
  <1>2. Len(lh) \in Nat /\ Len(head) \in Nat /\ Len(<<>>) = 0
    BY <1>1
  <1>3. pc \in [Proc -> Place]
    BY Zenon DEF TypeOK, Place
  <1>4. home \in [Block -> Value] /\ cache \in [Block -> Value] /\ dirty \subseteq Block
    BY Zenon DEF TypeOK
  <1>5. slot \in [1 .. MaxLen -> Value] /\ tail \in 1 .. MaxLen
    BY Zenon, Sizes DEF TypeOK
  <1>6. held \in [Proc -> Block \cup {NoBlock}]
    BY Zenon DEF TypeOK
  <1>7. outstanding \in Nat
    <2>1. outstanding \in 0 .. Cardinality(Proc)
      BY Zenon DEF TypeOK
    <2> QED
      BY <2>1, Sizes
  <1> QED
    BY <1>1, <1>2, <1>3, <1>4, <1>5, <1>6, <1>7

(* The header never lists more blocks than MaxLen, the entries that fit    *)
(* between two commits.                                                    *)
LEMMA Lengths ==
  ASSUME TypeOK, CallsOK
  PROVE  Len(lh) <= MaxLen /\ Len(head) <= MaxLen
  <1>1. Cardinality(Entering) \in Nat
    BY PartOfProc DEF Entering
  <1>2. Len(lh) \in Nat /\ Len(lh) + Cardinality(Entering) <= MaxLen /\ Len(head) <= MaxLen
    BY Zenon, Types DEF CallsOK
  <1> QED
    BY <1>1, <1>2, Sizes

(* Counting calls and log entries.                                         *)
LEMMA Counts ==
  ASSUME IInv, Next
  PROVE  /\ outstanding' = Cardinality(Active')
         /\ outstanding' \in 0 .. Cardinality(Proc)
         /\ Len(lh') + Cardinality(Entering') <= MaxLen
         /\ Len(head') <= MaxLen
  <1> USE Sizes
  <1>1. TypeOK /\ CallsOK
    BY DEF IInv
  <1>t. /\ lh \in Seq(Block) /\ head \in Seq(Block)
        /\ Len(lh) \in Nat /\ Len(head) \in Nat /\ Len(<<>>) = 0
        /\ pc \in [Proc -> Place]
    BY <1>1, Types
  <1>c. /\ outstanding = Cardinality(Active)
        /\ Len(lh) + Cardinality(Entering) <= MaxLen
        /\ Len(head) <= MaxLen
    BY Zenon, <1>1 DEF CallsOK
  <1>2. /\ IsFiniteSet(Active) /\ Cardinality(Active) \in Nat
        /\ IsFiniteSet(Entering) /\ Cardinality(Entering) \in Nat
    BY PartOfProc DEF Active, Entering
  <1>3. Cardinality(Active') \in 0 .. Cardinality(Proc)
    <2>1. Active' \in SUBSET Proc
      BY DEF Active
    <2> QED
      BY <2>1, PartOfProc
  <1>4. SUFFICES /\ outstanding' = Cardinality(Active')
                 /\ Len(lh') + Cardinality(Entering') <= MaxLen
                 /\ Len(head') <= MaxLen
    BY <1>3
  <1>5. ASSUME NEW p \in Proc, begin_op(p)
        PROVE  /\ outstanding' = Cardinality(Active')
               /\ Len(lh') + Cardinality(Entering') <= MaxLen
               /\ Len(head') <= MaxLen
    <2>1. Entering' = Entering
      BY <1>t, <1>c, <1>5 DEF begin_op, Goto, Entering
    <2>2. CASE committing \/ Full
      <3>1. Active' = Active /\ outstanding' = outstanding
        BY <1>t, <1>c, <1>5, <2>2 DEF begin_op, Goto, Active
      <3> QED
        BY <1>t, <1>c, <1>5, <2>1, <3>1 DEF begin_op, disk
    <2>3. CASE ~(committing \/ Full)
      <3>0. pc' = [pc EXCEPT ![p] = "op"] /\ outstanding' = outstanding + 1
        BY <1>5, <2>3, Zenon DEF begin_op, Goto, Admitted
      <3>1. Active' = Active \cup {p} /\ p \notin Active
        BY <1>t, <1>5, <3>0 DEF begin_op, Active
      <3>2. Cardinality(Active') = Cardinality(Active) + 1
        BY Zenon, <1>2, <3>1, FS_AddElement
      <3> QED
        BY <1>t, <1>c, <1>5, <2>1, <3>0, <3>1, <3>2 DEF begin_op, disk
    <2> QED
      BY <2>2, <2>3
  <1>6. ASSUME NEW p \in Proc, kill(p)
        PROVE  /\ outstanding' = Cardinality(Active')
               /\ Len(lh') + Cardinality(Entering') <= MaxLen
               /\ Len(head') <= MaxLen
    <2>1. Entering' = Entering /\ Active' = Active
      BY <1>t, <1>c, <1>6 DEF kill, Goto, Entering, Active
    <2> QED
      BY <1>t, <1>c, <1>6, <2>1 DEF kill, disk
  <1>7. ASSUME NEW p \in Proc, NEW b \in Block, NEW x \in Value, modify(p, b, x)
        PROVE  /\ outstanding' = Cardinality(Active')
               /\ Len(lh') + Cardinality(Entering') <= MaxLen
               /\ Len(head') <= MaxLen
    <2>1. Active' = Active
      BY Zenon, <1>t, <1>c, <1>7 DEF modify, Goto, Active
    <2>2. lh' = lh /\ head' = head /\ outstanding' = outstanding
      BY Zenon, <1>7 DEF modify, disk
    <2>3. CASE pc' = pc
      BY <1>t, <1>c, <2>1, <2>2, <2>3 DEF Entering
    <2>4. CASE ~TooBig
      <3>1. Cardinality(Entering') \in Nat /\ Cardinality(Entering') <= Cardinality(Proc)
        <4>1. Entering' \in SUBSET Proc
          BY DEF Entering
        <4> QED
          BY <4>1, PartOfProc
      <3>2. Len(lh) < LOGSIZE
        BY <1>t, <1>c, <2>4 DEF TooBig
      <3> QED
        BY <1>t, <1>c, <2>1, <2>2, <3>1, <3>2 DEF MaxLen
    <2> QED
      BY Zenon, <1>7, <2>3, <2>4 DEF modify
  <1>8. ASSUME NEW p \in Proc, log_write(p)
        PROVE  /\ outstanding' = Cardinality(Active')
               /\ Len(lh') + Cardinality(Entering') <= MaxLen
               /\ Len(head') <= MaxLen
    <2>1. Active' = Active /\ Entering' = Entering \ {p} /\ p \in Entering
      BY <1>t, <1>c, <1>8 DEF log_write, Goto, Active, Entering
    <2>2. Cardinality(Entering') = Cardinality(Entering) - 1
      BY Zenon, <1>2, <2>1, FS_RemoveElement
    <2>3. held[p] \in Block
      BY Zenon, <1>1, <1>8 DEF log_write, TypeOK, CallsOK
    <2>4. Len(lh') <= Len(lh) + 1 /\ Len(lh') \in Nat
      BY <1>t, <1>c, <1>8, <2>3 DEF log_write, Logged
    <2> QED
      BY <1>t, <1>c, <1>2, <1>8, <2>1, <2>2, <2>4 DEF log_write, disk
  <1>9. ASSUME NEW p \in Proc, end_op(p)
        PROVE  /\ outstanding' = Cardinality(Active')
               /\ Len(lh') + Cardinality(Entering') <= MaxLen
               /\ Len(head') <= MaxLen
    <2>1. Active' = Active \ {p} /\ p \in Active /\ Entering' = Entering
      BY <1>t, <1>c, <1>9 DEF end_op, Goto, wakeup, Active, Entering
    <2>2. Cardinality(Active') = Cardinality(Active) - 1
      BY Zenon, <1>2, <2>1, FS_RemoveElement
    <2> QED
      BY <1>t, <1>c, <1>9, <2>1, <2>2 DEF end_op, disk
  <1>10. ASSUME NEW p \in Proc,
                write_log(p) \/ write_head(p) \/ install_trans(p) \/ erase(p) \/ committed(p)
         PROVE  /\ outstanding' = Cardinality(Active')
                /\ Len(lh') + Cardinality(Entering') <= MaxLen
                /\ Len(head') <= MaxLen
    <2>1. Active' = Active /\ Entering' = Entering
      BY <1>t, <1>c, <1>10 DEF write_log, write_head, install_trans, erase, committed, Writing,
         CommitPoint, Goto, wakeup, Active, Entering
    <2>2. outstanding' = outstanding /\ lh' \in {lh, <<>>} /\ head' \in {head, lh, <<>>}
      BY <1>10 DEF write_log, write_head, install_trans, erase, committed, disk
    <2>3. Len(lh) <= MaxLen
      BY <1>t, <1>c, <1>2
    <2> QED
      BY <1>t, <1>c, <1>2, <2>1, <2>2, <2>3
  <1>11. CASE crash
    <2>1. Active' = {} /\ Entering' = {}
      BY <1>11 DEF crash, Active, Entering
    <2> QED
      BY <1>t, <1>c, <1>11, <2>1, FS_EmptySet DEF crash, disk
  <1>12. CASE read_head \/ recover_install \/ recover_erase
    <2>1. Active' = Active /\ Entering' = Entering /\ outstanding' = outstanding
      BY <1>12 DEF read_head, recover_install, recover_erase, ops, Active, Entering
    <2>2. boot # "up" /\ lh' \in {lh, head, <<>>} /\ head' \in {head, <<>>}
      BY <1>12 DEF read_head, recover_install, recover_erase, disk
    <2>3. Entering = {}
      BY <2>2 DEF IInv, BootOK, Entering
    <2>4. Cardinality(Entering) = 0 /\ Len(<<>>) = 0
      BY <2>3, FS_EmptySet
    <2> QED
      BY <1>t, <1>c, <1>2, <2>1, <2>2, <2>4
  <1> QED
    BY <1>5, <1>6, <1>7, <1>8, <1>9, <1>10, <1>11, <1>12 DEF Next

-----------------------------------------------------------------------------
(* The types, once the counts are known.                                   *)
LEMMA TypeStep ==
  ASSUME IInv, Next
  PROVE  TypeOK'
  <1> USE Sizes
  <1>1. TypeOK /\ CallsOK
    BY DEF IInv
  <1>2. outstanding' \in 0 .. Cardinality(Proc)
    BY Counts
  <1>3. <<>> \in Seq(Block)
    OBVIOUS
  <1>4. ASSUME NEW p \in Proc, begin_op(p)
        PROVE  TypeOK'
    BY Zenon, <1>1, <1>2, <1>4 DEF begin_op, Goto, TypeOK, disk
  <1>5. ASSUME NEW p \in Proc, kill(p)
        PROVE  TypeOK'
    BY Zenon, <1>1, <1>2, <1>5 DEF kill, Goto, TypeOK, disk
  <1>6. ASSUME NEW p \in Proc, NEW b \in Block, NEW x \in Value, modify(p, b, x)
        PROVE  TypeOK'
    BY Zenon, <1>1, <1>2, <1>6 DEF modify, Goto, TypeOK, disk
  <1>7. ASSUME NEW p \in Proc, log_write(p)
        PROVE  TypeOK'
    <2>1. held[p] \in Block
      BY Zenon, <1>1, <1>7 DEF log_write, TypeOK, CallsOK
    <2>2. lh' \in Seq(Block)
      <3>1. lh \in Seq(Block) /\ lh' \in {lh, Append(lh, held[p])}
        BY <1>1, <1>7, Types DEF log_write, Logged
      <3> QED
        BY <2>1, <3>1
    <2>3. dirty' \subseteq Block
      BY <1>1, <1>7, <2>1, Types DEF log_write, Pinned
    <2> QED
      BY Zenon, <1>1, <1>2, <1>7, <2>2, <2>3 DEF log_write, Goto, TypeOK, disk
  <1>8. ASSUME NEW p \in Proc, end_op(p)
        PROVE  TypeOK'
    <2>1. pc' \in [Proc -> Place] /\ committing' \in BOOLEAN
      BY Zenon, <1>1, <1>8 DEF end_op, Goto, wakeup, TypeOK, Place
    <2>2. panicked' \in {"no", "too big a transaction", "log_write outside of trans", "log.committing"}
      <3>1. panicked' \in {panicked, "log.committing"}
        BY <1>8 DEF end_op
      <3> QED
        BY Zenon, <1>1, <3>1 DEF TypeOK
    <2>3. UNCHANGED <<home, slot, head, cache, dirty, lh, held, boot>> /\ tail' \in Slots
      BY <1>8 DEF end_op, disk
    <2>4. wrote' \in [Proc -> SUBSET Block]
      <3>1. wrote \in [Proc -> SUBSET Block] /\ wrote' = [wrote EXCEPT ![p] = {}]
        BY Zenon, <1>1, <1>8 DEF end_op, TypeOK
      <3> QED
        BY <3>1
    <2> QED
      BY Zenon, <1>1, <1>2, <2>1, <2>2, <2>3, <2>4 DEF TypeOK, Place
  <1>9. ASSUME NEW p \in Proc, write_log(p)
        PROVE  TypeOK'
    <2>1. /\ tail \in 1 .. Len(lh) /\ Len(lh) \in Nat
          /\ tail \in 1 .. MaxLen /\ Len(lh) <= MaxLen
      BY <1>9, <1>1, Types, Lengths DEF IInv, UpOK, StageOK, write_log, Writing, Up
    <2>2. tail' \in Slots
      BY <1>9, <2>1, NextTail DEF write_log
    <2>3. cache[lh[tail]] \in Value
      BY <1>1, <2>1, Types
    <2> QED
      BY Zenon, <1>1, <1>2, <1>9, <2>2, <2>3 DEF write_log, CommitPoint, Goto, TypeOK
  <1>10. ASSUME NEW p \in Proc, write_head(p)
         PROVE  TypeOK'
    BY Zenon, <1>1, <1>2, <1>10 DEF write_head, Goto, TypeOK
  <1>11. ASSUME tail \in 1 .. Len(lh), Install
         PROVE  /\ home' \in [Block -> Value] /\ cache' \in [Block -> Value]
                /\ dirty' \subseteq Block /\ tail' \in Slots
    <2>1. Len(lh) \in Nat /\ Len(lh) <= MaxLen /\ tail \in 1 .. MaxLen
      BY <1>1, Types, Lengths DEF IInv
    <2>2. tail' \in Slots
      <3>1. tail' = (tail % Len(lh)) + 1
        BY <1>11 DEF Install
      <3>2. tail' = IF tail = Len(lh) THEN 1 ELSE tail + 1
        BY Zenon, <1>11, <2>1, <3>1, NextTail
      <3> QED
        BY <1>11, <2>1, <3>2
    <2>3. slot[tail] \in Value
      BY <1>1, <2>1, Types
    <2> QED
      BY <1>1, <1>11, <2>2, <2>3, Types DEF Install
  <1>12. ASSUME NEW p \in Proc, install_trans(p)
         PROVE  TypeOK'
    <2>1. tail \in 1 .. Len(lh)
      BY <1>12 DEF IInv, UpOK, StageOK, install_trans, Writing, Up
    <2>2. /\ home' \in [Block -> Value] /\ cache' \in [Block -> Value]
          /\ dirty' \subseteq Block /\ tail' \in Slots
      BY <1>11, <1>12, <2>1 DEF install_trans
    <2> QED
      BY Zenon, <1>1, <1>2, <1>12, <2>2 DEF install_trans, Goto, TypeOK
  <1>13. ASSUME NEW p \in Proc, erase(p)
         PROVE  TypeOK'
    BY Zenon, <1>1, <1>2, <1>3, <1>13 DEF erase, Goto, TypeOK
  <1>14. ASSUME NEW p \in Proc, committed(p)
         PROVE  TypeOK'
    <2>1. pc' \in [Proc -> Place]
      BY Zenon, <1>1, <1>14 DEF committed, wakeup, TypeOK, Place
    <2> QED
      BY Zenon, <1>1, <1>2, <1>14, <2>1 DEF committed, TypeOK, Place, disk
  <1>15. CASE crash
    <2>1. pc' \in [Proc -> Place] /\ held' \in [Proc -> Block \cup {NoBlock}]
      BY <1>15 DEF crash, Place
    <2>3. wrote' \in [Proc -> SUBSET Block]
      <3>1. wrote' = [p \in Proc |-> {}]
        BY <1>15 DEF crash
      <3> QED
        BY <3>1
    <2>4. committing' \in BOOLEAN /\ lh' \in Seq(Block) /\ tail' \in Slots
      <3>1. committing' = FALSE /\ lh' = <<>> /\ tail' = 1
        BY <1>15 DEF crash
      <3>2. 1 \in Slots
        BY <1>2
      <3> QED
        BY Zenon, <1>3, <3>1, <3>2
    <2>2. cache' = home /\ UNCHANGED <<home, slot, head>> /\ dirty' = {} /\ panicked' = "no" /\ boot' = "read_head"
      BY <1>15 DEF crash, disk
    <2> QED
      BY Zenon, <1>1, <1>2, <2>1, <2>2, <2>3, <2>4 DEF TypeOK, Place
  <1>16. CASE read_head
    BY Zenon, <1>1, <1>2, <1>16 DEF read_head, TypeOK, disk, ops
  <1>17. CASE recover_install
    <2>1. tail \in 1 .. Len(lh)
      BY <1>17 DEF IInv, BootOK, recover_install
    <2>2. /\ home' \in [Block -> Value] /\ cache' \in [Block -> Value]
          /\ dirty' \subseteq Block /\ tail' \in Slots
      BY <1>11, <1>17, <2>1 DEF recover_install
    <2> QED
      BY Zenon, <1>1, <1>2, <1>17, <2>2 DEF recover_install, TypeOK, ops
  <1>18. CASE recover_erase
    BY Zenon, <1>1, <1>2, <1>3, <1>18 DEF recover_erase, TypeOK, ops
  <1> QED
    BY <1>4, <1>5, <1>6, <1>7, <1>8, <1>9, <1>10, <1>12, <1>13, <1>14, <1>15, <1>16, <1>17, <1>18
       DEF Next

-----------------------------------------------------------------------------
(* Who is where.                                                           *)
LEMMA NobodyElse ==
  ASSUME IInv, NEW p \in Proc, pc[p] \in {"op", "log_write"}
  PROVE  ~committing /\ \A q \in Proc : pc[q] \notin Committer
  <1>1. \A q \in Proc : pc[q] \in Committer =>
           \A r \in Proc : r # q => pc[r] \notin Committer \cup {"op", "log_write"}
    BY Zenon DEF IInv, CallsOK
  <1>2. \A q \in Proc : pc[q] \notin Committer
    BY <1>1 DEF Committer
  <1>3. committing => \E q \in Proc : pc[q] \in Committer
    BY Zenon DEF IInv, CallsOK
  <1> QED
    BY <1>2, <1>3

(* Every step keeps outstanding and committing in agreement with where     *)
(* the calls are (begin_op, end_op).                                       *)
LEMMA CallsStep ==
  ASSUME IInv, Next
  PROVE  CallsOK'
  <1> USE DEF Committer
  <1>1. TypeOK /\ CallsOK /\ pc \in [Proc -> Place] /\ held \in [Proc -> Block \cup {NoBlock}]
    BY Types DEF IInv
  <1>2. NoBlock \notin Block
    BY Sizes
  <1>c. /\ outstanding' = Cardinality(Active')
        /\ Len(lh') + Cardinality(Entering') <= MaxLen
        /\ Len(head') <= MaxLen
    BY Counts
  <1>m. MaxLen' = MaxLen
    BY DEF MaxLen
  <1> DEFINE Who ==
        /\ \A p \in Proc : pc[p] \in Committer =>
             committing /\ \A q \in Proc : q # p => pc[q] \notin Committer \cup {"op", "log_write"}
        /\ committing => \E p \in Proc : pc[p] \in Committer
      Holds ==
        /\ \A p \in Proc : pc[p] = "log_write" => held[p] # NoBlock
        /\ \A p \in Proc : held[p] # NoBlock =>
             pc[p] \in {"op", "log_write"} /\ (panicked = "no" => pc[p] = "log_write")
        /\ panicked \in {"no", "too big a transaction"}
  <1>w. Who
    BY Zenon, <1>1 DEF CallsOK
  <1>h. Holds
    BY Zenon, <1>1 DEF CallsOK
  <1>s. SUFFICES Who' /\ Holds'
    BY Zenon, <1>c, <1>m DEF CallsOK
  <1> HIDE DEF Who, Holds
  <1>3. ASSUME NEW p \in Proc, begin_op(p)
        PROVE  Who' /\ Holds'
    <2>1. \A q \in Proc : q # p => pc'[q] = pc[q]
      BY <1>1, <1>3 DEF begin_op, Goto
    <2>2. held' = held /\ panicked' = panicked /\ committing' = committing /\ pc[p] \in {"idle", "awake"}
      BY <1>3 DEF begin_op
    <2>3. pc'[p] = "asleep" \/ (pc'[p] = "op" /\ ~committing)
      BY <1>1, <1>3 DEF begin_op, Goto
    <2>4. Who'
      BY <1>w, <2>1, <2>2, <2>3 DEF Who
    <2>5. Holds'
      BY Zenon, <1>h, <2>1, <2>2, <2>3 DEF Holds
    <2> QED
      BY <2>4, <2>5
  <1>4. ASSUME NEW p \in Proc, kill(p)
        PROVE  Who' /\ Holds'
    <2>1. \A q \in Proc : pc'[q] = pc[q] \/ (pc[q] = "asleep" /\ pc'[q] = "awake")
      BY <1>1, <1>4 DEF kill, Goto
    <2>2. held' = held /\ panicked' = panicked /\ committing' = committing
      BY <1>4 DEF kill
    <2>4. Who'
      BY <1>w, <2>1, <2>2 DEF Who
    <2>5. Holds'
      BY Zenon, <1>h, <2>1, <2>2 DEF Holds
    <2> QED
      BY <2>4, <2>5
  <1>5. ASSUME NEW p \in Proc, NEW b \in Block, NEW x \in Value, modify(p, b, x)
        PROVE  Who' /\ Holds'
    <2>1. ~committing /\ \A q \in Proc : pc[q] \notin Committer
      BY Zenon, <1>5, NobodyElse DEF modify
    <2>2. /\ \A q \in Proc : q # p => pc'[q] = pc[q] /\ held'[q] = held[q]
          /\ held'[p] = b /\ committing' = committing /\ pc[p] = "op" /\ panicked = "no"
      BY Zenon, <1>1, <1>5 DEF modify, Goto, Up
    <2>3. outstanding >= 1
      <3>1. Active \in SUBSET Proc /\ p \in Active
        BY Zenon, <1>5 DEF modify, Active
      <3>2. IsFiniteSet(Active) /\ Cardinality(Active) \in Nat
        BY <3>1, PartOfProc
      <3>3. Cardinality(Active) # 0
        BY <3>1, <3>2, FS_EmptySet
      <3>4. outstanding = Cardinality(Active)
        BY Zenon, <1>1 DEF CallsOK
      <3> QED
        BY <3>2, <3>3, <3>4
    <2>4. \/ pc' = pc /\ panicked' = "too big a transaction"
          \/ pc' = [pc EXCEPT ![p] = "log_write"] /\ panicked' = panicked
      <3>1. outstanding \in Nat
        BY <1>1, Types
      <3>2. ~(outstanding < 1)
        BY <2>3, <3>1
      <3>3. CASE TooBig
        BY Zenon, <1>5, <3>3 DEF modify
      <3>4. CASE ~TooBig
        BY Zenon, <1>5, <3>2, <3>4 DEF modify, Goto
      <3> QED
        BY Zenon, <3>3, <3>4
    <2>5. Who'
      BY Zenon, <1>1, <2>1, <2>2, <2>4 DEF Who
    <2>6. Holds'
      BY Zenon, <1>1, <1>2, <1>h, <2>2, <2>4 DEF Holds
    <2> QED
      BY <2>5, <2>6
  <1>6. ASSUME NEW p \in Proc, log_write(p)
        PROVE  Who' /\ Holds'
    <2>1. ~committing /\ \A q \in Proc : pc[q] \notin Committer
      BY <1>6, NobodyElse DEF log_write
    <2>2. /\ \A q \in Proc : q # p => pc'[q] = pc[q] /\ held'[q] = held[q]
          /\ held'[p] = NoBlock /\ pc'[p] = "op"
          /\ committing' = committing /\ panicked' = panicked
      BY <1>1, <1>6 DEF log_write, Goto
    <2>3. Who'
      BY <2>1, <2>2 DEF Who
    <2>4. Holds'
      BY Zenon, <1>h, <2>2 DEF Holds
    <2> QED
      BY <2>3, <2>4
  <1>7. ASSUME NEW p \in Proc, end_op(p)
        PROVE  Who' /\ Holds'
    <2>1. ~committing /\ \A q \in Proc : pc[q] \notin Committer
      BY <1>7, NobodyElse DEF end_op
    <2>2. panicked' = panicked /\ held' = held /\ pc[p] = "op" /\ panicked = "no"
      BY <1>7, <2>1 DEF end_op, Up
    <2>3. CASE LastOut
      <3>1. /\ committing' = TRUE /\ pc'[p] \in {"done", "write_log"}
            /\ \A q \in Proc : q # p => pc'[q] = pc[q]
        BY <1>1, <1>7, <2>3 DEF end_op, Goto
      <3>2. \A q \in Proc : q # p => pc[q] \notin {"op", "log_write"}
        <4>1. Active \in SUBSET Proc /\ p \in Active
          BY <2>2 DEF Active
        <4>2. IsFiniteSet(Active) /\ Cardinality(Active) = 1
          BY Zenon, <1>1, <2>3, <4>1, PartOfProc DEF LastOut, CallsOK
        <4>3. PICK x : Active = {x}
          BY Zenon, <4>2, FS_Singleton
        <4> QED
          BY <4>1, <4>3 DEF Active
      <3>3. Who'
        BY <2>1, <3>1, <3>2 DEF Who
      <3>4. Holds'
        BY <1>h, <2>2, <3>1 DEF Holds
      <3> QED
        BY <3>3, <3>4
    <2>4. CASE ~LastOut
      <3>1. /\ committing' = committing /\ pc'[p] = "idle"
            /\ \A q \in Proc : q # p => pc'[q] = pc[q] \/ (pc[q] = "asleep" /\ pc'[q] = "awake")
        BY <1>7, <2>4 DEF end_op, wakeup
      <3>2. Who'
        BY <2>1, <3>1 DEF Who
      <3>3. Holds'
        BY <1>h, <2>2, <3>1 DEF Holds
      <3> QED
        BY <3>2, <3>3
    <2> QED
      BY <2>3, <2>4
  <1>8. ASSUME NEW p \in Proc, write_log(p) \/ write_head(p) \/ install_trans(p) \/ erase(p)
        PROVE  Who' /\ Holds'
    <2>1. /\ \A q \in Proc : q # p => pc'[q] = pc[q]
          /\ pc[p] \in Committer /\ pc'[p] \in Committer
      BY <1>1, <1>8 DEF write_log, write_head, install_trans, erase, Writing, Goto, CommitPoint
    <2>2. committing' = committing /\ held' = held /\ panicked' = panicked
      BY <1>8 DEF write_log, write_head, install_trans, erase
    <2>3. Who'
      BY <1>w, <2>1, <2>2 DEF Who
    <2>4. Holds'
      BY Zenon, <1>h, <2>1, <2>2 DEF Holds
    <2> QED
      BY <2>3, <2>4
  <1>9. ASSUME NEW p \in Proc, committed(p)
        PROVE  Who' /\ Holds'
    <2>1. /\ \A q \in Proc : q # p => pc'[q] = pc[q] \/ (pc[q] = "asleep" /\ pc'[q] = "awake")
          /\ pc[p] = "done" /\ pc'[p] = "idle" /\ ~committing'
      BY <1>9 DEF committed, Writing, wakeup
    <2>2. held' = held /\ panicked' = panicked
      BY <1>9 DEF committed
    <2>3. Who'
      BY <1>w, <2>1 DEF Who
    <2>4. Holds'
      BY Zenon, <1>h, <2>1, <2>2 DEF Holds
    <2> QED
      BY <2>3, <2>4
  <1>10. CASE crash
    BY <1>10 DEF crash, Who, Holds
  <1>11. CASE read_head \/ recover_install \/ recover_erase
    <2>1. pc' = pc /\ committing' = committing /\ held' = held /\ panicked' = panicked
      BY <1>11 DEF read_head, recover_install, recover_erase, ops
    <2> QED
      BY Zenon, <1>w, <1>h, <2>1 DEF Who, Holds
  <1> QED
    BY <1>3, <1>4, <1>5, <1>6, <1>7, <1>8, <1>9, <1>10, <1>11 DEF Next

-----------------------------------------------------------------------------
(* What every case below needs of a state of the invariant.                *)
LEMMA Facts ==
  ASSUME IInv
  PROVE  /\ lh \in Seq(Block) /\ head \in Seq(Block)
         /\ Len(lh) \in Nat /\ Len(head) \in Nat /\ Len(<<>>) = 0
         /\ pc \in [Proc -> Place] /\ held \in [Proc -> Block \cup {NoBlock}]
         /\ home \in [Block -> Value] /\ cache \in [Block -> Value]
         /\ slot \in [1 .. MaxLen -> Value] /\ dirty \subseteq Block
         /\ tail \in 1 .. MaxLen /\ MaxLen \in Nat
         /\ Len(lh) <= MaxLen /\ Len(head) <= MaxLen
         /\ \A i \in 1 .. Len(lh) : lh[i] \in Block
         /\ \A i \in 1 .. Len(head) : head[i] \in Block
  <1>1. TypeOK /\ CallsOK
    BY DEF IInv
  <1>2. lh \in Seq(Block) /\ head \in Seq(Block)
    BY <1>1, Types
  <1> QED
    BY <1>1, <1>2, Types, Lengths, Sizes

(* A log that is not empty has a first entry (commit tests lh.n > 0).      *)
LEMMA Fresh ==
  ASSUME NEW s \in Seq(Block), s # <<>>
  PROVE  1 \in 1 .. Len(s)
  OBVIOUS

(* While a process commits, no other does and no call is in progress, so   *)
(* no buffer is held.                                                      *)
LEMMA Alone ==
  ASSUME IInv, boot = "up", panicked = "no", NEW p \in Proc, pc[p] \in Committer
  PROVE  /\ \A q \in Proc : q # p => pc[q] \notin Committer
         /\ Active = {}
         /\ \A b \in Block : \A q \in Proc : held[q] # b
         /\ \A b \in Block : b \notin dirty => cache[b] = home[b]
         /\ committing
  <1>1. committing /\ \A q \in Proc : q # p => pc[q] \notin Committer \cup {"op", "log_write"}
    BY DEF IInv, CallsOK
  <1>2. \A q \in Proc : pc[q] \notin {"op", "log_write"}
    BY <1>1 DEF Committer
  <1>3. \A q \in Proc : held[q] # NoBlock => pc[q] \in {"op", "log_write"}
    BY DEF IInv, CallsOK
  <1>4. \A b \in Block : \A q \in Proc : held[q] # b
    BY <1>2, <1>3, Sizes
  <1>5. CleanIsHome
    BY DEF IInv, UpOK
  <1> QED
    BY <1>1, <1>2, <1>4, <1>5 DEF CleanIsHome, Active

(* Steps that touch neither the blocks nor the commit.                     *)
LEMMA Quiet ==
  ASSUME IInv, boot = "up", boot' = boot,
         UNCHANGED <<home, slot, head, cache, dirty, lh, tail, held>>,
         \A q \in Proc : pc'[q] \in Committer \/ pc[q] \in {"install_trans", "erase"}
                            => pc'[q] = pc[q]
  PROVE  Consistent' /\ UpOK'
  <1>1. UpOK /\ Consistent
    BY DEF IInv
  <1>2. Consistent'
    BY <1>1 DEF Consistent
  <1>3. CleanIsHome'
    BY <1>1 DEF UpOK, CleanIsHome
  <1>4. (\A p \in Proc : pc'[p] \notin {"install_trans", "erase"}) => head' = <<>>
    <2>1. (\A p \in Proc : pc[p] \notin {"install_trans", "erase"}) => head = <<>>
      BY <1>1 DEF UpOK
    <2> QED
      BY <2>1
  <1>5. \A b \in dirty' : \E i \in 1 .. Len(lh') : lh'[i] = b
    BY <1>1 DEF UpOK
  <1>6. ASSUME NEW p \in Proc
        PROVE  StageOK(p)'
    <2>1. StageOK(p)
      BY <1>1 DEF UpOK
    <2> QED
      BY <2>1 DEF StageOK, Committer
  <1> QED
    BY <1>2, <1>3, <1>4, <1>5, <1>6 DEF UpOK

(* A step of p at the end of which no other process commits.               *)
LEMMA OnlyStage ==
  ASSUME NEW p \in Proc, \A q \in Proc : q # p => pc'[q] \notin Committer,
         CleanIsHome', StageOK(p)',
         pc'[p] \notin {"install_trans", "erase"} => head' = <<>>,
         \A b \in dirty' : \E i \in 1 .. Len(lh') : lh'[i] = b
  PROVE  UpOK'
  <1>1. \A q \in Proc : StageOK(q)'
    BY DEF StageOK, Committer
  <1> QED
    BY <1>1 DEF UpOK

(* The steps of the calls (begin_op, the write of a buffer, log_write,     *)
(* end_op) change nothing on disk, and keep the cache ahead of it only     *)
(* where the log or a held buffer says so.                                 *)
LEMMA CallSteps ==
  ASSUME IInv, Next, boot = "up", panicked = "no", NEW p \in Proc,
         \/ begin_op(p) \/ kill(p) \/ log_write(p) \/ end_op(p) \/ committed(p)
         \/ \E b \in Block, x \in Value : modify(p, b, x)
  PROVE  Consistent' /\ boot' = "up" /\ UpOK'
  <1>t. /\ lh \in Seq(Block) /\ head \in Seq(Block)
        /\ Len(lh) \in Nat /\ Len(<<>>) = 0
        /\ pc \in [Proc -> Place] /\ held \in [Proc -> Block \cup {NoBlock}]
        /\ cache \in [Block -> Value] /\ dirty \subseteq Block
        /\ NoBlock \notin Block
    BY Facts, Sizes
  <1>u. UpOK
    BY DEF IInv
  <1>n. pc[p] \in {"op", "log_write"} => head = <<>> /\ \A q \in Proc : pc[q] \notin Committer
    <2>1. pc[p] \in {"op", "log_write"} => \A q \in Proc : pc[q] \notin Committer
      BY NobodyElse
    <2>2. (\A q \in Proc : pc[q] \notin Committer) => head = <<>>
      BY <1>u DEF UpOK, Committer
    <2> QED
      BY <2>1, <2>2
  <1>e. ASSUME head = <<>>, head' = head
        PROVE  Consistent'
    BY <1>t, <1>e DEF Consistent
  <1>1. CASE begin_op(p)
    <2>1. \A q \in Proc : pc'[q] = pc[q] \/ (pc[q] \in {"idle", "awake"} /\ pc'[q] \in {"asleep", "op"})
      BY <1>1, <1>t DEF begin_op, Goto
    <2>2. boot' = boot /\ UNCHANGED <<home, slot, head, cache, dirty, lh, tail, held>>
      BY <1>1 DEF begin_op, disk
    <2> QED
      BY <2>1, <2>2, Quiet DEF Committer
  <1>2. CASE kill(p)
    <2>1. \A q \in Proc : pc'[q] = pc[q] \/ (pc[q] = "asleep" /\ pc'[q] = "awake")
      BY <1>2, <1>t DEF kill, Goto
    <2>2. boot' = boot /\ UNCHANGED <<home, slot, head, cache, dirty, lh, tail, held>>
      BY <1>2 DEF kill, disk
    <2> QED
      BY <2>1, <2>2, Quiet DEF Committer
  <1>3. CASE committed(p)
    <2>1. /\ \A q \in Proc : q # p => pc'[q] = pc[q] \/ (pc[q] = "asleep" /\ pc'[q] = "awake")
          /\ pc[p] = "done" /\ pc'[p] = "idle"
      BY <1>3 DEF committed, Writing, wakeup
    <2>2. boot' = boot /\ UNCHANGED <<home, slot, head, cache, dirty, lh, tail, held>>
      BY <1>3 DEF committed, disk
    <2> QED
      BY Zenon, <2>1, <2>2, Quiet DEF Committer
  <1>4. ASSUME NEW b \in Block, NEW x \in Value, modify(p, b, x)
        PROVE  Consistent' /\ boot' = "up" /\ UpOK'
    <2>1. /\ UNCHANGED <<home, slot, head, dirty, lh, boot>>
          /\ cache' = [cache EXCEPT ![b] = x] /\ held' = [held EXCEPT ![p] = b] /\ pc[p] = "op"
      BY Zenon, <1>4 DEF modify, disk
    <2>2. pc' = pc \/ pc' = [pc EXCEPT ![p] = "log_write"]
      <3>1. CASE TooBig \/ outstanding < 1
        BY Zenon, <1>4, <3>1 DEF modify
      <3>2. CASE ~(TooBig \/ outstanding < 1)
        BY <1>4, <3>2 DEF modify, Goto
      <3> QED
        BY <3>1, <3>2
    <2>3. \A q \in Proc : pc'[q] \notin Committer
      BY <1>n, <1>t, <2>1, <2>2 DEF Committer
    <2>4. held[p] = NoBlock
      BY <2>1 DEF IInv, CallsOK
    <2>5. CleanIsHome'
      BY <1>t, <1>u, <2>1, <2>4 DEF UpOK, CleanIsHome
    <2>6. \A d \in dirty' : \E i \in 1 .. Len(lh') : lh'[i] = d
      BY <1>u, <2>1 DEF UpOK
    <2>7. StageOK(p)'
      BY <2>3 DEF StageOK, Committer
    <2> QED
      BY <1>e, <1>n, <2>1, <2>3, <2>5, <2>6, <2>7, OnlyStage
  <1>5. CASE log_write(p)
    <2>1. /\ UNCHANGED <<home, slot, head, cache, boot>> /\ pc[p] = "log_write"
          /\ pc' = [pc EXCEPT ![p] = "op"] /\ held' = [held EXCEPT ![p] = NoBlock]
          /\ dirty' = dirty \cup {held[p]} /\ lh' = Logged(held[p])
      BY <1>5 DEF log_write, Goto, Pinned, disk
    <2>2. held[p] \in Block
      <3>1. held[p] # NoBlock
        BY <2>1 DEF IInv, CallsOK
      <3> QED
        BY <1>t, <3>1
    <2>3. \A q \in Proc : pc'[q] \notin Committer
      BY <1>n, <1>t, <2>1 DEF Committer
    <2>5. CleanIsHome'
      BY <1>t, <1>u, <2>1 DEF UpOK, CleanIsHome
    <2>6. \A d \in dirty' : \E i \in 1 .. Len(lh') : lh'[i] = d
      <3>1. \A d \in dirty : \E i \in 1 .. Len(lh) : lh[i] = d
        BY <1>u DEF UpOK
      <3>2. CASE InHeader(lh, held[p])
        BY <2>1, <3>1, <3>2 DEF Logged, InHeader
      <3>3. CASE ~InHeader(lh, held[p])
        <4>1. lh' = Append(lh, held[p])
          BY <2>1, <3>3 DEF Logged
        <4>2. /\ Len(lh') = Len(lh) + 1 /\ lh'[Len(lh) + 1] = held[p]
              /\ \A i \in 1 .. Len(lh) : lh'[i] = lh[i]
          BY <1>t, <2>2, <4>1
        <4>3. /\ 1 .. Len(lh) \subseteq 1 .. Len(lh')
              /\ Len(lh) + 1 \in 1 .. Len(lh')
          BY <1>t, <4>2
        <4>4. \A d \in dirty : \E i \in 1 .. Len(lh') : lh'[i] = d
          BY <3>1, <4>2, <4>3
        <4> QED
          BY <2>1, <4>2, <4>3, <4>4
      <3> QED
        BY <3>2, <3>3
    <2>7. StageOK(p)'
      BY <2>3 DEF StageOK, Committer
    <2> QED
      BY <1>e, <1>n, <2>1, <2>3, <2>5, <2>6, <2>7, OnlyStage
  <1>6. CASE end_op(p)
    <2>1. UNCHANGED <<home, slot, head, cache, dirty, lh, held, boot>> /\ tail' = 1 /\ pc[p] = "op"
      BY <1>6 DEF end_op, disk
    <2>2. /\ pc'[p] = "done" => lh = <<>>
          /\ pc'[p] = "write_log" => lh # <<>>
          /\ pc'[p] \in {"idle", "done", "write_log"}
          /\ \A q \in Proc : q # p => pc'[q] = pc[q] \/ pc'[q] = "awake"
      <3>1. CASE LastOut
        BY <1>6, <1>t, <3>1 DEF end_op, Goto
      <3>2. CASE ~LastOut
        BY <1>6, <3>2 DEF end_op, wakeup
      <3> QED
        BY <3>1, <3>2
    <2>3. \A q \in Proc : q # p => pc'[q] \notin Committer
      BY Zenon, <1>n, <2>1, <2>2 DEF Committer
    <2>5. CleanIsHome'
      BY <1>u, <2>1 DEF UpOK, CleanIsHome
    <2>6. \A d \in dirty : \E i \in 1 .. Len(lh) : lh[i] = d
      BY <1>u DEF UpOK
    <2>7. StageOK(p)'
      <3>1. pc'[p] = "write_log" => 1 \in 1 .. Len(lh)
        BY <1>t, <2>2, Fresh
      <3>2. pc'[p] = "done" => dirty = {}
        BY <1>t, <2>2, <2>6
      <3>3. \A i \in 1 .. tail' - 1 : slot'[i] = cache'[lh'[i]]
        BY <2>1
      <3>4. CASE pc'[p] = "write_log"
        BY <2>1, <3>1, <3>3, <3>4 DEF StageOK
      <3>5. CASE pc'[p] # "write_log"
        BY Zenon, <2>1, <2>2, <3>2, <3>5 DEF StageOK
      <3> QED
        BY <3>4, <3>5
    <2>8. UpOK'
      BY <1>n, <2>1, <2>2, <2>3, <2>5, <2>6, <2>7, OnlyStage
    <2> QED
      BY <1>e, <1>n, <2>1, <2>8
  <1> QED
    BY <1>1, <1>2, <1>3, <1>4, <1>5, <1>6

-----------------------------------------------------------------------------
(* The four writes of commit (log.c:193-203), block by block.              *)
LEMMA CommitSteps ==
  ASSUME IInv, Next, boot = "up", panicked = "no", NEW p \in Proc,
         write_log(p) \/ write_head(p) \/ install_trans(p) \/ erase(p)
  PROVE  Consistent' /\ boot' = "up" /\ UpOK'
  <1>t. /\ lh \in Seq(Block) /\ head \in Seq(Block)
        /\ Len(lh) \in Nat /\ Len(head) \in Nat /\ Len(<<>>) = 0
        /\ pc \in [Proc -> Place]
        /\ home \in [Block -> Value] /\ cache \in [Block -> Value]
        /\ slot \in [1 .. MaxLen -> Value] /\ dirty \subseteq Block
        /\ MaxLen \in Nat /\ Len(lh) <= MaxLen
        /\ \A i \in 1 .. Len(lh) : lh[i] \in Block
    BY Facts
  <1>l. Len(lh) \in Nat
    BY <1>t
  <1>u. UpOK
    BY DEF IInv
  <1>d. \A d \in dirty : \E i \in 1 .. Len(lh) : lh[i] = d
    BY <1>u DEF UpOK
  <1>s. StageOK(p)
    BY <1>u DEF UpOK
  <1>c. pc[p] \in Committer /\ boot' = "up" /\ held' = held
        /\ \A q \in Proc : q # p => pc'[q] = pc[q]
    BY Zenon, <1>t DEF write_log, write_head, install_trans, erase, Writing, Goto, CommitPoint, Committer
  <1>a. /\ \A q \in Proc : q # p => pc[q] \notin Committer
        /\ \A b \in Block : \A q \in Proc : held[q] # b
        /\ \A b \in Block : b \notin dirty => cache[b] = home[b]
    BY <1>c, Alone
  <1>b. \A q \in Proc : q # p => pc'[q] \notin Committer
    BY <1>a, <1>c
  <1>h. pc[p] \in {"write_log", "write_head"} => head = <<>>
    <2>1. (\A q \in Proc : pc[q] \notin {"install_trans", "erase"}) => head = <<>>
      BY <1>u DEF UpOK
    <2> QED
      BY <1>a, <2>1 DEF Committer
  <1>1. CASE write_log(p)
    <2>1. /\ slot' = [slot EXCEPT ![tail] = cache[lh[tail]]] /\ pc[p] = "write_log"
          /\ tail' = (tail % Len(lh)) + 1
          /\ UNCHANGED <<home, head, cache, dirty, lh>>
      BY <1>1 DEF write_log, Writing
    <2>2. pc'[p] = IF tail = Len(lh) THEN "write_head" ELSE "write_log"
      BY <1>1, <1>t DEF write_log, Goto, CommitPoint
    <2>3. tail \in 1 .. Len(lh) /\ \A i \in 1 .. tail - 1 : slot[i] = cache[lh[i]]
      BY <1>s, <2>1 DEF StageOK
    <2>4. tail' = IF tail = Len(lh) THEN 1 ELSE tail + 1
      BY Zenon, <1>t, <2>1, <2>3, NextTail
    <2>5. \A i \in 1 .. tail : slot'[i] = cache'[lh'[i]]
      BY <1>t, <2>1, <2>3
    <2>6. StageOK(p)'
      <3>1. CASE tail = Len(lh)
        <4>1. tail' = 1 /\ pc'[p] = "write_head"
          BY <2>2, <2>4, <3>1
        <4>2. 1 \in 1 .. Len(lh')
          BY <1>t, <2>1, <2>3
        <4>3. \A i \in 1 .. Len(lh') : slot'[i] = cache'[lh'[i]]
          BY <2>1, <2>5, <3>1
        <4> QED
          BY <4>1, <4>2, <4>3 DEF StageOK
      <3>2. CASE tail # Len(lh)
        <4>1. tail' = tail + 1 /\ pc'[p] = "write_log"
          BY <2>2, <2>4, <3>2
        <4>2. tail' \in 1 .. Len(lh')
          <5>1. tail \in 1 .. Len(lh) /\ lh' = lh
            BY <2>1, <2>3
          <5> QED
            BY <1>l, <3>2, <4>1, <5>1
        <4>3. \A i \in 1 .. tail' - 1 : slot'[i] = cache'[lh'[i]]
          BY <1>l, <2>3, <2>5, <4>1
        <4> QED
          BY <4>1, <4>2, <4>3 DEF StageOK
      <3> QED
        BY <3>1, <3>2
    <2>7. CleanIsHome'
      BY <1>a, <2>1 DEF CleanIsHome
    <2>8. Consistent'
      BY <1>h, <1>t, <2>1 DEF Consistent
    <2>9. head' = <<>>
      BY Zenon, <1>h, <2>1
    <2>10. \A d \in dirty' : \E i \in 1 .. Len(lh') : lh'[i] = d
      BY <1>d, <2>1
    <2>11. UpOK'
      BY <1>b, <2>6, <2>7, <2>9, <2>10, OnlyStage
    <2> QED
      BY <1>c, <2>8, <2>11
  <1>2. CASE write_head(p)
    <2>1. /\ head' = lh /\ pc[p] = "write_head" /\ pc'[p] = "install_trans"
          /\ UNCHANGED <<home, slot, cache, dirty, lh, tail>>
      BY Zenon, <1>2, <1>t DEF write_head, Writing, CommitPoint, Goto
    <2>2. tail = 1 /\ tail \in 1 .. Len(lh) /\ \A i \in 1 .. Len(lh) : slot[i] = cache[lh[i]]
      BY <1>s, <2>1 DEF StageOK
    <2>3. Consistent'
      BY <2>1, <2>2 DEF Consistent
    <2>4. dirty' \subseteq {lh'[i] : i \in tail' .. Len(lh')}
      BY <1>d, <2>1, <2>2
    <2>5. StageOK(p)'
      BY <2>1, <2>2, <2>4 DEF StageOK
    <2>6. CleanIsHome'
      BY <1>a, <2>1 DEF CleanIsHome
    <2>7. \A d \in dirty' : \E i \in 1 .. Len(lh') : lh'[i] = d
      BY <1>d, <2>1
    <2>8. UpOK'
      BY <1>b, <2>1, <2>5, <2>6, <2>7, OnlyStage
    <2> QED
      BY <1>c, <2>3, <2>8
  <1>3. CASE install_trans(p)
    <2>1. /\ home' = [home EXCEPT ![lh[tail]] = slot[tail]]
          /\ cache' = [cache EXCEPT ![lh[tail]] = slot[tail]]
          /\ dirty' = dirty \ {lh[tail]} /\ tail' = (tail % Len(lh)) + 1
          /\ pc[p] = "install_trans" /\ UNCHANGED <<slot, head, lh>>
      BY <1>3 DEF install_trans, Writing, Install
    <2>2. pc'[p] = IF tail = Len(lh) THEN "erase" ELSE "install_trans"
      BY <1>3, <1>t DEF install_trans, Goto
    <2>3. /\ tail \in 1 .. Len(lh) /\ dirty \subseteq {lh[i] : i \in tail .. Len(lh)}
          /\ \A i \in 1 .. Len(lh) : slot[i] = cache[lh[i]]
          /\ head = lh
      BY <1>s, <2>1 DEF StageOK
    <2>4. tail' = IF tail = Len(lh) THEN 1 ELSE tail + 1
      BY Zenon, <1>t, <2>1, <2>3, NextTail
    <2>5. cache' = cache /\ lh[tail] \in Block /\ home'[lh[tail]] = cache[lh[tail]]
      BY <1>t, <2>1, <2>3
    <2>6. CleanIsHome'
      BY <1>a, <1>t, <2>1, <2>5 DEF CleanIsHome
    <2>7. Consistent'
      <3>1. Consistent
        BY DEF IInv
      <3> QED
        BY <2>1, <3>1 DEF Consistent
    <2>8. \A i \in 1 .. Len(lh') : slot'[i] = cache'[lh'[i]]
      BY Zenon, <2>1, <2>3, <2>5
    <2>9. StageOK(p)'
      <3>1. CASE tail = Len(lh)
        <4>1. pc'[p] = "erase"
          BY <2>2, <3>1
        <4>2. dirty' = {}
          <5>1. tail .. Len(lh) = {tail}
            BY <1>t, <2>3, <3>1
          <5>2. dirty \subseteq {lh[tail]}
            BY <2>3, <5>1
          <5> QED
            BY Zenon, <2>1, <5>2
        <4> QED
          BY Zenon, <2>1, <2>3, <2>8, <4>1, <4>2 DEF StageOK
      <3>2. CASE tail # Len(lh)
        <4>1. tail' = tail + 1 /\ pc'[p] = "install_trans"
          BY <2>2, <2>4, <3>2
        <4>2. tail' \in 1 .. Len(lh')
          <5>1. tail \in 1 .. Len(lh) /\ lh' = lh
            BY <2>1, <2>3
          <5> QED
            BY <1>l, <3>2, <4>1, <5>1
        <4>3. dirty' \subseteq {lh'[i] : i \in tail' .. Len(lh')}
          <5>1. SUFFICES ASSUME NEW d \in dirty'
                         PROVE  \E i \in tail + 1 .. Len(lh) : lh[i] = d
            BY Zenon, <2>1, <4>1
          <5>2. PICK i \in tail .. Len(lh) : lh[i] = d
            BY <2>1, <2>3
          <5>3. i # tail
            BY <2>1, <5>2
          <5> QED
            BY <1>l, <2>3, <5>2, <5>3
        <4> QED
          BY Zenon, <2>1, <2>3, <2>8, <4>1, <4>2, <4>3 DEF StageOK
      <3> QED
        BY <3>1, <3>2
    <2>10. \A d \in dirty' : \E i \in 1 .. Len(lh') : lh'[i] = d
      BY <1>d, <2>1
    <2>11. pc'[p] \in {"install_trans", "erase"}
      BY <2>2
    <2>12. UpOK'
      BY <1>b, <2>6, <2>9, <2>10, <2>11, OnlyStage
    <2> QED
      BY <1>c, <2>7, <2>12
  <1>4. CASE erase(p)
    <2>1. /\ head' = <<>> /\ lh' = <<>> /\ pc[p] = "erase" /\ pc'[p] = "done"
          /\ UNCHANGED <<home, slot, cache, dirty>>
      BY Zenon, <1>4, <1>t DEF erase, Writing, Goto
    <2>2. dirty = {}
      BY <1>s, <2>1 DEF StageOK
    <2>3. Consistent'
      BY <1>t, <2>1 DEF Consistent
    <2>4. StageOK(p)'
      BY <2>1, <2>2 DEF StageOK
    <2>5. CleanIsHome'
      BY <1>a, <2>1 DEF CleanIsHome
    <2>6. UpOK'
      BY <1>b, <2>1, <2>2, <2>4, <2>5, OnlyStage
    <2> QED
      BY <1>c, <2>3, <2>6
  <1> QED
    BY Zenon, <1>1, <1>2, <1>3, <1>4

(* initlog and the machine's stops.                                        *)
LEMMA BootSteps ==
  ASSUME IInv, Next, crash \/ read_head \/ recover_install \/ recover_erase
  PROVE  Consistent' /\ (boot' = "up" => UpOK') /\ (boot' # "up" => BootOK')
  <1>t. /\ lh \in Seq(Block) /\ head \in Seq(Block)
        /\ Len(lh) \in Nat /\ Len(head) \in Nat /\ Len(<<>>) = 0
        /\ home \in [Block -> Value] /\ cache \in [Block -> Value]
        /\ \A i \in 1 .. Len(head) : head[i] \in Block
    BY Facts
  <1>c. Consistent
    BY DEF IInv
  <1>b. boot # "up" => BootOK
    BY DEF IInv
  <1>1. CASE crash
    <2>1. Consistent'
      BY <1>1, <1>c DEF crash, disk, Consistent
    <2>2. BootOK' /\ boot' # "up"
      BY <1>1 DEF crash, disk, BootOK
    <2> QED
      BY <2>1, <2>2
  <1>2. CASE read_head
    <2>1. /\ boot = "read_head" /\ lh' = head
          /\ boot' = IF head = <<>> THEN "erase" ELSE "install_trans"
          /\ UNCHANGED <<home, slot, head, cache, dirty, tail, pc, panicked>>
      BY <1>2 DEF read_head, disk, ops
    <2>2. Consistent'
      BY <1>c, <2>1 DEF Consistent
    <2>3. /\ cache = home /\ dirty = {} /\ tail = 1 /\ panicked = "no"
          /\ \A p \in Proc : pc[p] = "idle"
      BY <1>b, <2>1 DEF BootOK
    <2>4. CASE head = <<>>
      BY <1>t, <2>1, <2>2, <2>3, <2>4 DEF BootOK
    <2>5. CASE head # <<>>
      <3>1. 1 \in 1 .. Len(head)
        BY <1>t, <2>5, Fresh
      <3> QED
        BY <2>1, <2>2, <2>3, <2>5, <3>1 DEF BootOK
    <2> QED
      BY <2>4, <2>5
  <1>3. CASE recover_install
    <2>1. /\ home' = [home EXCEPT ![lh[tail]] = slot[tail]]
          /\ cache' = [cache EXCEPT ![lh[tail]] = slot[tail]]
          /\ dirty' = dirty \ {lh[tail]} /\ tail' = (tail % Len(lh)) + 1
          /\ boot = "install_trans" /\ boot' = IF tail = Len(lh) THEN "erase" ELSE "install_trans"
          /\ UNCHANGED <<slot, head, lh, pc, panicked>>
      BY <1>3 DEF recover_install, Install, ops
    <2>2. /\ cache = home /\ dirty = {} /\ panicked = "no" /\ lh = head
          /\ \A p \in Proc : pc[p] = "idle"
          /\ tail \in 1 .. Len(head) /\ \A i \in 1 .. tail - 1 : home[head[i]] = slot[i]
      BY <1>b, <2>1 DEF BootOK
    <2>3. tail' = IF tail = Len(lh) THEN 1 ELSE tail + 1
      <3>1. Len(lh) \in Nat /\ tail \in 1 .. Len(lh) /\ tail' = (tail % Len(lh)) + 1
        BY <1>t, <2>1, <2>2
      <3> QED
        BY Zenon, <3>1, NextTail
    <2>4. Consistent'
      BY <1>c, <2>1 DEF Consistent
    <2>5. \A i \in 1 .. tail : home'[head'[i]] = slot'[i]
      <3>1. SUFFICES ASSUME NEW i \in 1 .. tail
                     PROVE  home'[head[i]] = slot[i]
        BY <2>1
      <3>2. i \in 1 .. Len(head) /\ head[i] \in Block /\ head[tail] \in Block
        BY <1>t, <2>2
      <3>3. CASE head[i] = head[tail]
        <4>1. slot[i] = slot[tail]
          BY <1>c, <2>2, <3>2, <3>3 DEF Consistent
        <4> QED
          BY <1>t, <2>1, <2>2, <3>2, <3>3, <4>1
      <3>4. CASE head[i] # head[tail]
        <4>1. i \in 1 .. tail - 1
          BY <2>2, <3>4
        <4> QED
          BY <1>t, <2>1, <2>2, <3>2, <3>4, <4>1
      <3> QED
        BY <3>3, <3>4
    <2>6. cache' = home' /\ dirty' = {}
      BY <2>1, <2>2
    <2>7. CASE tail = Len(lh)
      <3>1. boot' = "erase" /\ \A i \in 1 .. Len(head') : home'[head'[i]] = slot'[i]
        BY <2>1, <2>2, <2>5, <2>7
      <3> QED
        BY <2>1, <2>2, <2>4, <2>6, <3>1 DEF BootOK
    <2>8. CASE tail # Len(lh)
      <3>1. /\ boot' = "install_trans" /\ tail' = tail + 1
            /\ tail' \in 1 .. Len(head')
        BY <1>t, <2>1, <2>2, <2>3, <2>8
      <3>2. \A i \in 1 .. tail' - 1 : home'[head'[i]] = slot'[i]
        BY <1>t, <2>2, <2>5, <3>1
      <3> QED
        BY <2>1, <2>2, <2>4, <2>6, <3>1, <3>2 DEF BootOK
    <2> QED
      BY <2>7, <2>8
  <1>4. CASE recover_erase
    <2>1. /\ head' = <<>> /\ lh' = <<>> /\ boot = "erase" /\ boot' = "up"
          /\ UNCHANGED <<home, cache, dirty, pc, held>>
      BY <1>4 DEF recover_erase, ops
    <2>2. cache = home /\ dirty = {} /\ \A p \in Proc : pc[p] = "idle"
      BY <1>b, <2>1 DEF BootOK
    <2>3. Consistent'
      BY <1>t, <2>1 DEF Consistent
    <2>4. CleanIsHome'
      BY <2>1, <2>2 DEF CleanIsHome
    <2>5. UpOK'
      BY <2>1, <2>2, <2>4 DEF UpOK, StageOK
    <2> QED
      BY <2>1, <2>3, <2>5
  <1> QED
    BY <1>1, <1>2, <1>3, <1>4

(* Every step of the log keeps the invariant, crashes and recovery         *)
(* included.                                                               *)
LEMMA InvariantStep ==
  ASSUME IInv, [Next]_vars
  PROVE  IInv'
  <1>1. CASE Next
    <2>1. TypeOK' /\ CallsOK'
      BY <1>1, TypeStep, CallsStep
    <2>2. CASE crash \/ read_head \/ recover_install \/ recover_erase
      BY <1>1, <2>1, <2>2, BootSteps DEF IInv
    <2>3. CASE \E p \in Proc : \/ begin_op(p) \/ kill(p) \/ log_write(p) \/ end_op(p) \/ committed(p)
                               \/ \E b \in Block, x \in Value : modify(p, b, x)
      <3>1. boot = "up" /\ panicked = "no"
        BY Zenon, <2>3 DEF begin_op, kill, log_write, end_op, committed, modify, Writing, Up
      <3> QED
        BY <1>1, <2>1, <2>3, <3>1, CallSteps DEF IInv
    <2>4. CASE \E p \in Proc : write_log(p) \/ write_head(p) \/ install_trans(p) \/ erase(p)
      <3>1. boot = "up" /\ panicked = "no"
        BY <2>4 DEF write_log, write_head, install_trans, erase, Writing, Up
      <3> QED
        BY <1>1, <2>1, <2>4, <3>1, CommitSteps DEF IInv
    <2> QED
      BY <1>1, <2>2, <2>3, <2>4 DEF Next
  <1>2. CASE UNCHANGED vars
    <2>1. /\ UNCHANGED <<home, slot, head, cache, dirty, lh, tail, boot, panicked>>
          /\ UNCHANGED <<outstanding, committing, pc, held, wrote>>
      BY <1>2 DEF vars, disk, ops
    <2>2. TypeOK'
      BY Zenon, <2>1 DEF IInv, TypeOK, Slots
    <2>3. CallsOK'
      BY Zenon, <2>1 DEF IInv, CallsOK, Active, Entering, MaxLen
    <2>4. Consistent'
      BY <2>1 DEF IInv, Consistent
    <2>5. boot' = "up" => UpOK'
      BY <2>1, Quiet DEF Committer
    <2>6. boot' # "up" => BootOK'
      BY <2>1 DEF IInv, BootOK
    <2> QED
      BY <2>2, <2>3, <2>4, <2>5, <2>6 DEF IInv
  <1> QED
    BY <1>1, <1>2

(* The invariant holds at boot with an empty log (initlog).                *)
LEMMA InvariantInit ==
  ASSUME Init
  PROVE  IInv
  <1>1. TypeOK
    <2>1. home \in [Block -> Value] /\ cache \in [Block -> Value] /\ slot \in [Slots -> Value]
      BY Sizes DEF Init
    <2>2. head \in Seq(Block) /\ lh \in Seq(Block) /\ dirty \subseteq Block
      BY DEF Init
    <2>3. outstanding \in 0 .. Cardinality(Proc) /\ tail \in Slots
      BY Sizes DEF Init
    <2>4. committing \in BOOLEAN
      BY Zenon DEF Init
    <2>5. /\ pc \in [Proc -> {"idle", "asleep", "awake", "op", "log_write", "write_log",
                        "write_head", "install_trans", "erase", "done"}]
          /\ held \in [Proc -> Block \cup {NoBlock}]
          /\ boot \in {"read_head", "install_trans", "erase", "up"}
          /\ panicked \in {"no", "too big a transaction", "log_write outside of trans", "log.committing"}
      BY DEF Init
    <2>6. wrote \in [Proc -> SUBSET Block]
      <3>1. wrote = [p \in Proc |-> {}]
        BY DEF Init
      <3> QED
        BY <3>1
    <2> QED
      BY Zenon, <2>1, <2>2, <2>3, <2>4, <2>5, <2>6 DEF TypeOK
  <1>2. CallsOK
    <2>1. Active = {} /\ Entering = {}
      BY DEF Init, Active, Entering
    <2>2. Cardinality(Active) = 0 /\ Cardinality(Entering) = 0
      BY <2>1, FS_EmptySet
    <2>3. Len(lh) = 0 /\ Len(head) = 0 /\ outstanding = 0
      BY DEF Init
    <2>4. /\ outstanding = Cardinality(Active)
          /\ Len(lh) + Cardinality(Entering) <= MaxLen
          /\ Len(head) <= MaxLen
      BY <2>2, <2>3, Sizes
    <2> QED
      BY <2>4 DEF Init, CallsOK, Committer
  <1>3. Len(head) = 0 /\ boot # "up"
    BY DEF Init
  <1>4. Consistent
    BY <1>3 DEF Consistent
  <1>5. BootOK
    BY DEF Init, BootOK
  <1> QED
    BY <1>1, <1>2, <1>3, <1>4, <1>5 DEF IInv

-----------------------------------------------------------------------------
(* The invariant that log.c keeps: who is where between begin_op and the   *)
(* end of commit, and what the log, the cache and the disk have in common  *)
(* at every stage of a commit and of recovery.                             *)
THEOREM Invariance == Spec => []IInv
  BY InvariantInit, InvariantStep, PTL DEF Spec

(* The fields of struct log, the header on disk and the buffers keep their *)
(* types; at most one entry for each process comes after the last check of *)
(* log_write.                                                              *)
THEOREM LogTypes == Spec => []TypeOK
  <1>1. IInv => TypeOK
    BY DEF IInv
  <1> QED
    BY <1>1, Invariance, PTL

(* The cache never goes back: a block that bget may recycle (bio.c:79) has *)
(* on disk what the cache has, whatever the calls write.                   *)
THEOREM CacheNeverLies == Spec => []CleanIsHome
  <1>1. IInv => CleanIsHome
    <2>1. ASSUME IInv, boot = "up"
          PROVE  CleanIsHome
      BY <2>1 DEF IInv, UpOK
    <2>2. ASSUME IInv, boot # "up"
          PROVE  CleanIsHome
      BY <2>2 DEF IInv, BootOK, CleanIsHome
    <2> QED
      BY <2>1, <2>2
  <1> QED
    BY <1>1, Invariance, PTL

(* Two of the three panics of log.c never happen: log_write is called in a *)
(* transaction (log.c:220) and no call ends during a commit (log.c:152).   *)
(* The third, "too big a transaction", is about the constants.             *)
OnlyTooBig == panicked \in {"no", "too big a transaction"}

(* The only panic the log can meet is log_write's "too big a transaction"  *)
(* (log.c:218-219): "log_write outside of trans" is never reached.         *)
THEOREM Panics == Spec => []OnlyTooBig
  <1>1. IInv => OnlyTooBig
    BY Zenon DEF IInv, CallsOK, OnlyTooBig
  <1> QED
    BY <1>1, Invariance, PTL

(* A call that sleeps in begin_op has something to wait for: whoever ends  *)
(* the commit or frees the space wakes it, and one more call only makes    *)
(* the log fuller.                                                         *)
THEOREM SleepersHaveReason == Spec => []NoMissedWakeup
  <1>1. Init => NoMissedWakeup
    BY DEF Init, NoMissedWakeup
  <1>2. IInv /\ NoMissedWakeup /\ [Next]_vars => NoMissedWakeup'
    <2> SUFFICES ASSUME IInv, NoMissedWakeup, [Next]_vars,
                        NEW q \in Proc, pc'[q] = "asleep"
                 PROVE  (committing \/ Full)'
      BY DEF NoMissedWakeup
    <2>t. /\ lh \in Seq(Block) /\ Len(lh) \in Nat /\ pc \in [Proc -> Place]
          /\ held \in [Proc -> Block \cup {NoBlock}]
      BY Facts
    <2>o. outstanding \in Nat /\ MAXOPBLOCKS \in Nat /\ LOGSIZE \in Nat
      BY Types, Sizes DEF IInv
    <2>1. ASSUME NEW p \in Proc, begin_op(p)
          PROVE  (committing \/ Full)'
      <3>1. lh' = lh /\ committing' = committing
        BY <2>1 DEF begin_op
      <3>2. CASE committing \/ Full
        <4>1. outstanding' = outstanding
          BY <2>1, <3>2, Zenon DEF begin_op
        <4> QED
          BY <3>1, <3>2, <4>1 DEF Full, Admitted
      <3>3. CASE ~(committing \/ Full)
        <4>1. pc' = [pc EXCEPT ![p] = "op"]
          BY <2>1, <3>3, Zenon DEF begin_op, Goto
        <4>2. pc[q] = "asleep"
          BY <2>t, <4>1
        <4> QED
          BY <3>3, <4>2 DEF NoMissedWakeup
      <3> QED
        BY <3>2, <3>3
    <2>2. ASSUME NEW p \in Proc, kill(p)
          PROVE  (committing \/ Full)'
      <3>1. pc[q] = "asleep" /\ UNCHANGED <<lh, outstanding, committing>>
        BY <2>2, <2>t DEF kill, Goto
      <3> QED
        BY <3>1 DEF NoMissedWakeup, Full, Admitted
    <2>3. ASSUME NEW p \in Proc, NEW b \in Block, NEW x \in Value, modify(p, b, x)
          PROVE  (committing \/ Full)'
      <3>1. pc' = pc \/ pc' = [pc EXCEPT ![p] = "log_write"]
        <4>1. CASE TooBig \/ outstanding < 1
          BY Zenon, <2>3, <4>1 DEF modify
        <4>2. CASE ~(TooBig \/ outstanding < 1)
          BY <2>3, <4>2 DEF modify, Goto
        <4> QED
          BY <4>1, <4>2
      <3>2. pc[q] = "asleep" /\ UNCHANGED <<lh, outstanding, committing>>
        BY Zenon, <2>3, <2>t, <3>1 DEF modify
      <3> QED
        BY <3>2 DEF NoMissedWakeup, Full, Admitted
    <2>4. ASSUME NEW p \in Proc, log_write(p)
          PROVE  (committing \/ Full)'
      <3>1. pc[q] = "asleep" /\ UNCHANGED <<outstanding, committing>> /\ lh' = Logged(held[p])
        BY <2>4, <2>t DEF log_write, Goto
      <3>2. Len(lh') \in Nat /\ Len(lh') >= Len(lh)
        <4>1. held[p] \in Block
          BY Zenon, <2>4, <2>t DEF log_write, IInv, CallsOK
        <4> QED
          BY <2>t, <3>1, <4>1 DEF Logged
      <3>3. committing \/ Full
        BY <3>1 DEF NoMissedWakeup
      <3>4. Full => Full'
        <4>1. (outstanding + 1) * MAXOPBLOCKS \in Nat
          BY <2>o
        <4> QED
          BY <2>t, <2>o, <3>1, <3>2, <4>1 DEF Full, Admitted
      <3> QED
        BY <3>1, <3>3, <3>4
    <2>5. ASSUME NEW p \in Proc, end_op(p)
          PROVE  (committing \/ Full)'
      <3>1. CASE LastOut
        BY Zenon, <2>5, <3>1 DEF end_op
      <3>2. CASE ~LastOut
        BY <2>5, <3>2 DEF end_op, wakeup
      <3> QED
        BY <3>1, <3>2
    <2>6. ASSUME NEW p \in Proc, write_log(p) \/ write_head(p) \/ install_trans(p) \/ erase(p)
          PROVE  (committing \/ Full)'
      <3>1. pc[p] \in Committer /\ committing' = committing /\ boot = "up" /\ panicked = "no"
        BY <2>6 DEF write_log, write_head, install_trans, erase, Writing, CommitPoint, Committer, Up
      <3> QED
        BY <3>1, Alone
    <2>7. ASSUME NEW p \in Proc, committed(p)
          PROVE  (committing \/ Full)'
      BY <2>7 DEF committed, wakeup
    <2>8. CASE crash
      BY <2>8 DEF crash
    <2>9. CASE read_head \/ recover_install \/ recover_erase
      <3>1. pc' = pc /\ boot # "up"
        BY <2>9 DEF read_head, recover_install, recover_erase, ops
      <3> QED
        BY <3>1 DEF IInv, BootOK
    <2>10. CASE UNCHANGED vars
      <3>1. UNCHANGED <<pc, lh, outstanding, committing>>
        BY <2>10 DEF vars, ops
      <3> QED
        BY <3>1 DEF NoMissedWakeup, Full, Admitted
    <2> QED
      BY <2>1, <2>2, <2>3, <2>4, <2>5, <2>6, <2>7, <2>8, <2>9, <2>10 DEF Next
  <1> QED
    BY <1>1, <1>2, Invariance, PTL DEF Spec

(* A block changes in its place only when a committed header names it.     *)
THEOREM LogBeforeHome == Spec => WriteAhead
  <1>1. IInv /\ [Next]_vars => [\A b \in Block : home'[b] # home[b] => InHeader(head, b)]_vars
    <2> SUFFICES ASSUME IInv, Next, NEW b \in Block, home'[b] # home[b]
                 PROVE  InHeader(head, b)
      OBVIOUS
    <2>1. home \in [Block -> Value]
      BY Zenon, Facts
    <2>2. ASSUME NEW p \in Proc, install_trans(p)
          PROVE  InHeader(head, b)
      <3>1. /\ home' = [home EXCEPT ![lh[tail]] = slot[tail]]
            /\ pc[p] = "install_trans" /\ boot = "up"
        BY <2>2 DEF install_trans, Install, Writing, Up
      <3>2. StageOK(p)
        BY <3>1 DEF IInv, UpOK
      <3>3. tail \in 1 .. Len(lh) /\ head = lh /\ lh[tail] = b
        BY Zenon, <2>1, <3>1, <3>2 DEF StageOK
      <3> QED
        BY <3>3 DEF InHeader
    <2>3. CASE recover_install
      <3>1. home' = [home EXCEPT ![lh[tail]] = slot[tail]] /\ boot = "install_trans"
        BY <2>3 DEF recover_install, Install
      <3>2. tail \in 1 .. Len(head) /\ lh = head
        BY <3>1 DEF IInv, BootOK
      <3>3. lh[tail] = b
        BY <2>1, <3>1
      <3> QED
        BY <3>2, <3>3 DEF InHeader
    <2>4. CASE home' = home
      BY <2>4
    <2> QED
      BY Zenon, <2>2, <2>3, <2>4 DEF Next, begin_op, kill, modify, log_write, end_op, write_log, write_head,
         erase, committed, crash, read_head, recover_erase, disk
  <1> QED
    BY <1>1, Invariance, PTL DEF Spec, WriteAhead
=============================================================================
