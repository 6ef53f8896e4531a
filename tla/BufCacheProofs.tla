--------------------------- MODULE BufCacheProofs ---------------------------
(***************************************************************************)
(* What the buffer cache keeps in every state, and that it implements the  *)
(* block store.                                                            *)
(***************************************************************************)
EXTENDS BufCacheLemmas

(* The head of the queue leaves it, and the others stay.                   *)
LEMMA HeadLeaves ==
  ASSUME IInv, idequeue # <<>>, idequeue' = Started, NEW b, b = Head(idequeue)
  PROVE  /\ b \in Buf /\ Queued(b) /\ idequeue' \in Seq(Buf)
         /\ \A i \in 1 .. Len(idequeue') :
              /\ i + 1 \in 1 .. Len(idequeue) /\ idequeue'[i] = idequeue[i + 1]
              /\ idequeue'[i] \in Buf \ {b} /\ Queued(idequeue'[i])
         /\ \A i, j \in 1 .. Len(idequeue') : idequeue'[i] = idequeue'[j] => i = j
         /\ \A c \in Buf \ {b} : Queued(c) <=> \E i \in 1 .. Len(idequeue') : idequeue'[i] = c
<1>0. idequeue \in Seq(Buf) /\ Len(idequeue) \in Nat /\ Len(idequeue) > 0
  BY Types DEF IInv
<1>1. /\ idequeue' \in Seq(Buf) /\ Len(idequeue') = Len(idequeue) - 1
      /\ \A i \in 1 .. Len(idequeue') : idequeue'[i] = idequeue[i + 1]
      /\ b = idequeue[1]
  BY <1>0 DEF Started
<1>2. \A i \in 1 .. Len(idequeue') : i + 1 \in 1 .. Len(idequeue) /\ i + 1 # 1
  BY <1>0, <1>1
<1>3. b \in Buf /\ Queued(b) /\ 1 \in 1 .. Len(idequeue)
  BY <1>0, <1>1 DEF Queued
<1>4. \A i, j \in 1 .. Len(idequeue) : idequeue[i] = idequeue[j] => i = j
  BY DEF IInv, QueueOK
<1>5. \A i \in 1 .. Len(idequeue') : idequeue'[i] \in Buf \ {b} /\ Queued(idequeue'[i])
  BY <1>0, <1>1, <1>2, <1>3, <1>4 DEF Queued
<1>6. \A i, j \in 1 .. Len(idequeue') : idequeue'[i] = idequeue'[j] => i = j
  <2> SUFFICES ASSUME NEW i \in 1 .. Len(idequeue'), NEW j \in 1 .. Len(idequeue'),
                      idequeue'[i] = idequeue'[j]
               PROVE  i = j
    OBVIOUS
  <2>1. i + 1 = j + 1
    BY <1>1, <1>2, <1>4
  <2> QED BY <2>1
<1>7. ASSUME NEW c \in Buf \ {b}
      PROVE  Queued(c) <=> \E i \in 1 .. Len(idequeue') : idequeue'[i] = c
  <2>1. ASSUME Queued(c) PROVE \E i \in 1 .. Len(idequeue') : idequeue'[i] = c
    <3>1. PICK m \in 1 .. Len(idequeue) : idequeue[m] = c
      BY <2>1 DEF Queued
    <3>2. m - 1 \in 1 .. Len(idequeue') /\ (m - 1) + 1 = m
      BY <1>0, <1>1, <1>7, <3>1
    <3>3. idequeue'[m - 1] = c
      BY <1>1, <3>1, <3>2
    <3> QED BY <3>2, <3>3
  <2> QED BY <1>5, <2>1
<1> QED BY <1>1, <1>2, <1>3, <1>5, <1>6, <1>7

(* ideintr finishes the request at the head of the queue.                  *)
LEMMA IntrStep ==
  ASSUME Counting, IInv, ideintr
  PROVE  IInv'
<1>0. PICK b : b = Head(idequeue)
  OBVIOUS
<1>1. /\ ~panicked /\ idequeue # <<>> /\ idestart(b)
      /\ valid' = [valid EXCEPT ![b] = TRUE] /\ dirty' = [dirty EXCEPT ![b] = FALSE]
      /\ pc' = [q \in Proc |-> IF pc[q] = "io" /\ buf[q] = b THEN "wait" ELSE pc[q]]
      /\ idequeue' = Started
      /\ UNCHANGED <<blockno, refcnt, lock, lru, buf, panicked>>
  BY <1>0 DEF ideintr, WokenBy
<1>2. /\ b \in Buf /\ Queued(b) /\ idequeue' \in Seq(Buf)
      /\ \A i \in 1 .. Len(idequeue') : idequeue'[i] \in Buf \ {b} /\ Queued(idequeue'[i])
      /\ \A i, j \in 1 .. Len(idequeue') : idequeue'[i] = idequeue'[j] => i = j
      /\ \A c \in Buf \ {b} : Queued(c) <=> \E i \in 1 .. Len(idequeue') : idequeue'[i] = c
  BY <1>0, <1>1, HeadLeaves
<1>3. /\ ~Done(b) /\ lock[b] \in Proc /\ buf[lock[b]] = b
      /\ blockno[b] \in Block /\ pc[lock[b]] \in {"wait", "io"}
  BY <1>2, QueueFacts, HasBuf DEF IInv
<1>4. /\ disk' \in [Block -> Value] /\ data' \in [Buf -> Value] /\ failed' \subseteq Buf
  <2>1. /\ disk \in [Block -> Value] /\ data \in [Buf -> Value] /\ failed \subseteq Buf
        /\ data[b] \in Value /\ disk[blockno[b]] \in Value
    BY <1>2, <1>3, Types DEF IInv
  <2>2. CASE dirty[b]
    BY <1>1, <2>1, <2>2 DEF idestart
  <2>3. CASE ~dirty[b]
    BY Zenon, <1>1, <1>2, <2>1, <2>3 DEF idestart
  <2> QED BY <2>2, <2>3
<1>5. TypeOK'
  BY Zenon, <1>1, <1>2, <1>4, Types DEF IInv, TypeOK, Places
<1>6. OneBuffer' /\ RefsExact' /\ ListOK'
  BY <1>1, FrameStep DEF IInv
<1>7. LockTaken' /\ BufOK'
  BY <1>1, Types DEF IInv, LockTaken, BufOK
<1>8. LockOK'
  <2>1. \A q \in Proc : pc'[q] \in Holding <=> pc[q] \in Holding
    BY <1>1 DEF Holding
  <2>2. \A c \in Buf : lock[c] # None => lock[c] \in Proc
    BY Types DEF IInv
  <2> QED BY Zenon, <1>1, <2>1, <2>2 DEF IInv, LockOK
<1>9. QueueOK'
  <2>1. \A q \in Proc : pc'[q] = "use" => valid'[buf'[q]]
    BY Zenon, <1>1, <1>2, HasBuf, QueueFacts, Types DEF IInv
  <2>2. \A q \in Proc : pc'[q] = "io" => Queued(buf[q])'
    <3> SUFFICES ASSUME NEW q \in Proc, pc'[q] = "io" PROVE Queued(buf[q])'
      OBVIOUS
    <3>1. pc[q] = "io" /\ buf[q] \in Buf \ {b}
      BY Zenon, <1>1, HasBuf DEF IInv
    <3>2. Queued(buf[q])
      BY <3>1, QueueFacts
    <3>3. \E i \in 1 .. Len(idequeue') : idequeue'[i] = buf[q]
      BY <1>2, <3>1, <3>2
    <3> QED BY Zenon, <1>1, <3>3 DEF Queued
  <2>3. \A q \in Proc : pc'[q] = "wait" => Queued(buf[q])' \/ Done(buf[q])'
    <3> SUFFICES ASSUME NEW q \in Proc, pc'[q] = "wait" PROVE Queued(buf[q])' \/ Done(buf[q])'
      OBVIOUS
    <3>1. CASE buf[q] = b
      BY Zenon, <1>1, <1>2, <3>1, Types DEF IInv, Done
    <3>2. CASE buf[q] # b
      <4>1. pc[q] = "wait" /\ buf[q] \in Buf \ {b}
        BY <1>1, <3>2, HasBuf DEF IInv
      <4>2. CASE Queued(buf[q])
        BY Zenon, <1>1, <1>2, <4>1, <4>2 DEF Queued
      <4>3. CASE Done(buf[q])
        BY <1>1, <4>1, <4>3, Types DEF IInv, Done
      <4> QED BY <4>1, <4>2, <4>3, QueueFacts
    <3> QED BY <3>1, <3>2
  <2>4. ASSUME NEW i \in 1 .. Len(idequeue')
        PROVE  /\ ~Done(idequeue[i])'
               /\ lock'[idequeue'[i]] # None /\ pc'[lock'[idequeue'[i]]] \in {"wait", "io"}
    <3>1. PICK c \in Buf \ {b} : c = idequeue'[i] /\ Queued(c)
      BY <1>2
    <3>2. ~Done(c) /\ lock[c] \in Proc /\ buf[lock[c]] = c /\ pc[lock[c]] \in {"wait", "io"}
      BY <3>1, QueueFacts
    <3>3. ~Done(c)'
      BY Zenon, <1>1, <3>1, <3>2, Types DEF IInv, Done
    <3>4. lock'[c] # None /\ pc'[lock'[c]] \in {"wait", "io"}
      BY <1>1, <3>2, Types DEF IInv
    <3> QED BY <3>1, <3>3, <3>4 DEF Done
  <2> QED BY <1>2, <2>1, <2>2, <2>3, <2>4 DEF QueueOK
<1>10. DataOK'
  <2> SUFFICES ASSUME NEW c \in Buf
               PROVE  /\ dirty'[c] \/ c \in failed' => valid'[c]
                      /\ valid'[c] => blockno'[c] # None
                      /\ valid'[c] /\ ~dirty'[c] /\ c \notin failed' => data'[c] = disk'[blockno'[c]]
    BY DEF DataOK
  <2>1. CASE c = b
    <3>1. valid'[b] /\ ~dirty'[b] /\ blockno'[b] = blockno[b] /\ blockno[b] # None
      BY <1>1, <1>2, <1>3, Types DEF IInv
    <3>2. disk \in [Block -> Value] /\ data \in [Buf -> Value]
      BY Types DEF IInv
    <3>3. b \in failed' \/ data'[b] = disk'[blockno[b]]
      BY <1>1, <1>2, <1>3, <3>2 DEF idestart
    <3> QED BY <2>1, <3>1, <3>3
  <2>2. CASE c # b
    <3>1. /\ dirty'[c] = dirty[c] /\ valid'[c] = valid[c] /\ blockno'[c] = blockno[c]
          /\ data'[c] = data[c] /\ (c \in failed' <=> c \in failed)
      <4>1. /\ dirty \in [Buf -> BOOLEAN] /\ valid \in [Buf -> BOOLEAN]
            /\ data \in [Buf -> Value]
        BY Types DEF IInv
      <4>2. data'[c] = data[c] /\ (c \in failed' <=> c \in failed)
        BY <1>1, <2>2, <4>1 DEF idestart
      <4> QED BY <1>1, <2>2, <4>1, <4>2
    <3>2. valid[c] => disk'[blockno[c]] = disk[blockno[c]]
      <4>1. valid[c] => blockno[c] # None /\ blockno[c] # blockno[b]
        BY <1>2, <2>2 DEF IInv, DataOK, OneBuffer
      <4>2. disk' = disk \/ disk' = [disk EXCEPT ![blockno[b]] = data[b]]
        BY <1>1 DEF idestart
      <4>3. disk \in [Block -> Value] /\ blockno[c] \in Block \cup {None}
        BY Types DEF IInv
      <4> QED BY <4>1, <4>2, <4>3
    <3> QED BY Zenon, <3>1, <3>2 DEF IInv, DataOK
  <2> QED BY Zenon, <2>1, <2>2
<1>11. Cardinality(Waiting)' <= MaxPinned
  <2>1. Waiting' \subseteq Waiting
    <3> SUFFICES ASSUME NEW c \in Buf, dirty'[c], ~Queued(c)' PROVE c \in Waiting
      BY DEF Waiting
    <3>1. c # b /\ dirty[c]
      BY <1>1, <1>2, Types DEF IInv
    <3>2. ~Queued(c)
      BY <1>2, <3>1 DEF Queued
    <3> QED BY <3>1, <3>2 DEF Waiting
  <2> QED BY <2>1, WaitingKept DEF IInv
<1>12. NoBufferLost'
  BY <1>1 DEF NoBufferLost
<1> QED BY <1>5, <1>6, <1>7, <1>8, <1>9, <1>10, <1>11, <1>12 DEF IInv

(* A step of nobody keeps the invariant.                                   *)
LEMMA StutterStep == IInv /\ UNCHANGED vars => IInv'
<1> SUFFICES ASSUME IInv, UNCHANGED vars PROVE IInv'
  OBVIOUS
<1>1. NoBufferLost'
  BY DEF vars, IInv, NoBufferLost
<1>2. panicked' \in BOOLEAN
  BY Types DEF vars, IInv
<1> QED BY <1>1, <1>2, SameStep DEF vars, cache, IInv

(* Every step keeps the invariant: one case for each disjunct of Next.     *)
LEMMA NextStep ==
  ASSUME Counting, IInv, [Next]_vars
  PROVE  IInv'
<1>1. ASSUME NEW p \in Proc, Step(p) \/ releasesleep(p) \/ kill(p) PROVE IInv'
  BY <1>1, AcquireStep, BreadStep, WaitStep, BrelseStep, ReleaseStep, KillStep DEF Step
<1>2. ASSUME NEW p \in Proc, NEW k \in Block,
             bget_recycle(p, k) \/ bget_panics(p, k) \/ \E b \in Buf : bget_hit(p, k, b)
      PROVE  IInv'
  BY <1>2, RecycleStep, PanicStep, HitStep
<1>3. ASSUME NEW p \in Proc, NEW x \in Value, log_write(p, x) \/ bwrite(p, x) PROVE IInv'
  BY <1>3, LogWriteStep, BwriteStep
<1>4. CASE ideintr
  BY <1>4, IntrStep
<1>5. CASE frozen \/ UNCHANGED vars
  BY <1>5, StutterStep DEF frozen
<1> QED BY <1>1, <1>2, <1>3, <1>4, <1>5 DEF Next

-----------------------------------------------------------------------------
(* The store the cache implements: what a block holds is in its valid      *)
(* buffer, or else on the disk.                                            *)
Contents == [k \in Block |-> Content(k)]
Using == [p \in Proc |-> IF buf[p] # None /\ lock[buf[p]] = p THEN blockno[buf[p]] ELSE None]
Spoilt == {blockno[b] : b \in failed}

ContentRule ==
    \A k \in Block :
        /\ \A b \in Buf : blockno[b] = k /\ valid[b] => Content(k) = data[b]
        /\ (\A b \in Buf : blockno[b] = k => ~valid[b]) => Content(k) = disk[k]

(* The rule follows from the invariant,                                    *)
LEMMA ContentFacts == IInv => ContentRule
<1> SUFFICES ASSUME IInv, NEW k \in Block
             PROVE  /\ \A b \in Buf : blockno[b] = k /\ valid[b] => Content(k) = data[b]
                    /\ (\A b \in Buf : blockno[b] = k => ~valid[b]) => Content(k) = disk[k]
  BY DEF ContentRule
<1>1. ASSUME NEW b \in Buf, blockno[b] = k, valid[b] PROVE Content(k) = data[b]
  <2>1. k # None
    BY BufAssumption
  <2>2. \A c \in Cached(k) : c = b
    BY <1>1, <2>1 DEF IInv, OneBuffer, Cached
  <2>3. b \in Cached(k) /\ (CHOOSE c \in Cached(k) : valid[c]) = b
    BY <1>1, <2>2 DEF Cached
  <2> QED BY Zenon, <1>1, <2>3 DEF Content
<1>2. ASSUME \A b \in Buf : blockno[b] = k => ~valid[b] PROVE Content(k) = disk[k]
  BY <1>2 DEF Content, Cached
<1> QED BY <1>1, <1>2

(* in the next state too.                                                  *)
LEMMA ContentNext == IInv' => ContentRule'
BY ContentFacts, PTL

(* Who uses a block is between acquiresleep and releasesleep.              *)
LEMMA UsingFacts ==
  ASSUME IInv
  PROVE  \A p \in Proc : Using[p] = IF pc[p] \in Holding THEN blockno[buf[p]] ELSE None
  BY Types DEF IInv, LockOK, BufOK, Using, Holding

(* Using is a function on Proc.                                            *)
LEMMA UsingFun == Using = [p \in Proc |-> Using[p]] /\ Using' = [p \in Proc |-> Using'[p]]
BY DEF Using

(* A step of the cache that the store does not see.                        *)
Unseen == Contents' = Contents /\ Using' = Using /\ Spoilt' = Spoilt

(* Contents depends on the disk and on the valid buffers alone.            *)
LEMMA SameContents ==
  ASSUME UNCHANGED <<blockno, valid, data, disk>>
  PROVE  Contents' = Contents
  BY DEF Contents, Content, Cached

(* Spoilt depends on the buffers that failed and on the blocks they hold.  *)
LEMMA SameSpoilt ==
  ASSUME UNCHANGED <<blockno, failed>>
  PROVE  Spoilt' = Spoilt
  BY DEF Spoilt

(* A lookup that hits is not seen.                                         *)
LEMMA HitUnseen ==
  ASSUME IInv, NEW p \in Proc, NEW k \in Block, NEW b \in Buf, bget_hit(p, k, b)
  PROVE  Unseen
<1> USE DEF bget_hit, At, Goto
<1>1. Using' = Using
  <2>1. buf[p] = None /\ lock[b] # p
    <3>1. buf[p] = None
      BY Types DEF IInv, BufOK
    <3>2. lock[b] = p => buf[p] = b
      BY Types DEF IInv, LockOK
    <3> QED BY <3>1, <3>2, BufAssumption
  <2> QED BY <2>1, Types DEF IInv, Using
<1> QED BY <1>1, SameContents, SameSpoilt DEF Unseen

(* The second half of brelse is not seen.                                  *)
LEMMA BrelseUnseen ==
  ASSUME IInv, NEW p \in Proc, brelse(p)
  PROVE  Unseen
<1> USE DEF brelse, At, Goto
<1>1. Using' = Using
  <2>1. buf[p] \in Buf /\ lock[buf[p]] # p
    <3>1. buf[p] \in Buf
      BY HasBuf DEF IInv
    <3>2. lock[buf[p]] = p => pc[p] \in Holding
      BY <3>1, BufAssumption DEF IInv, LockOK
    <3> QED BY <3>1, <3>2 DEF Holding
  <2> QED BY <2>1, Types DEF IInv, Using
<1> QED BY <1>1, SameContents, SameSpoilt DEF Unseen

(* Neither is a step that only moves a process or the queue.               *)
LEMMA QuietUnseen ==
  ASSUME UNCHANGED <<cache, disk, buf>>
  PROVE  Unseen
<1>1. Using' = Using
  BY DEF cache, Using
<1> QED BY <1>1, SameContents, SameSpoilt DEF cache, Unseen

(* acquiresleep that succeeds starts the use of a block nobody else uses.  *)
LEMMA AcquireTakes ==
  ASSUME IInv, NEW p \in Proc, acquiresleep(p)
  PROVE  \/ Unseen
         \/ \E k \in Block :
              /\ Using[p] = None /\ \A q \in Proc : Using[q] # k
              /\ Using' = [Using EXCEPT ![p] = k]
              /\ Contents' = Contents /\ Spoilt' = Spoilt
<1>0. /\ buf[p] \in Buf /\ blockno[buf[p]] \in Block /\ pc[p] = "lock"
      /\ UNCHANGED <<blockno, valid, dirty, data, refcnt, lru, failed, idequeue, disk, buf, panicked>>
  BY HasBuf DEF IInv, acquiresleep, At
<1>1. Contents' = Contents /\ Spoilt' = Spoilt
  BY <1>0, SameContents, SameSpoilt
<1>2. CASE UNCHANGED lock
  <2>1. Using' = Using
    BY <1>0, <1>2 DEF Using
  <2> QED BY <1>1, <2>1 DEF Unseen
<1>3. CASE lock[buf[p]] = None /\ lock' = [lock EXCEPT ![buf[p]] = p]
  <2>1. PICK k \in Block : k = blockno[buf[p]]
    BY <1>0
  <2>2. Using[p] = None
    BY <1>0, UsingFacts DEF Holding
  <2>3. ASSUME NEW q \in Proc, Using[q] = k PROVE FALSE
    <3>1. buf[q] # None /\ lock[buf[q]] = q /\ blockno[buf[q]] = k
      BY <2>3, BufAssumption DEF Using
    <3>2. buf[q] = buf[p]
      BY <1>0, <2>1, <3>1, Types, BufAssumption DEF IInv, OneBuffer
    <3> QED BY <1>3, <3>1, <3>2, BufAssumption
  <2>4. Using' = [Using EXCEPT ![p] = k]
    <3>1. \A q \in Proc \ {p} : Using'[q] = Using[q]
      <4> SUFFICES ASSUME NEW q \in Proc \ {p} PROVE Using'[q] = Using[q]
        OBVIOUS
      <4>1. buf[q] # None => (lock'[buf[q]] = q <=> lock[buf[q]] = q)
        BY <1>0, <1>3, Types, BufAssumption DEF IInv
      <4> QED BY <1>0, <4>1 DEF Using
    <3>2. Using'[p] = k
      BY <1>0, <1>3, <2>1, Types DEF IInv, Using
    <3> QED BY <3>1, <3>2, UsingFun
  <2> QED BY Zenon, <1>1, <2>2, <2>3, <2>4
<1> QED BY <1>2, <1>3 DEF acquiresleep

(* releasesleep ends it.                                                   *)
LEMMA ReleaseReleases ==
  ASSUME IInv, NEW p \in Proc, releasesleep(p)
  PROVE  /\ Using[p] # None /\ Using' = [Using EXCEPT ![p] = None]
         /\ Contents' = Contents /\ Spoilt' = Spoilt
<1>0. /\ buf[p] \in Buf /\ blockno[buf[p]] \in Block /\ pc[p] = "use"
      /\ lock' = [lock EXCEPT ![buf[p]] = None]
      /\ UNCHANGED <<blockno, valid, dirty, data, refcnt, lru, failed, idequeue, disk, buf, panicked>>
  BY HasBuf DEF IInv, releasesleep, At
<1>1. Contents' = Contents /\ Spoilt' = Spoilt
  BY Zenon, <1>0, SameContents, SameSpoilt
<1>2. Using[p] # None /\ lock[buf[p]] = p
  BY <1>0, UsingFacts, BufAssumption DEF IInv, LockOK, Holding
<1>3. \A q \in Proc \ {p} : Using'[q] = Using[q]
  <2> SUFFICES ASSUME NEW q \in Proc \ {p} PROVE Using'[q] = Using[q]
    OBVIOUS
  <2>1. buf[q] # None => (lock'[buf[q]] = q <=> lock[buf[q]] = q)
    BY <1>0, <1>2, Types, BufAssumption DEF IInv
  <2> QED BY <1>0, <2>1 DEF Using
<1>4. Using'[p] = None
  BY <1>0, Types, BufAssumption DEF IInv, Using
<1> QED BY <1>1, <1>2, <1>3, <1>4, UsingFun

(* log_write and bwrite change the content of the block their caller uses. *)
LEMMA WriteWrites ==
  ASSUME IInv, IInv', NEW p \in Proc, NEW x \in Value, log_write(p, x) \/ bwrite(p, x)
  PROVE  /\ Using[p] \in Block /\ Contents' = [Contents EXCEPT ![Using[p]] = x]
         /\ Using' = Using /\ Spoilt' = Spoilt
<1>0. PICK b \in Buf : b = buf[p]
  BY HasBuf DEF IInv, log_write, bwrite, At
<1>1. /\ pc[p] = "use" /\ valid[b] /\ blockno[b] \in Block
      /\ data' = [data EXCEPT ![b] = x]
      /\ UNCHANGED <<blockno, valid, lock, failed, disk, buf>>
  BY <1>0, HasBuf, QueueFacts DEF IInv, log_write, bwrite, At
<1>2. Using[p] = blockno[b] /\ Using' = Using
  BY <1>0, <1>1, UsingFacts DEF Using, Holding
<1>3. ASSUME NEW k \in Block PROVE Content(k)' = IF k = blockno[b] THEN x ELSE Content(k)
  <2>1. CASE k = blockno[b]
    <3>1. data'[b] = x
      BY Zenon, <1>1, Types DEF IInv
    <3> QED BY Zenon, <1>1, <2>1, <3>1, ContentNext DEF ContentRule
  <2>2. CASE k # blockno[b] /\ \E c \in Buf : blockno[c] = k /\ valid[c]
    <3>1. PICK c \in Buf : blockno[c] = k /\ valid[c]
      BY <2>2
    <3>2. data'[c] = data[c]
      BY Zenon, <1>1, <2>2, <3>1, Types DEF IInv
    <3> QED BY <1>1, <2>2, <3>1, <3>2, ContentFacts, ContentNext DEF ContentRule
  <2>3. CASE k # blockno[b] /\ \A c \in Buf : blockno[c] = k => ~valid[c]
    BY <1>1, <2>3, ContentFacts, ContentNext DEF ContentRule
  <2> QED BY <2>1, <2>2, <2>3
<1>4. Contents' = [Contents EXCEPT ![blockno[b]] = x]
  BY Zenon, <1>1, <1>3 DEF Contents
<1> QED BY <1>1, <1>2, <1>4, SameSpoilt

(* Recycling a buffer is unseen, or forgets what a failed read left.       *)
LEMMA RecycleForgets ==
  ASSUME Counting, IInv, IInv', NEW p \in Proc, NEW k \in Block, bget_recycle(p, k)
  PROVE  \/ Unseen
         \/ \E o \in Block, x \in Value :
              /\ o \in Spoilt /\ Spoilt' = Spoilt \ {o}
              /\ Contents' = [Contents EXCEPT ![o] = x] /\ Using' = Using
<1>0. PICK b \in Buf :
        /\ refcnt[b] = 0 /\ ~dirty[b]
        /\ blockno' = [blockno EXCEPT ![b] = k] /\ valid' = [valid EXCEPT ![b] = FALSE]
        /\ failed' = failed \ {b} /\ buf' = [buf EXCEPT ![p] = b]
  <2>1. PICK i \in DOMAIN lru :
          /\ Recyclable(lru[i])
          /\ blockno' = [blockno EXCEPT ![lru[i]] = k]
          /\ valid' = [valid EXCEPT ![lru[i]] = FALSE]
          /\ failed' = failed \ {lru[i]}
          /\ buf' = [buf EXCEPT ![p] = lru[i]]
    BY Zenon DEF bget_recycle
  <2>2. lru[i] \in Buf
    BY Types DEF IInv
  <2> QED BY Zenon, <2>1, <2>2 DEF Recyclable
<1>1. /\ pc[p] = "idle" /\ \A c \in Buf : blockno[c] # k
      /\ UNCHANGED <<data, lock, disk>>
  BY DEF bget_recycle, At, Cached
<1>2. Using' = Using
  <2>1. buf[p] = None /\ \A q \in Proc : buf[q] # b
    BY <1>0, <1>1, NoUser DEF IInv, BufOK
  <2>2. lock[b] = None
    BY <2>1, Types DEF IInv, LockOK
  <2> QED BY <1>0, <1>1, <2>1, <2>2, Types DEF IInv, Using
<1>3. ASSUME NEW j \in Block, j # blockno[b] PROVE Content(j)' = Content(j)
  <2>1. CASE \E c \in Buf : blockno[c] = j /\ valid[c]
    <3>1. PICK c \in Buf : blockno[c] = j /\ valid[c]
      BY <2>1
    <3>2. c # b /\ blockno'[c] = j /\ valid'[c]
      BY <1>0, <1>3, <3>1, Types DEF IInv
    <3> QED BY <1>1, <3>1, <3>2, ContentFacts, ContentNext DEF ContentRule
  <2>2. CASE \A c \in Buf : blockno[c] = j => ~valid[c]
    <3>1. \A c \in Buf : blockno'[c] = j => ~valid'[c]
      BY <1>0, <2>2, Types DEF IInv
    <3> QED BY <1>1, <2>2, <3>1, ContentFacts, ContentNext DEF ContentRule
  <2> QED BY <2>1, <2>2
<1>4. ASSUME NEW o \in Block, o = blockno[b] PROVE Content(o)' = disk[o]
  <2>1. \A c \in Buf : blockno'[c] # o
    BY <1>0, <1>1, <1>4, Types, BufAssumption DEF IInv, OneBuffer
  <2> QED BY <1>1, <2>1, ContentNext DEF ContentRule
<1>5. CASE b \in failed
  <2>1. PICK o \in Block : o = blockno[b]
    BY <1>5, Types DEF IInv, DataOK
  <2>2. o \in Spoilt
    BY <1>5, <2>1 DEF Spoilt
  <2>3. \A c \in failed \ {b} : blockno'[c] = blockno[c] /\ blockno[c] # o
    BY <1>0, <2>1, Types DEF IInv, OneBuffer
  <2>4. Spoilt' = Spoilt \ {o}
    BY <1>0, <2>1, <2>3 DEF Spoilt
  <2>5. disk[o] \in Value
    BY <2>1, Types DEF IInv
  <2>6. Contents' = [Contents EXCEPT ![o] = disk[o]]
    BY Zenon, <1>3, <1>4, <2>1 DEF Contents
  <2> QED BY Zenon, <1>2, <2>2, <2>4, <2>5, <2>6
<1>6. CASE b \notin failed
  <2>1. \A c \in failed : blockno'[c] = blockno[c]
    BY <1>0, <1>6, Types DEF IInv
  <2>2. Spoilt' = Spoilt
    BY <1>0, <1>6, <2>1 DEF Spoilt
  <2>3. ASSUME NEW o \in Block, o = blockno[b] PROVE Content(o) = disk[o]
    <3>1. CASE valid[b]
      <4>1. Content(o) = data[b]
        BY <2>3, <3>1, ContentFacts DEF ContentRule
      <4> QED BY <1>0, <1>6, <2>3, <3>1, <4>1 DEF IInv, DataOK
    <3>2. CASE ~valid[b]
      <4>1. \A c \in Buf : blockno[c] = o => ~valid[c]
        BY <2>3, <3>2, BufAssumption DEF IInv, OneBuffer
      <4> QED BY <4>1, ContentFacts DEF ContentRule
    <3> QED BY <3>1, <3>2
  <2>4. \A j \in Block : Content(j)' = Content(j)
    BY <1>3, <1>4, <2>3
  <2>5. Contents' = Contents
    BY <2>4 DEF Contents
  <2> QED BY <1>2, <2>2, <2>5 DEF Unseen
<1> QED BY <1>5, <1>6

(* The end of a transfer is unseen, or spoils the block of a failed read.  *)
LEMMA IntrSpoils ==
  ASSUME IInv, IInv', ideintr
  PROVE  \/ Unseen
         \/ \E k \in Block, x \in Value :
              /\ Spoilt' = Spoilt \cup {k}
              /\ Contents' = [Contents EXCEPT ![k] = x] /\ Using' = Using
<1>0. PICK b : b = Head(idequeue)
  OBVIOUS
<1>1. /\ idequeue # <<>> /\ idestart(b) /\ idequeue' = Started
      /\ valid' = [valid EXCEPT ![b] = TRUE]
      /\ UNCHANGED <<blockno, lock, buf>>
  BY <1>0 DEF ideintr
<1>2. b \in Buf /\ Queued(b)
  BY <1>0, <1>1, HeadLeaves
<1>3. ~Done(b) /\ blockno[b] \in Block
  BY <1>2, QueueFacts, HasBuf DEF IInv
<1>4. PICK k \in Block : k = blockno[b]
  BY <1>3
<1>5. Using' = Using
  BY Zenon, <1>1 DEF Using
<1>6. \A c \in Buf : blockno[c] = k => c = b
  BY <1>2, <1>4, BufAssumption DEF IInv, OneBuffer
<1>7. valid'[b] /\ \A c \in Buf \ {b} : valid'[c] = valid[c]
  BY <1>1, <1>2, Types DEF IInv
<1>8. Content(k)' = data'[b]
  BY <1>1, <1>2, <1>4, <1>7, ContentNext DEF ContentRule
<1>9. ASSUME NEW j \in Block, j # k PROVE Content(j)' = Content(j)
  <2>1. disk'[j] = disk[j] /\ \A c \in Buf \ {b} : data'[c] = data[c]
    BY <1>1, <1>2, <1>4, <1>9, Types DEF IInv, idestart
  <2>2. CASE \E c \in Buf : blockno[c] = j /\ valid[c]
    <3>1. PICK c \in Buf : blockno[c] = j /\ valid[c]
      BY <2>2
    <3>2. c # b
      BY <1>4, <1>9, <3>1
    <3>3. blockno'[c] = j /\ valid'[c] /\ data'[c] = data[c]
      BY <1>1, <1>7, <2>1, <3>1, <3>2
    <3> QED BY <3>1, <3>3, ContentFacts, ContentNext DEF ContentRule
  <2>3. CASE \A c \in Buf : blockno[c] = j => ~valid[c]
    <3>1. \A c \in Buf : blockno'[c] = j => ~valid'[c]
      BY <1>1, <1>4, <1>7, <1>9, <2>3
    <3> QED BY <2>1, <2>3, <3>1, ContentFacts, ContentNext DEF ContentRule
  <2> QED BY <2>2, <2>3
<1>10. CASE data'[b] = Content(k) /\ UNCHANGED failed
  <2>1. Contents' = Contents
    BY <1>8, <1>9, <1>10 DEF Contents
  <2> QED BY <1>1, <1>5, <1>10, <2>1, SameSpoilt DEF Unseen
<1>11. CASE failed' = failed \cup {b} /\ UNCHANGED data
  <2>1. Spoilt' = Spoilt \cup {k}
    BY <1>1, <1>4, <1>11 DEF Spoilt
  <2>2. Contents' = [Contents EXCEPT ![k] = data[b]]
    BY Zenon, <1>8, <1>9, <1>11 DEF Contents
  <2>3. data[b] \in Value
    BY <1>2, Types DEF IInv
  <2> QED BY Zenon, <1>5, <2>1, <2>2, <2>3
<1>12. CASE dirty[b]
  <2>1. valid[b] /\ Content(k) = data[b]
    BY <1>2, <1>4, <1>12, ContentFacts DEF IInv, DataOK, ContentRule
  <2> QED BY <1>1, <1>10, <1>12, <2>1 DEF idestart
<1>13. CASE ~dirty[b]
  <2>1. \A c \in Buf : blockno[c] = k => ~valid[c]
    BY <1>3, <1>6, <1>13 DEF Done
  <2>2. Content(k) = disk[k]
    BY <2>1, ContentFacts DEF ContentRule
  <2>3. CASE data' = [data EXCEPT ![b] = disk[blockno[b]]] /\ UNCHANGED failed
    <3>1. data'[b] = disk[k]
      BY <1>2, <1>4, <2>3, Types DEF IInv
    <3> QED BY <1>10, <2>2, <2>3, <3>1
  <2> QED BY <1>1, <1>11, <1>13, <2>3 DEF idestart
<1> QED BY <1>12, <1>13

(* At first every block reads as the disk has it, and nobody uses one.     *)
LEMMA InitStore == Init => Store!Init
<1> SUFFICES ASSUME Init PROVE Store!Init
  OBVIOUS
<1>1. \A k \in Block : Content(k) = Zero
  BY DEF Init, Content, Cached
<1>2. Contents = [k \in Block |-> Zero]
  BY <1>1 DEF Contents
<1>3. Using = [p \in Proc |-> None] /\ Spoilt = {}
  BY DEF Init, Using, Spoilt
<1> QED BY <1>2, <1>3 DEF Store!Init, Contents, Using, Spoilt

(* Every step of the cache is a step of the store or is not seen.          *)
LEMMA StoreStep ==
  ASSUME Counting, IInv, IInv', [Next]_vars
  PROVE  [Store!Next]_(Store!vars)
<1>1. ASSUME Unseen PROVE [Store!Next]_(Store!vars)
  BY <1>1 DEF Unseen, Store!vars, Contents, Using, Spoilt
<1>2. CASE UNCHANGED vars \/ frozen
  BY <1>1, <1>2, QuietUnseen DEF vars, frozen
<1>3. ASSUME NEW p \in Proc, acquiresleep(p) PROVE [Store!Next]_(Store!vars)
  <2>1. CASE Unseen
    BY <1>1, <2>1
  <2>2. ASSUME NEW k \in Block,
               /\ Using[p] = None /\ \A q \in Proc : Using[q] # k
               /\ Using' = [Using EXCEPT ![p] = k]
               /\ Contents' = Contents /\ Spoilt' = Spoilt
        PROVE  Store!Next
    <3>1. Store!Take(p, k)
      BY <2>2 DEF Store!Take, Contents, Using, Spoilt
    <3> QED BY Zenon, <3>1 DEF Store!Next
  <2> QED BY <1>3, <2>1, <2>2, AcquireTakes
<1>4. ASSUME NEW p \in Proc, releasesleep(p) PROVE Store!Next
  <2>1. Store!Release(p)
    BY Zenon, <1>4, ReleaseReleases DEF Store!Release, Contents, Using, Spoilt
  <2> QED BY <2>1 DEF Store!Next
<1>5. ASSUME NEW p \in Proc, bread(p) \/ iderw_waits(p) \/ kill(p) PROVE Unseen
  BY Zenon, <1>5, QuietUnseen DEF bread, iderw_waits, kill
<1>6. ASSUME NEW p \in Proc, brelse(p) PROVE Unseen
  BY <1>6, BrelseUnseen
<1>7. ASSUME NEW p \in Proc, NEW k \in Block,
             bget_panics(p, k) \/ \E b \in Buf : bget_hit(p, k, b)
      PROVE  Unseen
  BY <1>7, HitUnseen, QuietUnseen DEF bget_panics
<1>8. ASSUME NEW p \in Proc, NEW k \in Block, bget_recycle(p, k)
      PROVE  [Store!Next]_(Store!vars)
  <2>1. ASSUME NEW o \in Block, NEW x \in Value,
               /\ o \in Spoilt /\ Spoilt' = Spoilt \ {o}
               /\ Contents' = [Contents EXCEPT ![o] = x] /\ Using' = Using
        PROVE  Store!Next
    <3>1. Store!Spoil(o, x)
      BY <2>1 DEF Store!Spoil, Contents, Using, Spoilt
    <3> QED BY <3>1 DEF Store!Next
  <2> QED BY <1>1, <1>8, <2>1, RecycleForgets
<1>9. ASSUME NEW p \in Proc, NEW x \in Value, log_write(p, x) \/ bwrite(p, x)
      PROVE  Store!Next
  <2>1. /\ Using[p] \in Block /\ Contents' = [Contents EXCEPT ![Using[p]] = x]
        /\ Using' = Using /\ Spoilt' = Spoilt
    BY <1>9, WriteWrites
  <2>2. Using[p] # None
    BY <2>1, BufAssumption
  <2>3. Store!Write(p, x)
    BY Zenon, <2>1, <2>2 DEF Store!Write, Contents, Using, Spoilt
  <2> QED BY <2>3 DEF Store!Next
<1>10. ASSUME ideintr PROVE [Store!Next]_(Store!vars)
  <2>1. ASSUME NEW k \in Block, NEW x \in Value,
               /\ Spoilt' = Spoilt \cup {k}
               /\ Contents' = [Contents EXCEPT ![k] = x] /\ Using' = Using
        PROVE  Store!Next
    <3>1. Store!Spoil(k, x)
      BY <2>1 DEF Store!Spoil, Contents, Using, Spoilt
    <3> QED BY <3>1 DEF Store!Next
  <2> QED BY <1>1, <1>10, <2>1, IntrSpoils
<1> QED BY <1>1, <1>2, <1>3, <1>4, <1>5, <1>6, <1>7, <1>8, <1>9, <1>10 DEF Next, Step

-----------------------------------------------------------------------------
INSTANCE FiniteSetTheorems

(* What the lemmas assume of finite sets is what the library proves.       *)
LEMMA Counts == Counting
<1>1. /\ IsFiniteSet({}) /\ Cardinality({}) = 0
      /\ \A S : IsFiniteSet(S) => (Cardinality(S) = 0 <=> S = {})
  BY Zenon, FS_EmptySet
<1>2. \A S : IsFiniteSet(S) => Cardinality(S) \in Nat
  BY Zenon, FS_CardinalityType
<1>3. \A S, T : IsFiniteSet(S) /\ T \in SUBSET S
               => IsFiniteSet(T) /\ Cardinality(T) <= Cardinality(S)
  BY Zenon, FS_Subset
<1>4. \A S, x : IsFiniteSet(S) /\ x \notin S => Cardinality(S \cup {x}) = Cardinality(S) + 1
  BY FS_AddElement
<1>5. \A S, x : IsFiniteSet(S) /\ x \in S => Cardinality(S \ {x}) = Cardinality(S) - 1
  BY FS_RemoveElement
<1>6. \A S, T : IsFiniteSet(S) => IsFiniteSet(S \cap T)
  BY Zenon, FS_Intersection
<1>7. \A S, T : IsFiniteSet(S) /\ IsFiniteSet(T)
        => /\ IsFiniteSet(S \cup T)
           /\ Cardinality(S \cup T) = Cardinality(S) + Cardinality(T) - Cardinality(S \cap T)
  BY Zenon, FS_Union
<1>8. ASSUME NEW S, NEW T, NEW f, IsFiniteSet(S), \A y \in T : \E x \in S : f[x] = y
      PROVE  IsFiniteSet(T) /\ Cardinality(T) <= Cardinality(S)
  <2> DEFINE U == {f[x] : x \in S}
             g == [x \in S |-> f[x]]
  <2>1. g \in Surjection(S, U)
    BY DEF Surjection
  <2>2. T \in SUBSET U
    BY <1>8
  <2> HIDE DEF g, U
  <2>3. IsFiniteSet(U) /\ Cardinality(U) <= Cardinality(S)
    BY Zenon, <1>8, <2>1, FS_Surjection
  <2>4. IsFiniteSet(T) /\ Cardinality(T) <= Cardinality(U)
    BY Zenon, <2>2, <2>3, FS_Subset
  <2>5. Cardinality(S) \in Nat /\ Cardinality(T) \in Nat /\ Cardinality(U) \in Nat
    BY Zenon, <1>8, <2>3, <2>4, FS_CardinalityType
  <2> QED BY <2>3, <2>4, <2>5
<1> QED BY Zenon, <1>1, <1>2, <1>3, <1>4, <1>5, <1>6, <1>7, <1>8 DEF Counting

(* binit's list has every buffer once.                                     *)
LEMMA FirstList == InitList \in Seq(Buf) /\ (lru = InitList => ListOK)
<1> DEFINE N == Cardinality(Buf)
           s == InitList
<1>1. N \in Nat /\ ExistsBijection(1 .. N, Buf)
  BY BufAssumption, FS_CardinalityType
<1>2. PICK g \in Bijection(1 .. N, Buf) : TRUE
  BY <1>1 DEF ExistsBijection
<1>3. g \in [1 .. N -> Buf] /\ \A i, j \in DOMAIN g : g[i] = g[j] => i = j
  BY <1>2 DEF Bijection, Injection, IsInjective
<1>4. s \in [1 .. N -> Buf] /\ \A i, j \in DOMAIN s : s[i] = s[j] => i = j
  BY Zenon, <1>3 DEF InitList
<1> HIDE DEF s
<1>5. s \in Injection(1 .. N, Buf)
  BY <1>4 DEF Injection, IsInjective
<1>6. IsFiniteSet(1 .. N) /\ Cardinality(1 .. N) = N
  BY <1>1, FS_Interval
<1>7. s \in Surjection(1 .. N, Buf)
  BY <1>5, <1>6, BufAssumption, FS_Injection
<1>8. \A b \in Buf : \E i \in 1 .. N : s[i] = b
  BY <1>7 DEF Surjection
<1>9. \A i, j \in 1 .. N : s[i] = s[j] => i = j
  BY <1>4
<1>10. DOMAIN s = 1 .. N /\ s \in Seq(Buf)
  BY <1>1, <1>4
<1>11. lru = s => ListOK
  <2> SUFFICES ASSUME lru = s, NEW b \in Buf
               PROVE  \E i \in DOMAIN lru : \A j \in DOMAIN lru : lru[j] = b <=> j = i
    BY DEF ListOK
  <2>1. PICK i \in 1 .. N : s[i] = b
    BY <1>8
  <2>2. \A j \in 1 .. N : s[j] = b <=> j = i
    BY <1>9, <2>1
  <2> QED BY <1>10, <2>1, <2>2
<1> QED BY <1>10, <1>11 DEF s

(* binit() establishes the invariant.                                      *)
LEMMA InitOK == Init => IInv
<1> SUFFICES ASSUME Init PROVE IInv
  OBVIOUS
<1>1. TypeOK
  <2>1. /\ blockno \in [Buf -> Block \cup {None}] /\ refcnt \in [Buf -> Nat]
        /\ valid \in [Buf -> BOOLEAN] /\ dirty \in [Buf -> BOOLEAN]
        /\ data \in [Buf -> Value] /\ disk \in [Block -> Value]
    BY BufAssumption DEF Init
  <2>2. /\ lock \in [Buf -> Proc \cup {None}] /\ buf \in [Proc -> Buf \cup {None}]
        /\ pc \in [Proc -> Places] /\ failed \subseteq Buf /\ panicked \in BOOLEAN
    BY Zenon DEF Init, Places
  <2>3. lru \in Seq(Buf) /\ idequeue \in Seq(Buf)
    BY FirstList DEF Init
  <2> QED BY <2>1, <2>2, <2>3 DEF TypeOK, Places
<1>2. ListOK
  BY FirstList DEF Init
<1>3. OneBuffer /\ LockTaken /\ BufOK /\ LockOK
  BY DEF Init, OneBuffer, LockTaken, BufOK, LockOK, Holding
<1>4. RefsExact
  <2> SUFFICES ASSUME NEW b \in Buf PROVE {p \in Proc : buf[p] = b} = {}
    BY Zenon, FS_EmptySet DEF Init, RefsExact
  <2> QED BY BufAssumption DEF Init
<1>5. QueueOK
  <2>1. Len(idequeue) = 0 /\ \A i \in 1 .. Len(idequeue) : FALSE
    BY DEF Init
  <2> QED BY <2>1 DEF Init, QueueOK
<1>6. DataOK /\ NoBufferLost
  BY DEF Init, DataOK, NoBufferLost
<1>7. Waiting = {}
  BY DEF Init, Waiting
<1> QED BY <1>1, <1>2, <1>3, <1>4, <1>5, <1>6, <1>7, FS_EmptySet, BufAssumption DEF IInv

(* Everything below rests on this: IInv holds in every state the cache     *)
(* reaches.                                                                *)
THEOREM Invariance == Spec => []IInv
<1>1. IInv /\ [Next]_vars => IInv'
  BY Counts, NextStep
<1> QED BY <1>1, InitOK, PTL DEF Spec

(* However many buffers, processes and blocks there are: a block is in one *)
(* buffer, refcnt counts a buffer's users, brelse loses no buffer from the *)
(* list, and who sleeps in iderw or acquiresleep has someone to wake them. *)
THEOREM CacheSound == Spec => []CacheOK
<1>1. IInv => CacheOK
  <2> SUFFICES ASSUME IInv PROVE IoPending
    BY DEF IInv, CacheOK
  <2>1. \A p \in Proc : pc[p] = "io" => \E i \in 1 .. Len(idequeue) : idequeue[i] = buf[p]
    BY QueueFacts DEF Queued
  <2>2. DOMAIN idequeue = 1 .. Len(idequeue) /\ \A i \in 1 .. Len(idequeue) : idequeue[i] \in Buf
    <3>1. idequeue \in Seq(Buf)
      BY Types DEF IInv
    <3> QED BY <3>1
  <2>3. \A i \in 1 .. Len(idequeue) : Queued(idequeue[i])
    BY DEF Queued
  <2>4. \A i \in 1 .. Len(idequeue) :
          /\ ~Done(idequeue[i])
          /\ lock[idequeue[i]] \in Proc /\ pc[lock[idequeue[i]]] \in {"wait", "io"}
    BY <2>2, <2>3, QueueFacts
  <2> QED BY Zenon, <2>1, <2>2, <2>4 DEF IInv, QueueOK, IoPending
<1> QED BY <1>1, Invariance, PTL

(* bget panics only when the log's blocks and one buffer for each process  *)
(* inside a bread are the whole cache.                                     *)
THEOREM BuffersSuffice == Spec => []NoBufferLost
<1>1. IInv => NoBufferLost
  BY DEF IInv
<1> QED BY <1>1, Invariance, PTL


(* The cache is a store with one content and one user for each block:      *)
(* recycling, pinning and rereading are invisible to bread's callers, and  *)
(* a failed read spoils its own block only.                                *)
THEOREM CacheIsStore == Spec => IsStore
<1>1. IInv /\ IInv' /\ [Next]_vars => [Store!Next]_(Store!vars)
  BY Counts, StoreStep
<1> QED BY <1>1, InitStore, Invariance, PTL DEF Spec, IsStore, Store!Spec
=============================================================================
