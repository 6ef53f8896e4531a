--------------------------- MODULE BufCacheLemmas ---------------------------
(***************************************************************************)
(* The inductive invariant of the buffer cache, for every number of        *)
(* buffers, processes and blocks, and the steps of the processes keep it.  *)
(***************************************************************************)
EXTENDS BufCache, TLAPS

(* What the lemmas use of the cardinality of finite sets.  It is their     *)
(* hypothesis, so that they do not carry the library's theorems along;     *)
(* BufCacheProofs, which has the library, discharges it (Counts).          *)
Counting ==
    /\ IsFiniteSet({}) /\ Cardinality({}) = 0
    /\ \A S : IsFiniteSet(S) => Cardinality(S) \in Nat
    /\ \A S : IsFiniteSet(S) => (Cardinality(S) = 0 <=> S = {})
    /\ \A S, T : IsFiniteSet(S) /\ T \in SUBSET S
                 => IsFiniteSet(T) /\ Cardinality(T) <= Cardinality(S)
    /\ \A S, x : IsFiniteSet(S) /\ x \notin S => Cardinality(S \cup {x}) = Cardinality(S) + 1
    /\ \A S, x : IsFiniteSet(S) /\ x \in S => Cardinality(S \ {x}) = Cardinality(S) - 1
    /\ \A S, T : IsFiniteSet(S) => IsFiniteSet(S \cap T)
    /\ \A S, T : IsFiniteSet(S) /\ IsFiniteSet(T)
         => /\ IsFiniteSet(S \cup T)
            /\ Cardinality(S \cup T) = Cardinality(S) + Cardinality(T) - Cardinality(S \cap T)
    /\ \A S, T, f : IsFiniteSet(S) /\ (\A y \in T : \E x \in S : f[x] = y)
                    => IsFiniteSet(T) /\ Cardinality(T) <= Cardinality(S)

(* The conjuncts of Counting as facts to cite, one by one: a cardinality   *)
(* is a number,                                                            *)
LEMMA CountIsNat ==
  ASSUME Counting, NEW S, IsFiniteSet(S)
  PROVE  Cardinality(S) \in Nat
  BY Zenon DEF Counting

(* only the empty set has none,                                            *)
LEMMA CountEmpty ==
  ASSUME Counting
  PROVE  /\ IsFiniteSet({}) /\ Cardinality({}) = 0
         /\ \A S : IsFiniteSet(S) => (Cardinality(S) = 0 <=> S = {})
  BY Zenon DEF Counting

(* a subset has no more,                                                   *)
LEMMA CountSubset ==
  ASSUME Counting, NEW S, IsFiniteSet(S), NEW T \in SUBSET S
  PROVE  IsFiniteSet(T) /\ Cardinality(T) <= Cardinality(S)
  BY Zenon DEF Counting

(* one element more counts one more,                                       *)
LEMMA CountAdd ==
  ASSUME Counting, NEW S, NEW x, IsFiniteSet(S), x \notin S
  PROVE  Cardinality(S \cup {x}) = Cardinality(S) + 1
  BY Zenon DEF Counting

(* one less counts one less,                                               *)
LEMMA CountRemove ==
  ASSUME Counting, NEW S, NEW x, IsFiniteSet(S), x \in S
  PROVE  Cardinality(S \ {x}) = Cardinality(S) - 1
  BY Zenon DEF Counting

(* an intersection with a finite set is finite,                            *)
LEMMA CountMeet ==
  ASSUME Counting, NEW S, IsFiniteSet(S), NEW T
  PROVE  IsFiniteSet(S \cap T)
  BY Zenon DEF Counting

(* a union counts what is in both once,                                    *)
LEMMA CountUnion ==
  ASSUME Counting, NEW S, IsFiniteSet(S), NEW T, IsFiniteSet(T)
  PROVE  /\ IsFiniteSet(S \cup T)
         /\ Cardinality(S \cup T) = Cardinality(S) + Cardinality(T) - Cardinality(S \cap T)
  BY Zenon DEF Counting

(* and an image has no more elements than what it is the image of.         *)
LEMMA CountImage ==
  ASSUME Counting, NEW S, IsFiniteSet(S), NEW T, NEW f, \A y \in T : \E x \in S : f[x] = y
  PROVE  IsFiniteSet(T) /\ Cardinality(T) <= Cardinality(S)
  BY Zenon DEF Counting

-----------------------------------------------------------------------------
Holding == {"bread", "wait", "io", "use"}
Queued(b) == \E i \in 1 .. Len(idequeue) : idequeue[i] = b
Waiting == {b \in Buf : dirty[b] /\ ~Queued(b)}

(* A process has a buffer from bget to the end of brelse, and the buffer   *)
(* has a block.                                                            *)
BufOK ==
    /\ \A p \in Proc : buf[p] = None <=> pc[p] = "idle"
    /\ \A p \in Proc : buf[p] # None => blockno[buf[p]] # None

(* Who holds a buffer's lock is between acquiresleep and releasesleep.     *)
LockOK ==
    /\ \A p \in Proc : pc[p] \in Holding => lock[buf[p]] = p
    /\ \A b \in Buf : lock[b] # None => buf[lock[b]] = b /\ pc[lock[b]] \in Holding

(* A buffer in use is valid; a request is for the buffer of a waiter, is   *)
(* not yet done, and is in the queue once.                                 *)
QueueOK ==
    /\ \A p \in Proc : pc[p] = "use" => valid[buf[p]]
    /\ \A p \in Proc : pc[p] = "io" => Queued(buf[p])
    /\ \A p \in Proc : pc[p] = "wait" => Queued(buf[p]) \/ Done(buf[p])
    /\ \A i \in 1 .. Len(idequeue) :
        /\ ~Done(idequeue[i])
        /\ lock[idequeue[i]] # None /\ pc[lock[idequeue[i]]] \in {"wait", "io"}
    /\ \A i, j \in 1 .. Len(idequeue) : idequeue[i] = idequeue[j] => i = j

(* A valid buffer that is neither dirty nor spoilt has what the disk has.  *)
DataOK ==
    \A b \in Buf :
        /\ dirty[b] \/ b \in failed => valid[b]
        /\ valid[b] => blockno[b] # None
        /\ valid[b] /\ ~dirty[b] /\ b \notin failed => data[b] = disk[blockno[b]]

IInv ==
    /\ TypeOK /\ OneBuffer /\ RefsExact /\ ListOK /\ LockTaken
    /\ BufOK /\ LockOK /\ QueueOK /\ DataOK
    /\ Cardinality(Waiting) <= MaxPinned
    /\ NoBufferLost

-----------------------------------------------------------------------------
Places == {"idle", "lock", "asleep", "bread", "wait", "io", "use", "brelse"}

(* The types of the variables, one by one.                                 *)
LEMMA Types ==
  ASSUME TypeOK
  PROVE  /\ blockno \in [Buf -> Block \cup {None}]
         /\ valid \in [Buf -> BOOLEAN] /\ dirty \in [Buf -> BOOLEAN]
         /\ data \in [Buf -> Value] /\ refcnt \in [Buf -> Nat]
         /\ lock \in [Buf -> Proc \cup {None}]
         /\ lru \in Seq(Buf) /\ idequeue \in Seq(Buf)
         /\ disk \in [Block -> Value] /\ pc \in [Proc -> Places]
         /\ buf \in [Proc -> Buf \cup {None}]
         /\ failed \subseteq Buf /\ panicked \in BOOLEAN
         /\ None \notin Buf /\ None \notin Block /\ None \notin Proc
  BY BufAssumption DEF TypeOK, Places

(* Whoever is not idle has a buffer.                                       *)
LEMMA HasBuf ==
  ASSUME TypeOK, BufOK, NEW p \in Proc, pc[p] # "idle"
  PROVE  buf[p] \in Buf /\ blockno[buf[p]] \in Block
  BY Types DEF BufOK

(* The users of a buffer can be counted.                                   *)
LEMMA Users ==
  ASSUME Counting, NEW S \in SUBSET Proc
  PROVE  IsFiniteSet(S) /\ Cardinality(S) \in Nat /\ (Cardinality(S) = 0 <=> S = {})
  BY BufAssumption, CountSubset, CountIsNat, CountEmpty

(* So can sets of buffers.                                                 *)
LEMMA Buffers ==
  ASSUME Counting, NEW S \in SUBSET Buf
  PROVE  IsFiniteSet(S) /\ Cardinality(S) \in Nat
  BY BufAssumption, CountSubset, CountIsNat

(* The count is exact when one process takes a buffer ...                  *)
LEMMA RefTaken ==
  ASSUME Counting, TypeOK, RefsExact, NEW p \in Proc, buf[p] = None, NEW b \in Buf,
         buf' = [buf EXCEPT ![p] = b], refcnt' = [refcnt EXCEPT ![b] = @ + 1]
  PROVE  RefsExact'
<1> DEFINE U(c) == {q \in Proc : buf[q] = c}
<1>1. ASSUME NEW c \in Buf, c # b
      PROVE  refcnt'[c] = Cardinality({q \in Proc : buf'[q] = c})
  <2>1. {q \in Proc : buf'[q] = c} = U(c)
    BY <1>1, Types
  <2> QED BY Zenon, <1>1, <2>1, Types DEF RefsExact
<1>2. refcnt'[b] = Cardinality({q \in Proc : buf'[q] = b})
  <2>1. {q \in Proc : buf'[q] = b} = U(b) \cup {p} /\ p \notin U(b)
    BY Types
  <2>2. Cardinality(U(b) \cup {p}) = Cardinality(U(b)) + 1
    BY <2>1, Users, CountAdd
  <2> QED BY Zenon, <2>1, <2>2, Types DEF RefsExact
<1> QED BY <1>1, <1>2 DEF RefsExact

(* ... and when one gives its buffer back.                                 *)
LEMMA RefGiven ==
  ASSUME Counting, TypeOK, RefsExact, NEW p \in Proc, NEW b \in Buf, buf[p] = b,
         buf' = [buf EXCEPT ![p] = None], refcnt' = Released(b)
  PROVE  RefsExact' /\ refcnt[b] > 0
<1> DEFINE U(c) == {q \in Proc : buf[q] = c}
<1>1. ASSUME NEW c \in Buf, c # b
      PROVE  refcnt'[c] = Cardinality({q \in Proc : buf'[q] = c})
  <2>1. {q \in Proc : buf'[q] = c} = U(c)
    BY <1>1, Types
  <2> QED BY Zenon, <1>1, <2>1, Types DEF RefsExact, Released
<1>2. refcnt'[b] = Cardinality({q \in Proc : buf'[q] = b}) /\ refcnt[b] > 0
  <2>1. {q \in Proc : buf'[q] = b} = U(b) \ {p} /\ p \in U(b)
    BY Types
  <2>2. Cardinality(U(b) \ {p}) = Cardinality(U(b)) - 1
    BY Zenon, <2>1, Users, CountRemove
  <2>3. Cardinality(U(b)) \in Nat /\ Cardinality(U(b)) # 0
    BY <2>1, Users
  <2>4. refcnt[b] = Cardinality(U(b)) /\ refcnt'[b] = refcnt[b] - 1
    BY Types DEF RefsExact, Released
  <2> QED BY <2>1, <2>2, <2>3, <2>4
<1> QED BY <1>1, <1>2 DEF RefsExact

(* A buffer whose count is 0 is nobody's.                                  *)
LEMMA NoUser ==
  ASSUME Counting, TypeOK, RefsExact, NEW b \in Buf, refcnt[b] = 0
  PROVE  \A q \in Proc : buf[q] # b
<1>1. {q \in Proc : buf[q] = b} = {}
  BY Zenon, Users DEF RefsExact
<1> QED BY <1>1

(* brelse's move keeps every buffer in the list once.                      *)
LEMMA Moved ==
  ASSUME TypeOK, ListOK, NEW b \in Buf, lru' = ToFront(b)
  PROVE  lru' \in Seq(Buf) /\ ListOK'
<1> DEFINE n == CHOOSE i \in DOMAIN lru : lru[i] = b
<1>0. Len(lru) \in Nat /\ DOMAIN lru = 1 .. Len(lru)
  BY Types
<1>1. n \in 1 .. Len(lru) /\ lru[n] = b /\ \A j \in 1 .. Len(lru) : lru[j] = b <=> j = n
  BY Types DEF ListOK
<1> HIDE DEF n
<1>2. lru' = [i \in 1 .. Len(lru) |->
                IF i = 1 THEN b ELSE IF i <= n THEN lru[i - 1] ELSE lru[i]]
  BY Types DEF ToFront, n
<1>3. lru' \in Seq(Buf) /\ DOMAIN lru' = 1 .. Len(lru)
  <2>1. Len(lru) \in Nat /\ \A i \in 1 .. Len(lru) : lru[i] \in Buf
    BY Types
  <2>2. lru' \in [1 .. Len(lru) -> Buf]
    BY <1>1, <1>2, <2>1
  <2> QED BY <2>1, <2>2
<1>4. ASSUME NEW c \in Buf
      PROVE  \E i \in DOMAIN lru' : \A j \in DOMAIN lru' : lru'[j] = c <=> j = i
  <2>1. CASE c = b
    <3>1. \A j \in 1 .. Len(lru) : lru'[j] = c <=> j = 1
      BY <1>1, <1>2, <2>1, Types
    <3>2. 1 \in 1 .. Len(lru)
      BY <1>0, <1>1
    <3> QED BY <1>3, <3>1, <3>2
  <2>2. CASE c # b
    <3>0. PICK m \in DOMAIN lru : \A j \in DOMAIN lru : lru[j] = c <=> j = m
      BY DEF ListOK
    <3>1. m \in 1 .. Len(lru) /\ \A j \in 1 .. Len(lru) : lru[j] = c <=> j = m
      BY <1>0, <3>0
    <3>2. m # n
      BY <1>1, <2>2, <3>1
    <3>3. CASE m < n
      <4>1. \A j \in 1 .. Len(lru) : lru'[j] = c <=> j = m + 1
        BY <1>0, <1>1, <1>2, <2>2, <3>1, <3>3
      <4>2. m + 1 \in 1 .. Len(lru)
        BY <1>0, <1>1, <3>1, <3>3
      <4> QED BY <1>3, <4>1, <4>2
    <3>4. CASE m > n
      <4>1. \A j \in 1 .. Len(lru) : lru'[j] = c <=> j = m
        BY <1>0, <1>1, <1>2, <2>2, <3>1, <3>4
      <4> QED BY <1>3, <3>1, <4>1
    <3> QED BY <1>0, <1>1, <3>1, <3>2, <3>3, <3>4
  <2> QED BY <2>1, <2>2
<1> QED BY <1>3, <1>4 DEF ListOK

(* A queued buffer is locked by a process that waits for the disk.         *)
LEMMA QueuedWaits ==
  ASSUME TypeOK, LockOK, QueueOK, NEW b \in Buf, Queued(b)
  PROVE  /\ ~Done(b) /\ lock[b] \in Proc /\ buf[lock[b]] = b
         /\ pc[lock[b]] \in {"wait", "io"}
  BY Types DEF Queued, QueueOK, LockOK

-----------------------------------------------------------------------------
(* The pinned buffers that wait for the log's commit become more in        *)
(* log_write only.                                                         *)
LEMMA WaitingKept ==
  ASSUME Counting, Cardinality(Waiting) <= MaxPinned, Waiting' \subseteq Waiting
  PROVE  Cardinality(Waiting') <= MaxPinned
<1>1. Waiting \in SUBSET Buf /\ Waiting' \in SUBSET Waiting
  BY DEF Waiting
<1>2. IsFiniteSet(Waiting) /\ Cardinality(Waiting) \in Nat
  BY <1>1, Buffers
<1>3. Cardinality(Waiting') \in Nat /\ Cardinality(Waiting') <= Cardinality(Waiting)
  BY <1>1, <1>2, CountSubset, CountIsNat
<1> QED BY <1>2, <1>3, BufAssumption

(* A step that moves no buffer to another block, user or place keeps the   *)
(* three rules about them.                                                 *)
LEMMA FrameStep ==
  ASSUME OneBuffer, RefsExact, ListOK, UNCHANGED <<blockno, refcnt, buf, lru>>
  PROVE  OneBuffer' /\ RefsExact' /\ ListOK'
<1>1. OneBuffer'
  BY DEF OneBuffer
<1>2. RefsExact'
  BY DEF RefsExact
<1>3. ListOK'
  BY DEF ListOK
<1> QED BY <1>1, <1>2, <1>3

(* A step that changes nothing, or only panics.                            *)
LEMMA SameStep ==
  ASSUME IInv, panicked' \in BOOLEAN,
         UNCHANGED <<blockno, valid, dirty, data, refcnt, lock, lru, failed,
                     idequeue, disk, pc, buf>>
  PROVE  /\ TypeOK' /\ OneBuffer' /\ RefsExact' /\ ListOK' /\ LockTaken'
         /\ BufOK' /\ LockOK' /\ DataOK' /\ QueueOK' /\ Waiting' = Waiting
<1>1. TypeOK'
  BY DEF IInv, TypeOK
<1>2. OneBuffer' /\ RefsExact' /\ ListOK'
  BY FrameStep DEF IInv
<1>3. LockTaken' /\ BufOK'
  BY DEF IInv, LockTaken, BufOK
<1>4. LockOK'
  BY DEF IInv, LockOK
<1>5. DataOK'
  BY DEF IInv, DataOK
<1>6. QueueOK'
  BY DEF IInv, QueueOK, Queued, Done
<1>7. Waiting' = Waiting
  BY DEF Waiting, Queued
<1> QED BY <1>1, <1>2, <1>3, <1>4, <1>5, <1>6, <1>7

(* A step that leaves the buffers, the queue and the panic alone keeps     *)
(* what is about them alone.                                               *)
LEMMA QuietStep ==
  ASSUME IInv, UNCHANGED <<blockno, valid, dirty, data, lru, failed, idequeue, disk, panicked>>,
         ~panicked
  PROVE  /\ OneBuffer' /\ ListOK' /\ DataOK' /\ NoBufferLost'
         /\ Cardinality(Waiting)' <= MaxPinned
<1>1. OneBuffer' /\ ListOK'
  BY DEF IInv, OneBuffer, ListOK
<1>2. DataOK'
  BY DEF IInv, DataOK
<1>3. NoBufferLost'
  BY DEF NoBufferLost
<1>4. Waiting' = Waiting
  BY DEF Waiting, Queued
<1> QED BY <1>1, <1>2, <1>3, <1>4 DEF IInv

(* The queue's rules stay when the requests do, and every process is where *)
(* its request allows it to be.                                            *)
LEMMA QueueKept ==
  ASSUME TypeOK, QueueOK, UNCHANGED <<valid, dirty, idequeue>>,
         \A q \in Proc : pc'[q] = "use" => valid[buf'[q]],
         \A q \in Proc : pc'[q] = "io" => Queued(buf'[q]),
         \A q \in Proc : pc'[q] = "wait" => Queued(buf'[q]) \/ Done(buf'[q]),
         \A b \in Buf : Queued(b) => lock'[b] = lock[b] /\ pc'[lock[b]] \in {"wait", "io"}
  PROVE  QueueOK'
<1>1. \A i \in 1 .. Len(idequeue) : idequeue[i] \in Buf /\ Queued(idequeue[i])
  BY Types DEF Queued
<1>2. \A i \in 1 .. Len(idequeue) :
        /\ ~Done(idequeue[i])
        /\ lock'[idequeue[i]] # None /\ pc'[lock'[idequeue[i]]] \in {"wait", "io"}
  BY <1>1 DEF QueueOK
<1>3. \A q \in Proc : pc'[q] = "io" => Queued(buf[q])'
  BY DEF Queued
<1>4. \A q \in Proc : pc'[q] = "wait" => Queued(buf[q])' \/ Done(buf[q])'
  BY DEF Queued, Done
<1>5. \A i \in 1 .. Len(idequeue) : ~Done(idequeue[i])'
  BY <1>2 DEF Done
<1> QED BY <1>2, <1>3, <1>4, <1>5 DEF QueueOK

(* Where a process is has an allowed request behind it, and two processes  *)
(* that hold a lock have different buffers.                                *)
LEMMA QueueFacts ==
  ASSUME IInv
  PROVE  /\ \A q \in Proc : pc[q] = "use" => valid[buf[q]]
         /\ \A q \in Proc : pc[q] = "io" => Queued(buf[q])
         /\ \A q \in Proc : pc[q] = "wait" => Queued(buf[q]) \/ Done(buf[q])
         /\ \A b \in Buf : Queued(b) =>
              /\ ~Done(b) /\ lock[b] \in Proc /\ buf[lock[b]] = b
              /\ pc[lock[b]] \in {"wait", "io"}
         /\ \A p, q \in Proc : pc[p] \in Holding /\ pc[q] \in Holding /\ buf[p] = buf[q] => p = q
<1>1. \A p, q \in Proc : pc[p] \in Holding /\ pc[q] \in Holding /\ buf[p] = buf[q] => p = q
  BY DEF IInv, LockOK
<1>2. /\ \A q \in Proc : pc[q] = "use" => valid[buf[q]]
      /\ \A q \in Proc : pc[q] = "io" => Queued(buf[q])
      /\ \A q \in Proc : pc[q] = "wait" => Queued(buf[q]) \/ Done(buf[q])
  BY DEF IInv, QueueOK
<1> QED BY <1>1, <1>2, QueuedWaits DEF IInv

(* bget finds the block cached (bio.c:69-74).                              *)
LEMMA HitStep ==
  ASSUME Counting, IInv, NEW p \in Proc, NEW k \in Block, NEW b \in Buf, bget_hit(p, k, b)
  PROVE  IInv'
<1> USE DEF bget_hit, At, Goto, Cached
<1>0. buf[p] = None /\ blockno[b] = k /\ k # None
  BY Types DEF IInv, BufOK
<1>1. TypeOK'
  BY Types DEF IInv, TypeOK, Places
<1>2. RefsExact'
  BY Zenon, <1>0, RefTaken DEF IInv
<1>3. LockTaken' /\ BufOK'
  BY <1>0, Types DEF IInv, LockTaken, BufOK
<1>4. LockOK'
  BY <1>0, Types DEF IInv, LockOK, Holding
<1>5. QueueOK'
  <2>1. /\ \A q \in Proc : pc'[q] = "use" => valid[buf'[q]]
        /\ \A q \in Proc : pc'[q] = "io" => Queued(buf'[q])
        /\ \A q \in Proc : pc'[q] = "wait" => Queued(buf'[q]) \/ Done(buf'[q])
    BY <1>0, Types, QueueFacts DEF IInv
  <2>2. \A c \in Buf : Queued(c) => lock'[c] = lock[c] /\ pc'[lock[c]] \in {"wait", "io"}
    BY <1>0, Types, QueueFacts DEF IInv
  <2> QED BY <1>0, <2>1, <2>2, QueueKept DEF IInv
<1> QED BY <1>1, <1>2, <1>3, <1>4, <1>5, QuietStep DEF IInv

(* One round of acquiresleep: it gets the lock or sleeps.                  *)
LEMMA AcquireStep ==
  ASSUME IInv, NEW p \in Proc, acquiresleep(p)
  PROVE  IInv'
<1> USE DEF At, Goto
<1>0. /\ buf[p] \in Buf /\ ~panicked /\ pc[p] = "lock"
      /\ UNCHANGED <<blockno, valid, dirty, data, refcnt, lru, failed, idequeue, disk, buf, panicked>>
  BY HasBuf DEF IInv, acquiresleep
<1>1. RefsExact'
  BY <1>0 DEF IInv, RefsExact
<1>2. CASE lock[buf[p]] # None /\ Goto(p, "asleep") /\ UNCHANGED lock
  <2>1. TypeOK'
    BY <1>0, <1>2, Types DEF IInv, TypeOK, Places
  <2>2. LockTaken' /\ BufOK'
    BY <1>0, <1>2, Types DEF IInv, LockTaken, BufOK
  <2>3. LockOK'
    BY <1>0, <1>2, Types DEF IInv, LockOK, Holding
  <2>4. QueueOK'
    <3>1. /\ \A q \in Proc : pc'[q] = "use" => valid[buf'[q]]
          /\ \A q \in Proc : pc'[q] = "io" => Queued(buf'[q])
          /\ \A q \in Proc : pc'[q] = "wait" => Queued(buf'[q]) \/ Done(buf'[q])
      BY <1>0, <1>2, Types, QueueFacts DEF IInv
    <3>2. \A c \in Buf : Queued(c) => lock'[c] = lock[c] /\ pc'[lock[c]] \in {"wait", "io"}
      BY <1>0, <1>2, Types, QueueFacts DEF IInv
    <3> QED BY <1>0, <1>2, <3>1, <3>2, QueueKept DEF IInv
  <2> QED BY <1>0, <1>1, <2>1, <2>2, <2>3, <2>4, QuietStep DEF IInv
<1>3. CASE lock[buf[p]] = None /\ lock' = [lock EXCEPT ![buf[p]] = p] /\ Goto(p, "bread")
  <2>1. TypeOK'
    BY <1>0, <1>3, Types DEF IInv, TypeOK, Places
  <2>2. LockTaken' /\ BufOK'
    BY <1>0, <1>3, Types DEF IInv, LockTaken, BufOK
  <2>3. LockOK'
    BY <1>0, <1>3, Types DEF IInv, LockOK, Holding
  <2>4. QueueOK'
    <3>1. /\ \A q \in Proc : pc'[q] = "use" => valid[buf'[q]]
          /\ \A q \in Proc : pc'[q] = "io" => Queued(buf'[q])
          /\ \A q \in Proc : pc'[q] = "wait" => Queued(buf'[q]) \/ Done(buf'[q])
      BY <1>0, <1>3, Types, QueueFacts DEF IInv
    <3>2. \A c \in Buf : Queued(c) => lock'[c] = lock[c] /\ pc'[lock[c]] \in {"wait", "io"}
      BY <1>0, <1>3, Types, QueueFacts DEF IInv
    <3> QED BY <1>0, <1>3, <3>1, <3>2, QueueKept DEF IInv
  <2> QED BY <1>0, <1>1, <2>1, <2>2, <2>3, <2>4, QuietStep DEF IInv
<1> QED BY <1>2, <1>3 DEF acquiresleep

(* iderw looks at the flags: it returns, or sleeps again.                  *)
LEMMA WaitStep ==
  ASSUME IInv, NEW p \in Proc, iderw_waits(p)
  PROVE  IInv'
<1> USE DEF iderw_waits, At, Goto, cache
<1>0. buf[p] \in Buf
  BY HasBuf DEF IInv
<1>1. TypeOK'
  BY <1>0, Types DEF IInv, TypeOK, Places
<1>2. RefsExact'
  BY DEF IInv, RefsExact
<1>3. LockTaken' /\ BufOK'
  BY <1>0, Types DEF IInv, LockTaken, BufOK
<1>4. LockOK'
  BY <1>0, Types DEF IInv, LockOK, Holding
<1>5. QueueOK'
  <2>1. /\ \A q \in Proc : pc'[q] = "use" => valid[buf'[q]]
        /\ \A q \in Proc : pc'[q] = "io" => Queued(buf'[q])
        /\ \A q \in Proc : pc'[q] = "wait" => Queued(buf'[q]) \/ Done(buf'[q])
    BY <1>0, Types, QueueFacts DEF Done
  <2>2. \A b \in Buf : Queued(b) => lock'[b] = lock[b] /\ pc'[lock[b]] \in {"wait", "io"}
    BY <1>0, Types, QueueFacts
  <2> QED BY <2>1, <2>2, QueueKept DEF IInv
<1> QED BY <1>1, <1>2, <1>3, <1>4, <1>5, QuietStep DEF IInv

(* brelse gives the lock up first (bio.c:126).                             *)
LEMMA ReleaseStep ==
  ASSUME IInv, NEW p \in Proc, releasesleep(p)
  PROVE  IInv'
<1> USE DEF releasesleep, At, Roused
<1>0. buf[p] \in Buf /\ lock[buf[p]] = p
  BY HasBuf DEF IInv, LockOK, Holding
<1>1. TypeOK'
  BY Zenon, <1>0, Types DEF IInv, TypeOK, Places
<1>2. RefsExact'
  BY DEF IInv, RefsExact
<1>3. LockTaken' /\ BufOK'
  BY Zenon, <1>0, Types DEF IInv, LockTaken, BufOK
<1>4. LockOK'
  BY <1>0, Types DEF IInv, LockOK, Holding
<1>5. QueueOK'
  <2>1. /\ \A q \in Proc : pc'[q] = "use" => valid[buf'[q]]
        /\ \A q \in Proc : pc'[q] = "io" => Queued(buf'[q])
        /\ \A q \in Proc : pc'[q] = "wait" => Queued(buf'[q]) \/ Done(buf'[q])
    BY <1>0, Types, QueueFacts DEF IInv
  <2>2. \A c \in Buf : Queued(c) => lock'[c] = lock[c] /\ pc'[lock[c]] \in {"wait", "io"}
    <3>1. \A c \in Buf : Queued(c) => lock[c] \in Proc \ {p} /\ pc[lock[c]] \in {"wait", "io"}
      BY QueueFacts
    <3>2. \A c \in Buf \ {buf[p]} : lock'[c] = lock[c]
      BY Types DEF IInv
    <3>3. \A q \in Proc \ {p} : pc[q] \in {"wait", "io"} => pc'[q] = pc[q]
      BY Types DEF IInv
    <3>4. ~Queued(buf[p])
      BY <1>0, <3>1
    <3> QED BY <3>1, <3>2, <3>3, <3>4
  <2> QED BY <1>0, <2>1, <2>2, QueueKept DEF IInv
<1> QED BY <1>1, <1>2, <1>3, <1>4, <1>5, QuietStep DEF IInv

(* kill only makes a sleeper look again.                                   *)
LEMMA KillStep ==
  ASSUME IInv, NEW p \in Proc, kill(p)
  PROVE  IInv'
<1>0. /\ ~panicked
      /\ UNCHANGED <<cache, idequeue, disk, buf, panicked>>
  BY DEF kill
<1>1. RefsExact'
  BY <1>0 DEF IInv, RefsExact, cache
<1>2. ASSUME NEW l \in {"lock", "wait"}, Goto(p, l),
             IF l = "lock" THEN pc[p] = "asleep" ELSE pc[p] = "io"
      PROVE  IInv'
  <2> USE DEF Goto, cache
  <2>1. TypeOK'
    BY <1>0, <1>2, Types DEF IInv, TypeOK, Places
  <2>2. LockTaken' /\ BufOK'
    BY <1>0, <1>2, Types DEF IInv, LockTaken, BufOK
  <2>3. LockOK'
    BY <1>0, <1>2, Types DEF IInv, LockOK, Holding
  <2>4. QueueOK'
    <3>1. /\ \A q \in Proc : pc'[q] = "use" => valid[buf'[q]]
          /\ \A q \in Proc : pc'[q] = "io" => Queued(buf'[q])
          /\ \A q \in Proc : pc'[q] = "wait" => Queued(buf'[q]) \/ Done(buf'[q])
      BY <1>0, <1>2, Types, QueueFacts DEF IInv
    <3>2. \A c \in Buf : Queued(c) => lock'[c] = lock[c] /\ pc'[lock[c]] \in {"wait", "io"}
      BY Zenon, <1>0, <1>2, Types, QueueFacts DEF IInv
    <3> QED BY <1>0, <1>2, <3>1, <3>2, QueueKept DEF IInv
  <2> QED BY <1>0, <1>1, <2>1, <2>2, <2>3, <2>4, QuietStep DEF IInv
<1> QED BY <1>2 DEF kill

(* The same when buffers nobody has asked the disk for change.             *)
LEMMA QueueApart ==
  ASSUME IInv, UNCHANGED <<idequeue, lock>>, NEW b \in Buf, ~Queued(b),
         \A c \in Buf \ {b} : valid'[c] = valid[c] /\ dirty'[c] = dirty[c],
         \A q \in Proc : pc'[q] \in {"use", "io", "wait"} => pc'[q] = pc[q] /\ buf'[q] = buf[q],
         \A q \in Proc : pc'[q] \in {"io", "wait"} => buf'[q] # b,
         \A q \in Proc : pc[q] \in {"io", "wait"} => pc'[q] = pc[q],
         \A q \in Proc : pc'[q] = "use" /\ buf'[q] = b => valid'[b]
  PROVE  QueueOK'
<1>1. \A i \in 1 .. Len(idequeue) :
        idequeue[i] \in Buf /\ Queued(idequeue[i]) /\ idequeue[i] # b
  BY Types DEF IInv, Queued
<1>2. \A i \in 1 .. Len(idequeue) :
        /\ ~Done(idequeue[i])
        /\ lock'[idequeue[i]] # None /\ pc'[lock'[idequeue[i]]] \in {"wait", "io"}
  BY <1>1, QueueFacts, BufAssumption
<1>3. \A i \in 1 .. Len(idequeue) : ~Done(idequeue[i])'
  BY <1>1, <1>2 DEF Done
<1>4. \A q \in Proc : pc'[q] = "io" => Queued(buf[q])'
  BY QueueFacts DEF Queued
<1>5. \A q \in Proc : pc'[q] = "wait" => Queued(buf[q])' \/ Done(buf[q])'
  <2> SUFFICES ASSUME NEW q \in Proc, pc'[q] = "wait" PROVE Queued(buf[q])' \/ Done(buf[q])'
    OBVIOUS
  <2>1. buf'[q] = buf[q] /\ buf[q] \in Buf \ {b}
    BY HasBuf DEF IInv
  <2>2. Queued(buf[q]) \/ Done(buf[q])
    BY QueueFacts
  <2> QED BY <2>1, <2>2 DEF Queued, Done
<1>6. \A q \in Proc : pc'[q] = "use" => valid'[buf'[q]]
  <2> SUFFICES ASSUME NEW q \in Proc, pc'[q] = "use", buf'[q] # b PROVE valid'[buf'[q]]
    OBVIOUS
  <2>1. buf'[q] = buf[q] /\ buf[q] \in Buf \ {b} /\ pc[q] = "use"
    BY HasBuf DEF IInv
  <2> QED BY <2>1, QueueFacts
<1>7. \A i, j \in 1 .. Len(idequeue) : idequeue[i] = idequeue[j] => i = j
  BY DEF IInv, QueueOK
<1> QED BY <1>2, <1>3, <1>4, <1>5, <1>6, <1>7 DEF QueueOK

(* bget takes a buffer nobody uses and nobody has to write (bio.c:81-90).  *)
LEMMA RecycleStep ==
  ASSUME Counting, IInv, NEW p \in Proc, NEW k \in Block, bget_recycle(p, k)
  PROVE  IInv'
<1>0. PICK i \in DOMAIN lru :
        /\ Recyclable(lru[i])
        /\ blockno' = [blockno EXCEPT ![lru[i]] = k]
        /\ valid' = [valid EXCEPT ![lru[i]] = FALSE]
        /\ dirty' = [dirty EXCEPT ![lru[i]] = FALSE]
        /\ refcnt' = [refcnt EXCEPT ![lru[i]] = 1]
        /\ failed' = failed \ {lru[i]}
        /\ buf' = [buf EXCEPT ![p] = lru[i]]
  BY Zenon DEF bget_recycle
<1>1. PICK b \in Buf : b = lru[i]
  BY Types DEF IInv
<1>2. /\ refcnt[b] = 0 /\ ~dirty[b]
      /\ blockno' = [blockno EXCEPT ![b] = k]
      /\ valid' = [valid EXCEPT ![b] = FALSE] /\ dirty' = [dirty EXCEPT ![b] = FALSE]
      /\ refcnt' = [refcnt EXCEPT ![b] = 1] /\ failed' = failed \ {b}
      /\ buf' = [buf EXCEPT ![p] = b]
  BY <1>0, <1>1 DEF Recyclable
<1>3. /\ ~panicked /\ pc[p] = "idle" /\ \A c \in Buf : blockno[c] # k
      /\ pc' = [pc EXCEPT ![p] = "lock"]
      /\ UNCHANGED <<data, lock, lru, idequeue, disk, panicked>>
  BY DEF bget_recycle, At, Goto, Cached
<1>4. buf[p] = None /\ \A q \in Proc : buf[q] # b
  BY <1>2, <1>3, NoUser DEF IInv, BufOK
<1>5. lock[b] = None /\ ~Queued(b)
  <2>1. lock[b] \in Proc \cup {None}
    BY Types DEF IInv
  <2>2. lock[b] # None => buf[lock[b]] = b
    BY DEF IInv, LockOK
  <2>3. ~Queued(b)
    BY <1>4, QueueFacts
  <2> QED BY <1>4, <2>1, <2>2, <2>3
<1>6. TypeOK'
  BY <1>2, <1>3, Types DEF IInv, TypeOK, Places
<1>7. OneBuffer' /\ ListOK'
  <2>1. OneBuffer'
    BY <1>2, <1>3, Types DEF IInv, OneBuffer
  <2>2. ListOK'
    BY <1>3 DEF IInv, ListOK
  <2> QED BY <2>1, <2>2
<1>8. RefsExact'
  <2>1. refcnt' = [refcnt EXCEPT ![b] = @ + 1]
    BY <1>2, Types DEF IInv
  <2> QED BY Zenon, <1>2, <1>4, <2>1, RefTaken DEF IInv
<1>9. LockTaken' /\ BufOK'
  <2>1. LockTaken'
    BY <1>2, <1>3, Types DEF IInv, LockTaken
  <2>2. k # None
    BY BufAssumption
  <2> QED BY Zenon, <1>2, <1>3, <1>4, <2>1, <2>2, Types DEF IInv, BufOK
<1>10. LockOK'
  BY <1>2, <1>3, <1>4, <1>5, Types DEF IInv, LockOK, Holding
<1>11. QueueOK'
  BY Zenon, <1>2, <1>3, <1>4, <1>5, Types, QueueApart DEF IInv
<1>12. DataOK'
  BY <1>2, <1>3, Types DEF IInv, DataOK
<1>13. Cardinality(Waiting)' <= MaxPinned
  <2>1. Waiting' \subseteq Waiting
    BY <1>2, <1>3, Types DEF IInv, Waiting, Queued
  <2> QED BY Zenon, <2>1, WaitingKept DEF IInv
<1>14. NoBufferLost'
  BY <1>3 DEF NoBufferLost
<1> QED BY <1>6, <1>7, <1>8, <1>9, <1>10, <1>11, <1>12, <1>13, <1>14 DEF IInv

(* When bget finds no buffer, each is pinned and waits for the commit, or  *)
(* some process has it.                                                    *)
LEMMA PanicStep ==
  ASSUME Counting, IInv, NEW p \in Proc, NEW k \in Block, bget_panics(p, k)
  PROVE  IInv'
<1> DEFINE Busy == {q \in Proc : pc[q] # "idle"}
           Had == {buf[q] : q \in Busy}
<1>0. UNCHANGED <<cache, idequeue, disk, pc, buf>> /\ panicked' = TRUE
  BY DEF bget_panics
<1>1. \A b \in Buf : ~Recyclable(b)
  <2>1. \A i \in DOMAIN lru : ~Recyclable(lru[i])
    BY DEF bget_panics
  <2>2. \A b \in Buf : \E i \in DOMAIN lru : lru[i] = b
    BY DEF IInv, ListOK
  <2> QED BY <2>1, <2>2
<1>2. Buf \subseteq Waiting \cup Had
  <2> SUFFICES ASSUME NEW b \in Buf, b \notin Waiting PROVE b \in Had
    OBVIOUS
  <2>1. CASE refcnt[b] # 0
    <3>1. {q \in Proc : buf[q] = b} # {}
      BY Zenon, <2>1, Users DEF IInv, RefsExact
    <3>2. PICK q \in Proc : buf[q] = b
      BY <3>1
    <3>3. pc[q] # "idle"
      BY Zenon, <3>2, Types DEF IInv, BufOK
    <3> QED BY <3>2, <3>3
  <2>2. CASE dirty[b]
    <3>1. Queued(b)
      BY <2>2 DEF Waiting
    <3> QED BY <3>1, QueueFacts
  <2> QED BY <1>1, <2>1, <2>2 DEF Recyclable
<1>3. IsFiniteSet(Had) /\ Cardinality(Had) <= Cardinality(Busy) /\ IsFiniteSet(Busy)
  <2>1. IsFiniteSet(Busy)
    BY Users
  <2>2. \A c \in Had : \E q \in Busy : buf[q] = c
    OBVIOUS
  <2> HIDE DEF Had, Busy
  <2> QED BY Zenon, <2>1, <2>2, CountImage
<1>4. IsFiniteSet(Waiting) /\ Cardinality(Waiting) \in Nat /\ IsFiniteSet(Buf)
  BY Buffers, BufAssumption DEF Waiting
<1>5. /\ Cardinality(Had) \in Nat /\ Cardinality(Busy) \in Nat /\ Cardinality(Buf) \in Nat
      /\ Cardinality(Waiting \cap Had) \in Nat
  BY Zenon, <1>3, <1>4, CountIsNat, CountMeet
<1>6. /\ IsFiniteSet(Waiting \cup Had)
      /\ Cardinality(Waiting \cup Had) =
           Cardinality(Waiting) + Cardinality(Had) - Cardinality(Waiting \cap Had)
  BY <1>3, <1>4, CountUnion
<1>7. Cardinality(Buf) <= Cardinality(Waiting \cup Had)
  BY <1>2, <1>6, CountSubset
<1>8. Cardinality(Buf) <= MaxPinned + Cardinality(Busy)
  <2>1. Cardinality(Waiting) <= MaxPinned /\ MaxPinned \in Nat
    BY BufAssumption DEF IInv
  <2> HIDE DEF Busy, Had
  <2> QED BY <1>3, <1>4, <1>5, <1>6, <1>7, <2>1
<1>9. NoBufferLost'
  BY <1>0, <1>8 DEF NoBufferLost
<1>10. /\ TypeOK' /\ OneBuffer' /\ RefsExact' /\ ListOK' /\ LockTaken'
       /\ BufOK' /\ LockOK' /\ DataOK'
  BY <1>0, SameStep DEF cache
<1>11. QueueOK' /\ Waiting' = Waiting
  BY <1>0, SameStep DEF cache
<1> QED BY <1>9, <1>10, <1>11 DEF IInv

(* iderw puts a buffer that is not in the queue at its end.                *)
LEMMA IderwStep ==
  ASSUME IInv, NEW p \in Proc, pc[p] \in {"bread", "use"}, iderw(p), UNCHANGED <<lock, buf>>,
         \A c \in Buf \ {buf[p]} : valid'[c] = valid[c] /\ dirty'[c] = dirty[c],
         ~Done(buf[p])'
  PROVE  /\ LockTaken' /\ LockOK' /\ QueueOK'
         /\ idequeue' \in Seq(Buf) /\ pc' \in [Proc -> Places]
         /\ Waiting' \subseteq Waiting
<1>0. PICK b \in Buf : b = buf[p] /\ lock[b] = p
  BY HasBuf DEF IInv, LockOK, Holding
<1>1. pc' = [pc EXCEPT ![p] = "io"] /\ idequeue' = Append(idequeue, b)
  BY Zenon, <1>0 DEF iderw, Goto
<1>2. idequeue' \in Seq(Buf) /\ pc' \in [Proc -> Places]
  BY <1>1, Types DEF IInv, Places
<1>3. ~Queued(b)
  BY <1>0, QueueFacts
<1>4. /\ Len(idequeue) \in Nat /\ Len(idequeue') = Len(idequeue) + 1
      /\ idequeue'[Len(idequeue) + 1] = b
      /\ \A i \in 1 .. Len(idequeue) : idequeue'[i] = idequeue[i] /\ idequeue[i] \in Buf
  BY <1>1, Types DEF IInv
<1>5. \A i \in 1 .. Len(idequeue') : i \in 1 .. Len(idequeue) \/ i = Len(idequeue) + 1
  BY <1>4
<1>6. \A c : Queued(c) \/ c = b => \E i \in 1 .. Len(idequeue') : idequeue'[i] = c
  <2>1. 1 .. Len(idequeue) \subseteq 1 .. Len(idequeue') /\ Len(idequeue) + 1 \in 1 .. Len(idequeue')
    BY <1>4
  <2> QED BY <1>4, <2>1 DEF Queued
<1>7. \A i \in 1 .. Len(idequeue) : idequeue[i] # b /\ Queued(idequeue[i])
  BY <1>3 DEF Queued
<1>12. \A q \in Proc : pc'[q] = IF q = p THEN "io" ELSE pc[q]
  BY <1>1, Types DEF IInv
<1>8. LockTaken'
  BY <1>1, Types DEF IInv, LockTaken
<1>9. LockOK'
  BY <1>1, Types DEF IInv, LockOK, Holding
<1>10. QueueOK'
  <2>1. \A q \in Proc : pc'[q] = "use" => valid'[buf'[q]]
    <3> SUFFICES ASSUME NEW q \in Proc, pc'[q] = "use" PROVE valid'[buf[q]]
      OBVIOUS
    <3>1. q # p /\ pc[q] = "use" /\ buf[q] \in Buf
      BY <1>12, HasBuf DEF IInv
    <3>2. buf[q] # b
      BY Zenon, <1>0, <3>1, QueueFacts DEF Holding
    <3> QED BY Zenon, <1>0, <3>1, <3>2, QueueFacts
  <2>2. \A q \in Proc : pc'[q] = "io" => Queued(buf[q])'
    <3> SUFFICES ASSUME NEW q \in Proc, pc'[q] = "io" PROVE Queued(buf[q])'
      OBVIOUS
    <3>1. Queued(buf[q]) \/ buf[q] = b
      <4>1. q = p \/ pc[q] = "io"
        BY <1>12
      <4> QED BY Zenon, <1>0, <4>1, QueueFacts
    <3> QED BY Zenon, <1>6, <3>1 DEF Queued
  <2>3. \A q \in Proc : pc'[q] = "wait" => Queued(buf[q])' \/ Done(buf[q])'
    <3> SUFFICES ASSUME NEW q \in Proc, pc'[q] = "wait" PROVE Queued(buf[q])' \/ Done(buf[q])'
      BY Zenon
    <3>1. q # p /\ pc[q] = "wait" /\ buf[q] \in Buf
      BY <1>12, HasBuf DEF IInv
    <3>2. buf[q] # b
      BY Zenon, <1>0, <3>1, QueueFacts DEF Holding
    <3>3. Queued(buf[q]) \/ Done(buf[q])
      BY <3>1, QueueFacts
    <3>4. CASE Queued(buf[q])
      BY Zenon, <1>6, <3>4 DEF Queued
    <3>5. CASE Done(buf[q])
      BY <1>0, <3>1, <3>2, <3>5 DEF Done
    <3> QED BY <3>3, <3>4, <3>5
  <2>4. ASSUME NEW i \in 1 .. Len(idequeue')
        PROVE  /\ ~Done(idequeue[i])'
               /\ lock'[idequeue'[i]] # None /\ pc'[lock'[idequeue'[i]]] \in {"wait", "io"}
    <3>1. CASE i = Len(idequeue) + 1
      <4>1. idequeue'[i] = b /\ lock'[b] = p /\ pc'[p] = "io" /\ p # None
        BY <1>0, <1>4, <1>12, <3>1, BufAssumption
      <4> QED BY Zenon, <1>0, <4>1 DEF Done
    <3>2. CASE i \in 1 .. Len(idequeue)
      <4>1. PICK c \in Buf : c = idequeue[i] /\ c = idequeue'[i] /\ c # b /\ Queued(c)
        BY <1>4, <1>7, <3>2
      <4>2. ~Done(c) /\ lock[c] \in Proc /\ lock[c] # p /\ pc[lock[c]] \in {"wait", "io"}
        BY Zenon, <1>0, <4>1, QueueFacts
      <4>3. ~Done(c)'
        BY Zenon, <1>0, <4>1, <4>2 DEF Done
      <4>4. lock'[c] # None /\ pc'[lock'[c]] \in {"wait", "io"}
        BY <1>12, <4>1, <4>2, BufAssumption
      <4> QED BY Zenon, <4>1, <4>3, <4>4 DEF Done
    <3> QED BY Zenon, <1>5, <3>1, <3>2
  <2>5. \A i, j \in 1 .. Len(idequeue') : idequeue'[i] = idequeue'[j] => i = j
    <3>1. \A i, j \in 1 .. Len(idequeue) : idequeue[i] = idequeue[j] => i = j
      BY Zenon DEF IInv, QueueOK
    <3>2. \A i \in 1 .. Len(idequeue) : idequeue'[i] = idequeue[i] /\ idequeue'[i] # b
      BY Zenon, <1>4, <1>7
    <3>3. idequeue'[Len(idequeue) + 1] = b
      BY Zenon, <1>4
    <3> QED BY Zenon, <1>5, <3>1, <3>2, <3>3
  <2> QED BY Zenon, <2>1, <2>2, <2>3, <2>4, <2>5 DEF QueueOK
<1>11. Waiting' \subseteq Waiting
  <2> SUFFICES ASSUME NEW c \in Buf, dirty'[c], ~Queued(c)' PROVE c \in Waiting
    BY DEF Waiting
  <2>1. ~Queued(c) /\ c # b
    BY Zenon, <1>6 DEF Queued
  <2> QED BY Zenon, <1>0, <2>1 DEF Waiting
<1> QED BY Zenon, <1>2, <1>8, <1>9, <1>10, <1>11

(* bread goes to the disk for a buffer that is not valid.                  *)
LEMMA BreadStep ==
  ASSUME Counting, IInv, NEW p \in Proc, bread(p)
  PROVE  IInv'
<1>0. /\ ~panicked /\ pc[p] = "bread" /\ buf[p] \in Buf
      /\ UNCHANGED <<cache, disk, buf, panicked>>
  BY Zenon, HasBuf DEF IInv, bread, At
<1>1. OneBuffer' /\ RefsExact' /\ ListOK' /\ DataOK'
  BY <1>0 DEF cache, IInv, OneBuffer, RefsExact, ListOK, DataOK
<1>2. NoBufferLost'
  BY <1>0 DEF NoBufferLost
<1>3. CASE valid[buf[p]] /\ Goto(p, "use") /\ UNCHANGED idequeue
  <2> USE DEF Goto, cache
  <2>1. TypeOK'
    BY <1>0, <1>3, Types DEF IInv, TypeOK, Places
  <2>2. LockTaken' /\ BufOK'
    BY <1>0, <1>3, Types DEF IInv, LockTaken, BufOK
  <2>3. LockOK'
    BY <1>0, <1>3, Types DEF IInv, LockOK, Holding
  <2>4. QueueOK'
    <3>1. /\ \A q \in Proc : pc'[q] = "use" => valid[buf'[q]]
          /\ \A q \in Proc : pc'[q] = "io" => Queued(buf'[q])
          /\ \A q \in Proc : pc'[q] = "wait" => Queued(buf'[q]) \/ Done(buf'[q])
      <4>1. pc \in [Proc -> Places] /\ pc' = [pc EXCEPT ![p] = "use"] /\ UNCHANGED buf
        BY Zenon, <1>0, <1>3, Types DEF IInv
      <4> QED BY <1>3, <4>1, QueueFacts
    <3>2. \A c \in Buf : Queued(c) => lock'[c] = lock[c] /\ pc'[lock[c]] \in {"wait", "io"}
      BY Zenon, <1>0, <1>3, Types, QueueFacts DEF IInv
    <3> QED BY Zenon, <1>0, <1>3, <3>1, <3>2, QueueKept DEF IInv
  <2> QED BY Zenon, <1>0, <1>1, <1>3, <2>1, <2>2, <2>3, <2>4, QuietStep DEF IInv
<1>4. CASE ~valid[buf[p]] /\ iderw(p)
  <2>1. ~Done(buf[p])'
    BY <1>0, <1>4 DEF cache, Done
  <2>2. /\ LockTaken' /\ LockOK' /\ QueueOK'
        /\ idequeue' \in Seq(Buf) /\ pc' \in [Proc -> Places]
        /\ Waiting' \subseteq Waiting
    BY Zenon, <1>0, <1>4, <2>1, IderwStep DEF cache
  <2>3. TypeOK'
    BY Zenon, <1>0, <2>2, Types DEF cache, IInv, TypeOK, Places
  <2>4. BufOK'
    BY <1>0, <1>4, Types DEF cache, iderw, Goto, IInv, BufOK
  <2>5. Cardinality(Waiting)' <= MaxPinned
    BY <2>2, WaitingKept DEF IInv
  <2> QED BY <1>1, <1>2, <2>2, <2>3, <2>4, <2>5 DEF IInv
<1> QED BY <1>3, <1>4 DEF bread

(* bwrite queues the buffer to be written.                                 *)
LEMMA BwriteStep ==
  ASSUME Counting, IInv, NEW p \in Proc, NEW x \in Value, bwrite(p, x)
  PROVE  IInv'
<1>0. /\ ~panicked /\ pc[p] = "use" /\ buf[p] \in Buf /\ valid[buf[p]]
      /\ data' = [data EXCEPT ![buf[p]] = x] /\ dirty' = [dirty EXCEPT ![buf[p]] = TRUE]
      /\ iderw(p)
      /\ UNCHANGED <<blockno, valid, refcnt, lock, lru, failed, disk, buf, panicked>>
  BY Zenon, HasBuf, QueueFacts DEF IInv, bwrite, At
<1>1. ~Done(buf[p])'
  BY Zenon, <1>0, Types DEF IInv, Done
<1>2. /\ LockTaken' /\ LockOK' /\ QueueOK'
      /\ idequeue' \in Seq(Buf) /\ pc' \in [Proc -> Places]
      /\ Waiting' \subseteq Waiting
  BY Zenon, <1>0, <1>1, Types, IderwStep DEF IInv
<1>3. TypeOK'
  BY Zenon, <1>0, <1>2, Types DEF IInv, TypeOK, Places
<1>4. OneBuffer' /\ RefsExact' /\ ListOK'
  BY Zenon, <1>0, FrameStep DEF IInv
<1>5. BufOK'
  BY Zenon, <1>0, Types DEF iderw, Goto, IInv, BufOK
<1>6. DataOK'
  BY <1>0, Types DEF IInv, DataOK
<1>7. Cardinality(Waiting)' <= MaxPinned
  BY <1>2, WaitingKept DEF IInv
<1>8. NoBufferLost'
  BY <1>0 DEF NoBufferLost
<1> QED BY <1>2, <1>3, <1>4, <1>5, <1>6, <1>7, <1>8 DEF IInv

(* log_write pins the buffer by making it dirty.                           *)
LEMMA LogWriteStep ==
  ASSUME Counting, IInv, NEW p \in Proc, NEW x \in Value, log_write(p, x)
  PROVE  IInv'
<1>0. PICK b \in Buf : b = buf[p]
  BY HasBuf DEF IInv, log_write, At
<1>1. /\ ~panicked /\ pc[p] = "use" /\ valid[b]
      /\ Cardinality(Pinned \cup {b}) <= MaxPinned
      /\ data' = [data EXCEPT ![b] = x] /\ dirty' = [dirty EXCEPT ![b] = TRUE]
      /\ UNCHANGED <<blockno, valid, refcnt, lock, lru, failed, idequeue, disk, pc, buf, panicked>>
  BY <1>0, QueueFacts DEF log_write, At
<1>2. lock[b] = p /\ ~Queued(b)
  BY Zenon, <1>0, <1>1, QueueFacts DEF IInv, LockOK, Holding
<1>3. TypeOK'
  BY <1>1, Types DEF IInv, TypeOK, Places
<1>4. OneBuffer' /\ RefsExact' /\ ListOK' /\ LockTaken' /\ BufOK' /\ LockOK'
  <2>1. OneBuffer' /\ RefsExact' /\ ListOK'
    BY <1>1, FrameStep DEF IInv
  <2>2. LockTaken' /\ BufOK'
    BY Zenon, <1>1 DEF IInv, LockTaken, BufOK
  <2>3. LockOK'
    BY Zenon, <1>1 DEF IInv, LockOK
  <2> QED BY <2>1, <2>2, <2>3
<1>5. QueueOK'
  <2>1. \A q \in Proc : pc[q] \in {"io", "wait"} => buf[q] # b
    BY Zenon, <1>0, <1>1, QueueFacts DEF Holding
  <2> QED BY Zenon, <1>1, <1>2, <2>1, Types, QueueApart DEF IInv
<1>6. DataOK'
  BY <1>1, Types DEF IInv, DataOK
<1>7. Cardinality(Waiting)' <= MaxPinned
  <2>1. Waiting' \subseteq Pinned \cup {b} /\ Pinned \cup {b} \subseteq Buf
    BY <1>1, Types DEF IInv, Waiting, Pinned
  <2>2. IsFiniteSet(Pinned \cup {b}) /\ Cardinality(Pinned \cup {b}) \in Nat
    BY <2>1, Buffers
  <2>3. Cardinality(Waiting') <= Cardinality(Pinned \cup {b}) /\ Cardinality(Waiting') \in Nat
    BY <2>1, <2>2, CountSubset, CountIsNat
  <2>4. MaxPinned \in Nat /\ Cardinality(Pinned \cup {b}) <= MaxPinned
    BY <1>1, BufAssumption
  <2> QED BY <2>2, <2>3, <2>4
<1>8. NoBufferLost'
  BY <1>1 DEF NoBufferLost
<1> QED BY <1>3, <1>4, <1>5, <1>6, <1>7, <1>8 DEF IInv

(* brelse drops its reference and, if it was the last, moves the buffer to *)
(* the front.                                                              *)
LEMMA BrelseStep ==
  ASSUME Counting, IInv, NEW p \in Proc, brelse(p)
  PROVE  IInv'
<1>0. PICK b \in Buf : b = buf[p]
  BY Zenon, HasBuf DEF IInv, brelse, At
<1>1. /\ ~panicked /\ pc[p] = "brelse" /\ refcnt' = Released(b)
      /\ lru' = ToFront(b) \/ lru' = lru
      /\ buf' = [buf EXCEPT ![p] = None] /\ pc' = [pc EXCEPT ![p] = "idle"]
      /\ UNCHANGED <<blockno, valid, dirty, data, lock, failed, idequeue, disk, panicked>>
  BY <1>0 DEF brelse, At, Goto
<1>2. RefsExact' /\ refcnt[b] > 0
  BY Zenon, <1>0, <1>1, RefGiven DEF IInv
<1>3. lru' \in Seq(Buf) /\ ListOK'
  <2>1. CASE lru' = ToFront(b)
    BY <2>1, Moved DEF IInv
  <2>2. CASE lru' = lru
    <3>1. lru \in Seq(Buf)
      BY Types DEF IInv
    <3>2. ListOK'
      BY <2>2 DEF IInv, ListOK
    <3> QED BY <2>2, <3>1, <3>2
  <2> QED BY <1>1, <2>1, <2>2
<1>4. refcnt' \in [Buf -> Nat]
  BY <1>1, <1>2, Types DEF IInv, Released
<1>5. TypeOK'
  BY <1>1, <1>3, <1>4, Types DEF IInv, TypeOK, Places
<1>6. OneBuffer' /\ DataOK'
  BY Zenon, <1>1 DEF IInv, OneBuffer, DataOK
<1>7. LockTaken' /\ BufOK'
  BY Zenon, <1>1, Types DEF IInv, LockTaken, BufOK
<1>8. LockOK'
  <2>1. pc \in [Proc -> Places] /\ buf \in [Proc -> Buf \cup {None}]
    BY Types DEF IInv
  <2>2. LockOK
    BY DEF IInv
  <2>3. \A c \in Buf : lock[c] # p
    BY <1>1, <2>2, BufAssumption DEF LockOK, Holding
  <2>4. \A q \in Proc : pc'[q] \in Holding => q # p /\ pc'[q] = pc[q] /\ buf'[q] = buf[q]
    BY <1>1, <2>1 DEF Holding
  <2>5. \A c \in Buf : lock[c] # None => lock[c] \in Proc
    BY Types DEF IInv
  <2> QED BY Zenon, <1>1, <2>1, <2>2, <2>3, <2>4, <2>5 DEF LockOK
<1>9. QueueOK'
  <2>1. /\ \A q \in Proc : pc'[q] = "use" => valid[buf'[q]]
        /\ \A q \in Proc : pc'[q] = "io" => Queued(buf'[q])
        /\ \A q \in Proc : pc'[q] = "wait" => Queued(buf'[q]) \/ Done(buf'[q])
    <3>1. pc \in [Proc -> Places] /\ buf \in [Proc -> Buf \cup {None}]
      BY Types DEF IInv
    <3>2. \A q \in Proc : pc'[q] \in {"use", "io", "wait"} => pc'[q] = pc[q] /\ buf'[q] = buf[q]
      BY <1>1, <3>1
    <3> QED BY Zenon, <3>2, QueueFacts
  <2>2. \A c \in Buf : Queued(c) => lock'[c] = lock[c] /\ pc'[lock[c]] \in {"wait", "io"}
    BY <1>1, Types, QueueFacts DEF IInv
  <2> QED BY Zenon, <1>1, <2>1, <2>2, QueueKept DEF IInv
<1>10. Waiting' = Waiting
  BY <1>1 DEF Waiting, Queued
<1>11. NoBufferLost'
  BY <1>1 DEF NoBufferLost
<1> QED BY <1>2, <1>3, <1>5, <1>6, <1>7, <1>8, <1>9, <1>10, <1>11 DEF IInv
=============================================================================
