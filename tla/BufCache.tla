------------------------------ MODULE BufCache ------------------------------
(***************************************************************************)
(* The buffer cache (bio.c) with its sleep locks (sleeplock.c), over the   *)
(* request queue of the disk driver and its interrupt (ide.c).             *)
(*                                                                         *)
(* A step that holds bcache.lock, a sleep lock's lk or idelock is atomic.  *)
(* A process has one bread under way at a time: one that holds two buffers *)
(* (bmap and balloc, write_log) is two processes here.                     *)
(***************************************************************************)
EXTENDS Integers, Sequences, FiniteSets

CONSTANTS
    Proc,
    Buf,        \* bcache.buf; NBUF of them
    Block,
    Value, Zero,  \* what a block may hold, and holds at first
    MaxPinned,  \* the blocks the log keeps pinned at once: see LogFits in Log
    BadBlock,   \* the blocks whose read may fail
    None        \* no buffer, no block, no holder

ASSUME BufAssumption ==
    /\ IsFiniteSet(Buf) /\ IsFiniteSet(Proc)
    /\ None \notin Buf \cup Block \cup Proc
    /\ MaxPinned \in Nat /\ Zero \in Value
    /\ BadBlock \subseteq Block

VARIABLES
    blockno, valid, dirty, data, refcnt,  \* the fields of struct buf
    lock,       \* the holder of b->lock
    lru,        \* the list from bcache.head.next on
    idequeue,
    disk,
    pc,         \* where each process is
    buf,        \* the buffer its bread found
    failed,     \* buffers filled by a read that failed
    panicked    \* has bget found no buffer?

cache == <<blockno, valid, dirty, data, refcnt, lock, lru, failed>>
vars == <<cache, idequeue, disk, pc, buf, panicked>>

At(p, l) == ~panicked /\ pc[p] = l
Goto(p, l) == pc' = [pc EXCEPT ![p] = l]

-----------------------------------------------------------------------------
(* bget.  The first loop: is the block already cached?  (A name with a     *)
(* suffix is a slip in the definition after it.)                           *)
Cached_inuse(k) == {b \in Buf : blockno[b] = k /\ refcnt[b] > 0}
Cached(k) == {b \in Buf : blockno[b] = k}

bget_hit(p, k, b) ==
    /\ At(p, "idle")
    /\ b \in Cached(k)
    /\ refcnt' = [refcnt EXCEPT ![b] = @ + 1]
    /\ buf' = [buf EXCEPT ![p] = b]
    /\ Goto(p, "lock")
    /\ UNCHANGED <<blockno, valid, dirty, data, lock, lru, failed, idequeue, disk, panicked>>

(* The second loop, from the tail: the least recently used buffer that is  *)
(* neither in use nor pinned.                                              *)
Recyclable_dirty(b) == refcnt[b] = 0
Recyclable(b) == refcnt[b] = 0 /\ ~dirty[b]

bget_recycle(p, k) ==
    /\ At(p, "idle")
    /\ Cached(k) = {}
    /\ \E i \in DOMAIN lru :
        /\ Recyclable(lru[i])
        /\ \A j \in i + 1 .. Len(lru) : ~Recyclable(lru[j])
        /\ blockno' = [blockno EXCEPT ![lru[i]] = k]
        /\ valid' = [valid EXCEPT ![lru[i]] = FALSE]
        /\ dirty' = [dirty EXCEPT ![lru[i]] = FALSE]
        /\ refcnt' = [refcnt EXCEPT ![lru[i]] = 1]
        /\ failed' = failed \ {lru[i]}
        /\ buf' = [buf EXCEPT ![p] = lru[i]]
    /\ Goto(p, "lock")
    /\ UNCHANGED <<data, lock, lru, idequeue, disk, panicked>>

bget_panics(p, k) ==
    /\ At(p, "idle")
    /\ Cached(k) = {}
    /\ \A i \in DOMAIN lru : ~Recyclable(lru[i])
    /\ panicked' = TRUE
    /\ UNCHANGED <<cache, idequeue, disk, pc, buf>>

(* panic() spins for ever.                                                 *)
frozen == panicked /\ UNCHANGED vars

(* acquiresleep(&b->lock): one round of its loop.                          *)
acquiresleep(p) ==
    /\ At(p, "lock")
    /\ \/ /\ lock[buf[p]] # None
          /\ Goto(p, "asleep")
          /\ UNCHANGED lock
       \/ /\ lock[buf[p]] = None
          /\ lock' = [lock EXCEPT ![buf[p]] = p]
          /\ Goto(p, "bread")
    /\ UNCHANGED <<blockno, valid, dirty, data, refcnt, lru, failed, idequeue, disk, buf, panicked>>

-----------------------------------------------------------------------------
(* iderw: to the end of the queue, and sleep.  The disk is started when the *)
(* queue was empty: the head of the queue is what it works on.             *)
iderw(p) ==
    /\ idequeue' = Append(idequeue, buf[p])
    /\ Goto(p, "io")

(* bread, after bget.                                                      *)
bread(p) ==
    /\ At(p, "bread")
    /\ \/ valid[buf[p]] /\ Goto(p, "use") /\ UNCHANGED idequeue
       \/ ~valid[buf[p]] /\ iderw(p)
    /\ UNCHANGED <<cache, disk, buf, panicked>>

(* The loop at the end of iderw, after sleep() has returned.               *)
Done(b) == valid[b] /\ ~dirty[b]

iderw_waits(p) ==
    /\ At(p, "wait")
    /\ Goto(p, IF Done(buf[p]) THEN "use" ELSE "io")
    /\ UNCHANGED <<cache, idequeue, disk, buf, panicked>>

(* The transfer idestart asks for: a write, whose data nobody can change   *)
(* meanwhile, or a read, which may fail and leave the data as they were.   *)
idestart(b) ==
    \/ /\ dirty[b]
       /\ disk' = [disk EXCEPT ![blockno[b]] = data[b]]
       /\ UNCHANGED <<data, failed>>
    \/ /\ ~dirty[b]
       /\ data' = [data EXCEPT ![b] = disk[blockno[b]]]
       /\ UNCHANGED <<disk, failed>>
    \/ /\ ~dirty[b] /\ blockno[b] \in BadBlock
       /\ failed' = failed \cup {b}
       /\ UNCHANGED <<disk, data>>

(* The interrupt: the transfer of the head of the queue is over.  The      *)
(* buffer of a read that failed is marked valid all the same.              *)
Started == Tail(idequeue)
WokenBy_none(b) == pc
WokenBy(b) == [p \in Proc |-> IF pc[p] = "io" /\ buf[p] = b THEN "wait" ELSE pc[p]]

ideintr ==
    /\ ~panicked
    /\ idequeue # <<>>
    /\ LET b == Head(idequeue) IN
        /\ idestart(b)
        /\ valid' = [valid EXCEPT ![b] = TRUE]
        /\ dirty' = [dirty EXCEPT ![b] = FALSE]
        /\ pc' = WokenBy(b)
    /\ idequeue' = Started
    /\ UNCHANGED <<blockno, refcnt, lock, lru, buf, panicked>>

-----------------------------------------------------------------------------
(* The holder changes the block and log_write pins it.                     *)
Pinned == {b \in Buf : dirty[b]}

log_write(p, x) ==
    /\ At(p, "use")
    /\ Cardinality(Pinned \cup {buf[p]}) <= MaxPinned
    /\ data' = [data EXCEPT ![buf[p]] = x]
    /\ dirty' = [dirty EXCEPT ![buf[p]] = TRUE]
    /\ UNCHANGED <<blockno, valid, refcnt, lock, lru, failed, idequeue, disk, pc, buf, panicked>>

(* bwrite, after a change or for a block that log_write pinned.            *)
bwrite(p, x) ==
    /\ At(p, "use")
    /\ data' = [data EXCEPT ![buf[p]] = x]
    /\ dirty' = [dirty EXCEPT ![buf[p]] = TRUE]
    /\ iderw(p)
    /\ UNCHANGED <<blockno, valid, refcnt, lock, lru, failed, disk, buf, panicked>>

(* brelse: releasesleep, then the count under bcache.lock.                 *)
Roused(b) == [q \in Proc |-> IF pc[q] = "asleep" /\ buf[q] = b THEN "lock" ELSE pc[q]]

releasesleep(p) ==
    /\ At(p, "use")
    /\ lock' = [lock EXCEPT ![buf[p]] = None]
    /\ pc' = [Roused(buf[p]) EXCEPT ![p] = "brelse"]
    /\ UNCHANGED <<blockno, valid, dirty, data, refcnt, lru, failed, idequeue, disk, buf, panicked>>

Released_not(b) == refcnt
Released(b) == [refcnt EXCEPT ![b] = @ - 1]

(* The list with b taken out of its place and put behind bcache.head.      *)
ToFront(b) ==
    LET n == CHOOSE i \in DOMAIN lru : lru[i] = b IN
    [i \in DOMAIN lru |-> IF i = 1 THEN b ELSE IF i <= n THEN lru[i - 1] ELSE lru[i]]

brelse(p) ==
    /\ At(p, "brelse")
    /\ refcnt' = Released(buf[p])
    /\ lru' = IF refcnt'[buf[p]] = 0 THEN ToFront(buf[p]) ELSE lru
    /\ buf' = [buf EXCEPT ![p] = None]
    /\ Goto(p, "idle")
    /\ UNCHANGED <<blockno, valid, dirty, data, lock, failed, idequeue, disk, panicked>>

(* kill() makes a sleeper runnable; both loops look again.                 *)
kill(p) ==
    /\ ~panicked
    /\ \/ pc[p] = "asleep" /\ Goto(p, "lock")
       \/ pc[p] = "io" /\ Goto(p, "wait")
    /\ UNCHANGED <<cache, idequeue, disk, buf, panicked>>

-----------------------------------------------------------------------------
(* After binit.  Its list has each buffer once, the last one first; dev is *)
(* 0 in all of them, which no caller asks for.                             *)
InitList ==
    CHOOSE s \in [1 .. Cardinality(Buf) -> Buf] : \A i, j \in DOMAIN s : s[i] = s[j] => i = j

Init ==
    /\ blockno = [b \in Buf |-> None]
    /\ valid = [b \in Buf |-> FALSE] /\ dirty = [b \in Buf |-> FALSE]
    /\ data = [b \in Buf |-> Zero]
    /\ refcnt = [b \in Buf |-> 0]
    /\ lock = [b \in Buf |-> None]
    /\ lru = InitList
    /\ failed = {}
    /\ idequeue = <<>>
    /\ disk = [k \in Block |-> Zero]
    /\ pc = [p \in Proc |-> "idle"] /\ buf = [p \in Proc |-> None]
    /\ panicked = FALSE

Step(p) == acquiresleep(p) \/ bread(p) \/ iderw_waits(p) \/ brelse(p)

Next ==
    \/ \E p \in Proc :
        \/ Step(p) \/ releasesleep(p) \/ kill(p)
        \/ \E k \in Block : bget_recycle(p, k) \/ bget_panics(p, k) \/ \E b \in Buf : bget_hit(p, k, b)
        \/ \E x \in Value : log_write(p, x) \/ bwrite(p, x)
    \/ ideintr \/ frozen

Spec == Init /\ [][Next]_vars

(* The disk answers every request, a runnable process runs, and whoever    *)
(* has a buffer gives it back.  A sleep lock has no queue: that a waiter   *)
(* gets it although others come in between is the scheduler's doing.       *)
Acquires(p) == acquiresleep(p) /\ lock'[buf[p]] = p

FairSpec ==
    /\ Spec
    /\ WF_vars(ideintr)
    /\ \A p \in Proc : WF_vars(Step(p)) /\ SF_vars(Acquires(p) \/ releasesleep(p))

-----------------------------------------------------------------------------
(* The types of struct buf and of the queue.                               *)
TypeOK ==
    /\ blockno \in [Buf -> Block \cup {None}]
    /\ valid \in [Buf -> BOOLEAN] /\ dirty \in [Buf -> BOOLEAN]
    /\ data \in [Buf -> Value]
    /\ refcnt \in [Buf -> Nat]
    /\ lock \in [Buf -> Proc \cup {None}]
    /\ lru \in Seq(Buf) /\ idequeue \in Seq(Buf)
    /\ disk \in [Block -> Value]
    /\ pc \in [Proc -> {"idle", "lock", "asleep", "bread", "wait", "io", "use", "brelse"}]
    /\ buf \in [Proc -> Buf \cup {None}]
    /\ failed \subseteq Buf /\ panicked \in BOOLEAN

(* A block is in at most one buffer: two lookups that both miss may not    *)
(* both recycle (bio.c:66-91).                                             *)
OneBuffer == \A b, c \in Buf : blockno[b] = blockno[c] /\ blockno[b] # None => b = c

(* refcnt counts the processes between bget and the end of brelse, those   *)
(* that sleep for the lock included, so a buffer somebody waits for is     *)
(* never recycled under it (bio.c:71, 82, 129).                            *)
RefsExact == \A b \in Buf : refcnt[b] = Cardinality({p \in Proc : buf[p] = b})

(* Every buffer is in bcache's list once: brelse's moves lose none of them *)
(* (bio.c:133-138).                                                        *)
ListOK == \A b \in Buf : \E i \in DOMAIN lru : \A j \in DOMAIN lru : lru[j] = b <=> j = i

(* "bget: no buffers" (bio.c:92) means that the log's blocks and one       *)
(* buffer for each process that is inside a bread fill the cache: no       *)
(* buffer is lost.  With NBUF >= MaxPinned + the number of processes it    *)
(* cannot happen.                                                          *)
NoBufferLost ==
    panicked => Cardinality(Buf) <= MaxPinned + Cardinality({p \in Proc : pc[p] # "idle"})

(* Who sleeps in iderw has a request in the queue, and every request has   *)
(* one process that holds its buffer and waits (ide.c:124, 155, 162).      *)
IoPending ==
    /\ \A p \in Proc : pc[p] = "io" => \E i \in DOMAIN idequeue : idequeue[i] = buf[p]
    /\ \A i \in DOMAIN idequeue :
        /\ ~Done(idequeue[i])
        /\ lock[idequeue[i]] \in Proc /\ pc[lock[idequeue[i]]] \in {"wait", "io"}
        /\ \A j \in DOMAIN idequeue : idequeue[i] = idequeue[j] => i = j

(* No process sleeps for a lock that is free (sleeplock.c:27, 40).         *)
LockTaken == \A p \in Proc : pc[p] = "asleep" => lock[buf[p]] # None

(* The cache is sound at every step: one buffer a block, counted by its    *)
(* users and in its place in the list, and every sleeper of bio.c,         *)
(* sleeplock.c and ide.c has someone who will wake it.                     *)
CacheOK == TypeOK /\ OneBuffer /\ RefsExact /\ ListOK /\ IoPending /\ LockTaken

Content(k) ==
    IF \E b \in Cached(k) : valid[b]
    THEN data[CHOOSE b \in Cached(k) : valid[b]] ELSE disk[k]

Store == INSTANCE BlockStore WITH
    content <- [k \in Block |-> Content(k)],
    using <- [p \in Proc |-> IF buf[p] # None /\ lock[buf[p]] = p THEN blockno[buf[p]] ELSE None],
    spoilt <- {blockno[b] : b \in failed},
    NoBlock <- None

(* The cache implements a store in which a block has one content and one   *)
(* user: recycling and rereading are invisible ("only one process at a     *)
(* time can use a buffer", bio.c:13), and a failed read (ide.c:118) spoils *)
(* its own block only, and only until the buffer is recycled.              *)
IsStore == Store!Spec

(* A bread that has found its buffer returns it.                           *)
BreadReturns == \A p \in Proc : pc[p] = "lock" ~> (pc[p] = "use" \/ panicked)
=============================================================================
