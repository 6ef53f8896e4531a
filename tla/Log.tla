-------------------------------- MODULE Log --------------------------------
(***************************************************************************)
(* The write-ahead log of the file system (log.c): file-system calls       *)
(* between begin_op and end_op, the group commit one disk write at a time, *)
(* and recovery after a crash at any point, a crash of recovery included.  *)
(*                                                                         *)
(* The disk writes one block atomically: the header is one sector.  The    *)
(* buffer cache appears as what bread returns for each block and as the    *)
(* blocks pinned by B_DIRTY; a block under modification is locked.         *)
(***************************************************************************)
EXTENDS Integers, Sequences, FiniteSets

CONSTANTS
    Proc,
    Block,        \* the blocks of the file system outside the log
    Value,        \* what a block may hold
    Zero,         \* what the blocks hold at first
    MAXOPBLOCKS,  \* the blocks begin_op sets aside for a call
    LOGSIZE,      \* the entries of struct logheader
    nlog,         \* sb.nlog: the blocks of the on-disk log, header included
    OpBlocks,     \* the blocks a call does write
    NoBlock

(* The data blocks of one transaction of filewrite (file.c:133).  With an  *)
(* unaligned end, the bitmap, the i-node and the indirect block it is the  *)
(* call that writes most.                                                  *)
filewrite_max == (LOGSIZE - 1 - 1 - 2) \div 2

ASSUME LogAssumption ==
    /\ IsFiniteSet(Proc)
    /\ MAXOPBLOCKS \in Nat \ {0} /\ LOGSIZE \in Nat /\ nlog \in Nat
    /\ MAXOPBLOCKS <= LOGSIZE
    /\ OpBlocks \in 1 .. filewrite_max + 4
    /\ Zero \in Value
    /\ NoBlock \notin Block

VARIABLES
    home,         \* disk: the blocks in their places
    slot,         \* disk: the data blocks of the log
    head,         \* disk: the header, the blocks a committed transaction has
    cache,        \* what bread returns
    dirty,        \* blocks with B_DIRTY, which bget does not recycle
    lh,           \* log.lh
    outstanding,  \* log.outstanding
    committing,   \* log.committing
    pc,           \* where each process is
    held,         \* the buffer a process has locked and modified
    wrote,        \* the blocks its call has written so far
    tail,         \* the loop counter of write_log and install_trans
    boot,         \* "up", or how far initlog has come
    panicked

disk == <<home, slot, head>>
ops == <<outstanding, committing, pc, held, wrote>>
vars == <<disk, cache, dirty, lh, ops, tail, boot, panicked>>

(* More than LOGSIZE entries are an overrun; as many as there are          *)
(* processes can happen before the next check sees it.                     *)
Slots == 1 .. LOGSIZE + Cardinality(Proc)

Up == boot = "up" /\ panicked = "no"
Goto(p, l) == pc' = [pc EXCEPT ![p] = l]

(* wakeup(&log), while p goes on to l.  (A name with a suffix is a slip in *)
(* the definition after it.)                                               *)
wakeup_not(p, l) == Goto(p, l)
wakeup(p, l) ==
    pc' = [q \in Proc |-> IF q = p THEN l ELSE IF pc[q] = "asleep" THEN "awake" ELSE pc[q]]

-----------------------------------------------------------------------------
(* begin_op: wait for a commit in progress and for space; then one more    *)
(* call is under way.                                                      *)
Admitted == outstanding + 1
Full_lh == Admitted * MAXOPBLOCKS > LOGSIZE
Full == Len(lh) + Admitted * MAXOPBLOCKS > LOGSIZE

begin_op(p) ==
    /\ Up
    /\ pc[p] \in {"idle", "awake"}
    /\ \/ /\ committing \/ Full
          /\ Goto(p, "asleep")
          /\ UNCHANGED outstanding
       \/ /\ ~committing /\ ~Full
          /\ Goto(p, "op")
          /\ outstanding' = Admitted
    /\ UNCHANGED <<disk, cache, dirty, lh, committing, held, wrote, tail, boot, panicked>>

(* kill() makes a sleeper runnable; begin_op tests again.                  *)
kill(p) ==
    /\ Up
    /\ pc[p] = "asleep"
    /\ Goto(p, "awake")
    /\ UNCHANGED <<disk, cache, dirty, lh, outstanding, committing, held, wrote, tail, boot, panicked>>

(* bread, a change of the data, and the tests of log_write, which come     *)
(* before log.lock is taken.                                               *)
TooBig == Len(lh) >= LOGSIZE \/ Len(lh) >= nlog - 1

modify(p, b, x) ==
    /\ Up
    /\ pc[p] = "op"
    /\ \A q \in Proc : held[q] # b
    /\ Cardinality(wrote[p] \cup {b}) <= OpBlocks
    /\ cache' = [cache EXCEPT ![b] = x]
    /\ held' = [held EXCEPT ![p] = b]
    /\ wrote' = [wrote EXCEPT ![p] = @ \cup {b}]
    /\ IF TooBig \/ outstanding < 1
       THEN panicked' = (IF TooBig THEN "too big a transaction" ELSE "log_write outside of trans")
            /\ UNCHANGED pc
       ELSE Goto(p, "log_write") /\ UNCHANGED panicked
    /\ UNCHANGED <<disk, dirty, lh, outstanding, committing, tail, boot>>

(* The rest of log_write: one entry per block, and the block is pinned.    *)
InHeader(h, b) == \E i \in 1 .. Len(h) : h[i] = b
Logged(b) == IF InHeader(lh, b) THEN lh ELSE Append(lh, b)
Pinned_not(b) == dirty
Pinned(b) == dirty \cup {b}

log_write(p) ==
    /\ Up
    /\ pc[p] = "log_write"
    /\ lh' = Logged(held[p])
    /\ dirty' = Pinned(held[p])
    /\ held' = [held EXCEPT ![p] = NoBlock]
    /\ Goto(p, "op")
    /\ UNCHANGED <<disk, cache, outstanding, committing, wrote, tail, boot, panicked>>

(* The last call out commits; nothing to commit if nothing was logged.     *)
LastOut_any == TRUE
LastOut == outstanding = 1

end_op(p) ==
    /\ Up
    /\ pc[p] = "op"
    /\ wrote' = [wrote EXCEPT ![p] = {}]
    /\ outstanding' = outstanding - 1
    /\ panicked' = IF committing THEN "log.committing" ELSE panicked
    /\ \/ /\ LastOut
          /\ committing' = TRUE
          /\ Goto(p, IF lh = <<>> THEN "done" ELSE "write_log")
       \/ /\ ~LastOut
          /\ wakeup(p, "idle")
          /\ UNCHANGED committing
    /\ tail' = 1
    /\ UNCHANGED <<disk, cache, dirty, lh, held, boot>>

-----------------------------------------------------------------------------
(* commit(): every step is one disk write.                                 *)
Writing(p, l) == Up /\ pc[p] = l

CommitPoint == "write_head"

write_log(p) ==
    /\ Writing(p, "write_log")
    /\ slot' = [slot EXCEPT ![tail] = cache[lh[tail]]]
    /\ tail' = (tail % Len(lh)) + 1
    /\ Goto(p, IF tail = Len(lh) THEN CommitPoint ELSE "write_log")
    /\ UNCHANGED <<home, head, cache, dirty, lh, outstanding, committing, held, wrote, boot, panicked>>

(* The commit point.                                                       *)
write_head(p) ==
    /\ Writing(p, CommitPoint)
    /\ head' = lh
    /\ Goto(p, "install_trans")
    /\ UNCHANGED <<home, slot, cache, dirty, lh, outstanding, committing, held, wrote, tail, boot, panicked>>

(* One round of install_trans's loop: bread, memmove, bwrite, which clears *)
(* B_DIRTY.                                                                *)
Install ==
    /\ home' = [home EXCEPT ![lh[tail]] = slot[tail]]
    /\ cache' = [cache EXCEPT ![lh[tail]] = slot[tail]]
    /\ dirty' = dirty \ {lh[tail]}
    /\ tail' = (tail % Len(lh)) + 1

install_trans(p) ==
    /\ Writing(p, "install_trans")
    /\ Install
    /\ Goto(p, IF tail = Len(lh) THEN "erase" ELSE "install_trans")
    /\ UNCHANGED <<slot, head, lh, outstanding, committing, held, wrote, boot, panicked>>

(* log.lh.n = 0 and the second write_head.                                 *)
erase(p) ==
    /\ Writing(p, "erase")
    /\ lh' = <<>>
    /\ head' = <<>>
    /\ Goto(p, "done")
    /\ UNCHANGED <<home, slot, cache, dirty, outstanding, committing, held, wrote, tail, boot, panicked>>

(* The end of end_op.                                                      *)
committed(p) ==
    /\ Writing(p, "done")
    /\ committing' = FALSE
    /\ wakeup(p, "idle")
    /\ UNCHANGED <<disk, cache, dirty, lh, outstanding, held, wrote, tail, boot, panicked>>

-----------------------------------------------------------------------------
(* The machine stops at any moment and boots again.  Memory is lost; bread *)
(* finds what the disk has.                                                *)
crash ==
    /\ cache' = home
    /\ dirty' = {}
    /\ lh' = <<>>
    /\ outstanding' = 0 /\ committing' = FALSE
    /\ pc' = [p \in Proc |-> "idle"]
    /\ held' = [p \in Proc |-> NoBlock]
    /\ wrote' = [p \in Proc |-> {}]
    /\ tail' = 1
    /\ boot' = "read_head"
    /\ panicked' = "no"
    /\ UNCHANGED disk

(* initlog(), in the first process before any other runs.                  *)
read_head ==
    /\ boot = "read_head"
    /\ lh' = head
    /\ boot' = IF head = <<>> THEN "erase" ELSE "install_trans"
    /\ UNCHANGED <<disk, cache, dirty, ops, tail, panicked>>

recover_install ==
    /\ boot = "install_trans"
    /\ Install
    /\ boot' = IF tail = Len(lh) THEN "erase" ELSE "install_trans"
    /\ UNCHANGED <<slot, head, lh, ops, panicked>>

recover_erase ==
    /\ boot = "erase"
    /\ lh' = <<>>
    /\ head' = <<>>
    /\ boot' = "up"
    /\ UNCHANGED <<home, slot, cache, dirty, ops, tail, panicked>>

Init ==
    /\ home = [b \in Block |-> Zero]
    /\ slot = [i \in Slots |-> Zero]
    /\ head = <<>>
    /\ cache = home /\ dirty = {}
    /\ lh = <<>>
    /\ outstanding = 0 /\ committing = FALSE
    /\ pc = [p \in Proc |-> "idle"]
    /\ held = [p \in Proc |-> NoBlock]
    /\ wrote = [p \in Proc |-> {}]
    /\ tail = 1
    /\ boot = "read_head"
    /\ panicked = "no"

Next ==
    \/ \E p \in Proc :
       \/ begin_op(p) \/ kill(p) \/ log_write(p) \/ end_op(p)
       \/ write_log(p) \/ write_head(p) \/ install_trans(p) \/ erase(p) \/ committed(p)
       \/ \E b \in Block, x \in Value : modify(p, b, x)
    \/ crash \/ read_head \/ recover_install \/ recover_erase

Spec == Init /\ [][Next]_vars

-----------------------------------------------------------------------------
(* The types of struct log, of the on-disk header and of the buffers.      *)
TypeOK ==
    /\ home \in [Block -> Value] /\ cache \in [Block -> Value]
    /\ slot \in [Slots -> Value]
    /\ head \in Seq(Block) /\ lh \in Seq(Block)
    /\ dirty \subseteq Block
    /\ outstanding \in 0 .. Cardinality(Proc) /\ committing \in BOOLEAN
    /\ pc \in [Proc -> {"idle", "asleep", "awake", "op", "log_write", "write_log",
                        "write_head", "install_trans", "erase", "done"}]
    /\ held \in [Proc -> Block \cup {NoBlock}]
    /\ wrote \in [Proc -> SUBSET Block]
    /\ tail \in Slots
    /\ boot \in {"read_head", "install_trans", "erase", "up"}
    /\ panicked \in {"no", "too big a transaction", "log_write outside of trans", "log.committing"}

(* The three panics of log.c are unreachable.                              *)
NoLogPanic == panicked = "no"

(* The log stays inside its blocks on disk: the test of log_write is made  *)
(* before the lock is taken (log.c:218, 223), so another process may come  *)
(* between.                                                                *)
LogFits == Len(lh) <= LOGSIZE /\ Len(lh) <= nlog - 1

(* begin_op's reservation leaves room for every block of every call it     *)
(* admits (log.c:132, 218): log_write does not panic and the log stays     *)
(* inside its blocks.  That is so when a call writes fewer blocks than     *)
(* MAXOPBLOCKS and one call alone does not fill the log.                   *)
FitsInSpace == NoLogPanic /\ LogFits

(* bget may recycle any buffer that is not dirty and not in use (bio.c:79) *)
(* and read it again: what it read is what the cache had.                  *)
CleanIsHome ==
    \A b \in Block :
        b \notin dirty /\ (\A p \in Proc : held[p] # b) => cache[b] = home[b]

(* A call sleeps in begin_op only while a commit runs or the log is full:  *)
(* whoever ends that wakes it (log.c:161, 171).                            *)
NoMissedWakeup == \A p \in Proc : pc[p] = "asleep" => committing \/ Full

(* Write-ahead: a block changes in its place only when a committed header  *)
(* names it (write_head, "the true point at which the current transaction  *)
(* commits", log.c:99).                                                    *)
WriteAhead ==
    [][\A b \in Block : home'[b] # home[b] => InHeader(head, b)]_vars

(* What recovery would make of the disk as it is.                          *)
Recovered ==
    [b \in Block |-> IF InHeader(head, b)
                     THEN slot[CHOOSE i \in DOMAIN head : head[i] = b] ELSE home[b]]

Disk == INSTANCE AtomicDisk WITH
    durable <- Recovered,
    current <- (IF boot = "up" THEN cache ELSE Recovered),
    active <- {p \in Proc : pc[p] \in {"op", "log_write"}}

(* Crash safety: with crashes at any point, recovery included, the log     *)
(* implements a disk on which calls are all or nothing and commits group   *)
(* whole calls.                                                            *)
CrashSafe == Disk!Spec
=============================================================================
