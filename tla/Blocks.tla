------------------------------- MODULE Blocks -------------------------------
(***************************************************************************)
(* The blocks of files: balloc, bfree, bmap, itrunc, readi and writei of   *)
(* fs.c, on the image that mkfs.c makes.  The caller holds the i-node's    *)
(* lock and each bitmap block is changed under its buffer's lock, so a     *)
(* call is one step.  A block holds BSIZE values: bytes of a file, or, in  *)
(* an indirect block, block numbers (NINDIRECT = BSIZE here).              *)
(***************************************************************************)
EXTENDS Integers, Sequences, FiniteSets, FiniteSetsExt

CONSTANTS
    NDIRECT, BSIZE,
    FSSIZE,      \* blocks of the disk
    nmeta,       \* boot, super, log, i-node and bitmap blocks
    Inode,
    ImageFiles,  \* what mkfs may be given: the bytes of the first files
    Sources      \* what may be written

ROOTINO == 1
NINDIRECT == BSIZE
MAXFILE == NDIRECT + NINDIRECT
Zeroes == [k \in 0 .. BSIZE - 1 |-> 0]
NoAddrs == [k \in 0 .. NDIRECT |-> 0]

VARIABLES
    fs,      \* the disk: bitmap, addrs and size of each i-node, blocks
    content  \* what each file holds, for the properties

blkVars == <<fs, content>>

-----------------------------------------------------------------------------
(* balloc takes the first block free in the bitmap, and zeroes it.         *)
Free(s) == (0 .. FSSIZE - 1) \ s.used
bzero(s, b) == [s EXCEPT !.data[b] = Zeroes]
balloc(s) == bzero([s EXCEPT !.used = @ \cup {Min(Free(s))}], Min(Free(s)))
Allocated(s) == Min(Free(s))

(* bfree, of each of a set of blocks (BitmapExact says they are marked, so *)
(* that "freeing free block" is not met).                                  *)
bfree(s, bs) == [s EXCEPT !.used = @ \ bs]

(* bmap(ip, bn): the address of a block, and the disk once it has one.     *)
IndIndex(bn) == bn - NDIRECT

Addr(s, i, bn) ==
    IF bn < NDIRECT THEN s.addrs[i][bn]
    ELSE IF s.addrs[i][NDIRECT] = 0 THEN 0 ELSE s.data[s.addrs[i][NDIRECT]][IndIndex(bn)]

WithIndirect(s, i, bn) ==
    IF bn >= NDIRECT /\ s.addrs[i][NDIRECT] = 0
    THEN [balloc(s) EXCEPT !.addrs[i][NDIRECT] = Allocated(s)] ELSE s

bmap(s, i, bn) ==
    LET t == WithIndirect(s, i, bn) IN
    IF Addr(t, i, bn) # 0 THEN t
    ELSE IF bn < NDIRECT THEN [balloc(t) EXCEPT !.addrs[i][bn] = Allocated(t)]
    ELSE [balloc(t) EXCEPT !.data[t.addrs[i][NDIRECT]][IndIndex(bn)] = Allocated(t)]

Needed(s, i, bns) ==
    Cardinality({bn \in bns : Addr(s, i, bn) = 0})
    + IF s.addrs[i][NDIRECT] = 0 /\ \E bn \in bns : bn >= NDIRECT THEN 1 ELSE 0

-----------------------------------------------------------------------------
(* The loop of writei, a block at a time, and of readi.                    *)
RECURSIVE Written(_, _, _, _)
Written(s, i, off, src) ==
    IF src = <<>> THEN s
    ELSE LET bn == off \div BSIZE
             t == bmap(s, i, bn)
             m == Min({Len(src), BSIZE - (off % BSIZE)})
             put == [k \in 0 .. BSIZE - 1 |->
                        IF k - (off % BSIZE) \in 0 .. m - 1 THEN src[k - (off % BSIZE) + 1]
                        ELSE t.data[Addr(t, i, bn)][k]]
         IN Written([t EXCEPT !.data[Addr(t, i, bn)] = put], i, off + m, SubSeq(src, m + 1, Len(src)))

ReadFrom(s, i, off, n) ==
    [k \in 1 .. n |-> s.data[Addr(s, i, (off + k - 1) \div BSIZE)][(off + k - 1) % BSIZE]]

Larger_always(i, end) == end
Larger(i, end) == IF end > fs.size[i] THEN end ELSE fs.size[i]

BlocksOf(off, n) == {(off + k) \div BSIZE : k \in 0 .. n - 1}

(* What it does to the contents, for the properties.                       *)
Overwritten(was, off, src) ==
    [k \in 1 .. Max({Len(was), off + Len(src)}) |->
        IF k - off \in 1 .. Len(src) THEN src[k - off] ELSE was[k]]

Refuses(i, off, src) == off > fs.size[i] \/ off + Len(src) > MAXFILE * BSIZE

writei_refused(i, off, src) ==
    /\ Refuses(i, off, src)
    /\ UNCHANGED blkVars

writei(i, off, src) ==
    /\ ~Refuses(i, off, src)
    /\ Needed(fs, i, BlocksOf(off, Len(src))) <= Cardinality(Free(fs))  \* else panic
    /\ fs' = [Written(fs, i, off, src) EXCEPT !.size[i] = Larger(i, off + Len(src))]
    /\ content' = [content EXCEPT ![i] = Overwritten(@, off, src)]

-----------------------------------------------------------------------------
(* itrunc, when the last link and reference are gone.                      *)
Indirects(i) == IF fs.addrs[i][NDIRECT] = 0 THEN {}
                ELSE {fs.data[fs.addrs[i][NDIRECT]][j] : j \in 0 .. NINDIRECT - 1} \ {0}

BlocksHeld(i) == ({fs.addrs[i][k] : k \in 0 .. NDIRECT} \ {0}) \cup Indirects(i)

Freed_direct(i) == {fs.addrs[i][k] : k \in 0 .. NDIRECT} \ {0}
Freed(i) == BlocksHeld(i)

itrunc(i) ==
    /\ fs' = [bfree(fs, Freed(i)) EXCEPT !.addrs[i] = NoAddrs, !.size[i] = 0]
    /\ content' = [content EXCEPT ![i] = <<>>]

-----------------------------------------------------------------------------
(* mkfs: iappend takes blocks in order from freeblock; balloc marks them.  *)
Blank == [next |-> nmeta, addrs |-> [i \in Inode |-> NoAddrs], size |-> [i \in Inode |-> 0],
          data |-> [b \in 0 .. FSSIZE - 1 |-> Zeroes]]

Appended(s, i, byte) ==
    LET off == s.size[i] fbn == off \div BSIZE
        t == IF fbn >= NDIRECT /\ s.addrs[i][NDIRECT] = 0
             THEN [s EXCEPT !.addrs[i][NDIRECT] = s.next, !.next = @ + 1] ELSE s
        u == IF Addr(t, i, fbn) # 0 THEN t
             ELSE IF fbn < NDIRECT THEN [t EXCEPT !.addrs[i][fbn] = t.next, !.next = @ + 1]
             ELSE [t EXCEPT !.data[t.addrs[i][NDIRECT]][fbn - NDIRECT] = t.next, !.next = @ + 1]
    IN [u EXCEPT !.data[Addr(u, i, fbn)][off % BSIZE] = byte, !.size[i] = off + 1]

RECURSIVE iappend(_, _, _)
iappend(s, i, src) == IF src = <<>> THEN s ELSE iappend(Appended(s, i, Head(src)), i, Tail(src))

RECURSIVE ImageOf(_, _, _)
ImageOf(s, files, inum) ==
    IF files = <<>> THEN s ELSE ImageOf(iappend(s, inum, Head(files)), Tail(files), inum + 1)

Marked(s) == 0 .. s.next - 1

(* "fix size of root inode dir": up to the end of its last block.          *)
RootSize(off) == ((off \div BSIZE) + 1) * BSIZE
Padded(src) == [k \in 1 .. RootSize(Len(src)) |-> IF k <= Len(src) THEN src[k] ELSE 0]

mkfs(files) ==
    LET s == ImageOf(Blank, files, 1)
    IN [used |-> Marked(s), addrs |-> s.addrs, data |-> s.data,
        size |-> [s.size EXCEPT ![ROOTINO] = RootSize(@)]]

Init == \E files \in ImageFiles :
    /\ fs = mkfs(files)
    /\ content = [i \in Inode |-> IF i = ROOTINO THEN Padded(files[i])
                                  ELSE IF i <= Len(files) THEN files[i] ELSE <<>>]

Next == \E i \in Inode : \/ itrunc(i)
                         \/ \E src \in Sources, off \in 0 .. MAXFILE * BSIZE :
                                writei_refused(i, off, src) \/ writei(i, off, src)

Spec == Init /\ [][Next]_blkVars

-----------------------------------------------------------------------------
(* A read returns what was written last, or what mkfs put there.           *)
ReadsBack == \A i \in Inode :
    fs.size[i] = Len(content[i]) /\ ReadFrom(fs, i, 0, fs.size[i]) = content[i]

(* The bitmap marks the metadata and the blocks of files, and nothing      *)
(* else: no block is lost, and none in use can be given away.              *)
BitmapExact == fs.used = (0 .. nmeta - 1) \cup UNION {BlocksHeld(i) : i \in Inode}

(* No block belongs to two files.                                          *)
NoSharing == \A i, j \in Inode : i # j => BlocksHeld(i) \cap BlocksHeld(j) = {}

(* Every block below size is there: bmap allocates nothing for a read,     *)
(* which fileread does outside a transaction, where log_write panics.      *)
NoHoles == \A i \in Inode : \A bn \in BlocksOf(0, fs.size[i]) : Addr(fs, i, bn) # 0
=============================================================================
