------------------------------ MODULE MCParts ------------------------------
(* The components that share nothing with the others, for TLC: the initial *)
(* state chooses one, and it alone takes steps.  Those that are functions  *)
(* (the shell's parser, grep, names, numbers) take their inputs initially. *)
EXTENDS SpinLocks, Sequences

CONSTANTS
    p1, p2, Reader, INPUT_BUF, Modulus, COLS, ROWS, Sizes,
    c1, c2, t1, t2,
    NDIRECT, BSIZE, FSSIZE, nmeta, Inode, ImageFiles, Sources,
    Core, HeapMax, Units,
    MAXARGS, MaxLine,
    Letter, MaxPattern, MaxText, MaxChunks,
    DIRSIZ, MaxPath,
    Bits,
    p3, f1, f2, f3, NoFrame

VARIABLES
    part,
    buf, r, w, e, pos, reader, killed,
    fs, content,
    ptr, size, freep, brk, owned,
    line,
    pattern, input,
    path, old,
    a, n, sz,
    pc, oncpu, pa, pte_w, child, mem, tmp, free, refcnt

C == INSTANCE Console
B == INSTANCE Blocks
M == INSTANCE Malloc
H == INSTANCE Shell
G == INSTANCE Grep
P == INSTANCE Names
N == INSTANCE Numbers
U == INSTANCE CowSmp WITH
         Proc <- {p1, p2, p3}, InitProc <- p1, Frame <- {f1, f2, f3}, NCPU <- 1, w <- pte_w

conVars == <<buf, r, w, e, pos, reader, killed>>
blkVars == <<fs, content>>
heapVars == <<ptr, size, freep, brk, owned>>
cowVars == <<pc, oncpu, pa, pte_w, child, mem, tmp, free, refcnt>>
inVars == <<line, pattern, input, path, old, a, n, sz>>

(* The first files of the root directory's image and of one file; one is   *)
(* longer than its direct blocks.                                          *)
SomeImages == {<< <<1, 1, 2>>, <<2>> >>, << <<1>>, <<1, 2, 1>> >>}
SomeSources == {<<1, 2, 1>>}

MCInit ==
    /\ part \in {"console", "locks", "blocks", "malloc", "cow", "shell", "grep", "names", "numbers"}
    /\ C!Init /\ Init /\ M!Init
    /\ IF part = "blocks" THEN B!Init ELSE fs = <<>> /\ content = <<>>
    /\ U!Init /\ (part # "cow" => pa[p1] = f1)
    /\ IF part = "shell" THEN H!Init ELSE line = <<>>
    /\ IF part = "grep" THEN G!Init ELSE pattern = <<>> /\ input = <<>>
    /\ IF part = "names" THEN P!Init ELSE path = <<>> /\ old = [k \in 0 .. DIRSIZ - 1 |-> P!nul]
    /\ IF part = "numbers" THEN N!Init ELSE a = 0 /\ n = 0 /\ sz = 0

MCNext ==
    \/ part = "console" /\ C!Next /\ UNCHANGED <<part, spinVars, blkVars, heapVars, cowVars, inVars>>
    \/ part = "locks" /\ Next /\ UNCHANGED <<part, conVars, blkVars, heapVars, cowVars, inVars>>
    \/ part = "blocks" /\ B!Next /\ UNCHANGED <<part, conVars, spinVars, heapVars, cowVars, inVars>>
    \/ part = "malloc" /\ M!Next /\ UNCHANGED <<part, conVars, spinVars, blkVars, cowVars, inVars>>
    \/ part = "cow" /\ U!Next /\ UNCHANGED <<part, conVars, spinVars, blkVars, heapVars, inVars>>
    \/ part \in {"shell", "grep", "names", "numbers"} /\ UNCHANGED <<part, conVars, spinVars, blkVars, heapVars, cowVars, inVars>>

MCSpec == MCInit /\ [][MCNext]_<<part, conVars, spinVars, blkVars, heapVars, cowVars, inVars>>

-----------------------------------------------------------------------------
(* The cursor and the ring of input stay in bounds, a full buffer can be   *)
(* read, and no reader sleeps on entered input or once killed (console.c). *)
ConsoleOK == part = "console" => C!TypeOK /\ C!FullEntered /\ C!ReaderWoken

(* consoleread returns what was entered, in order, each byte once, and a   *)
(* ^D that leaves the buffer ends some read with 0 bytes.                  *)
IsLineQueue == C!IsLineQueue /\ C!EofSeen

(* readi returns what writei or mkfs wrote last.                           *)
ReadsBack == part = "blocks" => B!ReadsBack

(* The bitmap marks the blocks in use and no others, no block belongs to   *)
(* two files, and every block below a file's size is allocated (balloc,    *)
(* bmap, itrunc, mkfs).                                                    *)
BlocksOK == part = "blocks" => B!BitmapExact /\ B!NoSharing /\ B!NoHoles

(* malloc's and the program's blocks cover the heap once, and free joins   *)
(* neighbours (umalloc.c).                                                 *)
HeapOK == part = "malloc" => M!Tiled /\ M!Joined

(* With one processor the unlocked counters of copy-on-write, changed      *)
(* instruction by instruction, never let a page be shared writable or used *)
(* while free, and are exact when the kernel is quiet (copyuvmcow,         *)
(* deallocuvm, pagefault).                                                 *)
UniCow == part = "cow" => U!TypeOK /\ U!NoSharedWritable /\ U!FreeUnused /\ U!CountedWhenQuiet

(* The shell's parser takes the lines of its grammar, and runcmd leaves    *)
(* each process the descriptors it should have (sh.c).                     *)
ShellRight == part = "shell" => H!ParsesGrammar /\ H!EndsInPlace

(* match finds what the pattern means, and grep prints the matching lines, *)
(* wherever reads cut the text (grep.c).                                   *)
GrepRight == part = "grep" => G!MatchRight /\ G!PrintsLines

(* skipelem yields the elements of a path, dirlookup finds the name that   *)
(* dirlink stored and no other (fs.c), memmove copies overlapping ranges   *)
(* (string.c).                                                             *)
NamesRight == part = "names" => P!SkipsRight /\ P!FoundAgain /\ P!MovesRight

(* Arguments that pass fetchint and argptr are in the process (syscall.c), *)
(* and printint prints the number (console.c), at the edges of the word.   *)
NumbersRight == part = "numbers" => N!ArgsInside /\ N!PrintsValue
=============================================================================
