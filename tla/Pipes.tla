------------------------------- MODULE Pipes -------------------------------
(***************************************************************************)
(* Open files and pipes: the file table (file.c), the descriptors of each  *)
(* process (sysfile.c, and fork and exit in proc.c) and pipes (pipe.c).    *)
(*                                                                         *)
(* A step that holds ftable.lock or a pipe's lock is atomic.  A process    *)
(* that has decided to sleep still holds the pipe's lock ("rwait",         *)
(* "wwait"); only kill can come in between.                                *)
(***************************************************************************)
EXTENDS Integers, Sequences, FiniteSets, SequencesExt, FiniteSetsExt

CONSTANTS
    Proc, InitProc,
    NFILE,     \* entries of ftable
    NOFILE,    \* descriptors of a process
    Pipe,      \* the pages kalloc has for pipes
    PIPESIZE,
    Modulus,   \* nread and nwrite are unsigned: they wrap (2^32 in the code)
    Byte,
    Messages,  \* bound: what the programs write
    Sizes,     \* bound: the lengths they read with
    None

ASSUME PipesAssumption ==
    /\ InitProc \in Proc
    /\ NFILE \in Nat /\ NOFILE \in Nat /\ PIPESIZE \in Nat \ {0}
    /\ Messages \subseteq Seq(Byte) /\ Sizes \subseteq Nat
    /\ Modulus \in Nat /\ Modulus > PIPESIZE /\ Modulus % PIPESIZE = 0
    /\ None \notin Proc \cup Pipe \cup Nat \cup {"r", "w"}

File == 1 .. NFILE
Fd == 0 .. NOFILE - 1

VARIABLES
    ref, end,      \* f->ref; the end of a pipe f is, None for other types
    fpipe,         \* f->pipe
    ofile,         \* p->ofile
    inuse,         \* the pages that are pipes
    nread, nwrite, data, readopen, writeopen,
    pc, killed,
    tmp,           \* rf and wf of sys_pipe
    closing,       \* the files a process is about to fileclose
    ff,            \* fileclose's copy of the file whose last reference went
    cur,           \* the file of a read or write
    todo,          \* what is still to be written
    got            \* what a read has returned and the program not yet used

files == <<ref, end, fpipe, ofile>>
pipes == <<inuse, nread, nwrite, data, readopen, writeopen>>
calls == <<tmp, closing, ff, cur, todo, got>>
vars == <<files, pipes, pc, killed, calls>>

At(p, l) == pc[p] = l
Calls(p) == At(p, "run") /\ ~killed[p] /\ got[p] = <<>>
Goto(p, l) == pc' = [pc EXCEPT ![p] = l]

(* What is in a page nobody has written.                                   *)
Blank == [i \in 0 .. PIPESIZE - 1 |-> CHOOSE y \in Byte : TRUE]

(* The pipe of p's read or write, and whether its lock is held.            *)
PipeOf(p) == fpipe[cur[p]]
Locked(x) == \E p \in Proc : pc[p] \in {"rwait", "wwait"} /\ PipeOf(p) = x
Asleep(p, l, x) == pc[p] = l /\ PipeOf(p) = x

(* wakeup(&p->nread) and wakeup(&p->nwrite).                               *)
Readers(x) == [p \in Proc |-> IF Asleep(p, "rsleep", x) THEN "read" ELSE pc[p]]
Writers(x) == [p \in Proc |-> IF Asleep(p, "wsleep", x) THEN "write" ELSE pc[p]]

-----------------------------------------------------------------------------
(* filealloc takes the first free entry.                                   *)
FreeFiles == {f \in File : ref[f] = 0}

filealloc(p) ==
    /\ ref' = [ref EXCEPT ![Min(FreeFiles)] = 1]
    /\ tmp' = [tmp EXCEPT ![p] = Append(@, Min(FreeFiles))]

(* The files in s are to be closed, one fileclose after the other.         *)
Undo(p, s) ==
    /\ closing' = [closing EXCEPT ![p] = s]
    /\ tmp' = [tmp EXCEPT ![p] = <<>>]
    /\ Goto(p, "close")

(* pipealloc: two files, ...                                               *)
pipealloc_file(p) ==
    /\ Calls(p) \/ At(p, "pipe")
    /\ Len(tmp[p]) < 2
    /\ \/ /\ FreeFiles # {}
          /\ filealloc(p)
          /\ Goto(p, "pipe")
          /\ UNCHANGED closing
       \/ /\ FreeFiles = {} /\ tmp[p] # <<>>
          /\ Undo(p, tmp[p])
          /\ UNCHANGED ref
    /\ UNCHANGED <<end, fpipe, ofile, pipes, killed, ff, cur, todo, got>>

(* ... then a page; kalloc may have none.                                  *)
pipealloc(p) ==
    /\ At(p, "pipe")
    /\ Len(tmp[p]) = 2
    /\ \/ /\ Undo(p, tmp[p])
          /\ UNCHANGED <<end, fpipe, pipes>>
       \/ \E x \in Pipe \ inuse :
          /\ inuse' = inuse \cup {x}
          /\ nread' = [nread EXCEPT ![x] = 0] /\ nwrite' = [nwrite EXCEPT ![x] = 0]
          /\ readopen' = [readopen EXCEPT ![x] = TRUE]
          /\ writeopen' = [writeopen EXCEPT ![x] = TRUE]
          /\ end' = [end EXCEPT ![tmp[p][1]] = "r", ![tmp[p][2]] = "w"]
          /\ fpipe' = [fpipe EXCEPT ![tmp[p][1]] = x, ![tmp[p][2]] = x]
          /\ Goto(p, "fdalloc")
          /\ UNCHANGED <<data, closing, tmp>>
    /\ UNCHANGED <<ref, ofile, killed, ff, cur, todo, got>>

(* fdalloc takes the first free descriptor.                                *)
FreeFds(p) == {d \in Fd : ofile[p][d] = None}

(* The rest of sys_pipe.                                                   *)
sys_pipe(p) ==
    /\ At(p, "fdalloc")
    /\ \/ /\ Cardinality(FreeFds(p)) < 2
          /\ Undo(p, tmp[p])
          /\ UNCHANGED ofile
       \/ /\ Cardinality(FreeFds(p)) >= 2
          /\ LET d == Min(FreeFds(p)) e == Min(FreeFds(p) \ {d}) IN
             ofile' = [ofile EXCEPT ![p][d] = tmp[p][1], ![p][e] = tmp[p][2]]
          /\ tmp' = [tmp EXCEPT ![p] = <<>>]
          /\ Goto(p, "run")
          /\ UNCHANGED closing
    /\ UNCHANGED <<ref, end, fpipe, pipes, killed, ff, cur, todo, got>>

(* sys_dup: fdalloc and filedup.                                           *)
sys_dup(p, d) ==
    /\ Calls(p)
    /\ ofile[p][d] # None /\ FreeFds(p) # {}
    /\ ofile' = [ofile EXCEPT ![p][Min(FreeFds(p))] = ofile[p][d]]
    /\ ref' = [ref EXCEPT ![ofile[p][d]] = @ + 1]
    /\ UNCHANGED <<end, fpipe, pipes, pc, killed, calls>>

sys_close(p, d) ==
    /\ Calls(p)
    /\ ofile[p][d] # None
    /\ ofile' = [ofile EXCEPT ![p][d] = None]
    /\ closing' = [closing EXCEPT ![p] = <<ofile[p][d]>>]
    /\ Goto(p, "close")
    /\ UNCHANGED <<ref, end, fpipe, pipes, killed, tmp, ff, cur, todo, got>>

(* fork: the child gets the descriptors, with a filedup for each.  (A name *)
(* with a suffix is a slip in the definition after it.)                    *)
Copies(p, f) == Cardinality({d \in Fd : ofile[p][d] = f})
Duplicated(p) == [f \in File |-> ref[f] + Copies(p, f)]

fork(p, c) ==
    /\ Calls(p)
    /\ At(c, "none")
    /\ ofile' = [ofile EXCEPT ![c] = ofile[p]]
    /\ ref' = Duplicated(p)
    /\ Goto(c, "run")
    /\ UNCHANGED <<end, fpipe, pipes, killed, calls>>

(* exit closes every open descriptor.                                      *)
OpenFiles(p) == SelectSeq([i \in 1 .. NOFILE |-> ofile[p][i - 1]], LAMBDA f : f # None)

exit(p) ==
    /\ At(p, "run") /\ p # InitProc
    /\ closing' = [closing EXCEPT ![p] = OpenFiles(p)]
    /\ ofile' = [ofile EXCEPT ![p] = [d \in Fd |-> None]]
    /\ got' = [got EXCEPT ![p] = <<>>]
    /\ Goto(p, "exit")
    /\ UNCHANGED <<ref, end, fpipe, pipes, killed, tmp, ff, cur, todo>>

(* The table entry of an exited process is used again after wait.          *)
exited(p) ==
    /\ At(p, "exit")
    /\ closing[p] = <<>> /\ ff[p] = None
    /\ killed' = [killed EXCEPT ![p] = FALSE]
    /\ Goto(p, "none")
    /\ UNCHANGED <<files, pipes, calls>>

-----------------------------------------------------------------------------
(* fileclose: with ftable.lock, and, when that was the last reference,     *)
(* pipeclose after it.                                                     *)
LastRef(f) == ref[f] = 1

fileclose(p) ==
    /\ pc[p] \in {"close", "exit"}
    /\ closing[p] # <<>> /\ ff[p] = None
    /\ LET f == Head(closing[p]) IN
        /\ ref' = [ref EXCEPT ![f] = @ - 1]
        /\ end' = IF LastRef(f) THEN [end EXCEPT ![f] = None] ELSE end
        /\ ff' = [ff EXCEPT ![p] =
                    IF LastRef(f) /\ end[f] # None THEN [pipe |-> fpipe[f], end |-> end[f]] ELSE None]
        /\ fpipe' = IF LastRef(f) THEN [fpipe EXCEPT ![f] = None] ELSE fpipe
    /\ closing' = [closing EXCEPT ![p] = Tail(@)]
    /\ UNCHANGED <<ofile, pipes, pc, killed, tmp, cur, todo, got>>

WokenByClose_none(x, e) == pc
WokenByClose(x, e) == IF e = "w" THEN Readers(x) ELSE Writers(x)
BothClosed_either(x) == ~readopen'[x] \/ ~writeopen'[x]
BothClosed(x) == ~readopen'[x] /\ ~writeopen'[x]

(* A free page has nothing worth telling apart.                            *)
kfree(x) ==
    /\ inuse' = inuse \ {x}
    /\ nread' = [nread EXCEPT ![x] = 0] /\ nwrite' = [nwrite EXCEPT ![x] = 0]
    /\ data' = [data EXCEPT ![x] = Blank]

pipeclose(p) ==
    /\ ff[p] # None
    /\ LET x == ff[p].pipe IN
        /\ ~Locked(x)
        /\ writeopen' = IF ff[p].end = "w" THEN [writeopen EXCEPT ![x] = FALSE] ELSE writeopen
        /\ readopen' = IF ff[p].end = "r" THEN [readopen EXCEPT ![x] = FALSE] ELSE readopen
        /\ pc' = WokenByClose(x, ff[p].end)
        /\ IF BothClosed(x) THEN kfree(x) ELSE UNCHANGED <<inuse, nread, nwrite, data>>
    /\ ff' = [ff EXCEPT ![p] = None]
    /\ UNCHANGED <<files, killed, tmp, closing, cur, todo, got>>

sys_close_returns(p) ==
    /\ At(p, "close")
    /\ closing[p] = <<>> /\ ff[p] = None
    /\ Goto(p, "run")
    /\ UNCHANGED <<files, pipes, killed, calls>>
-----------------------------------------------------------------------------
(* sys_read and sys_write on the end that allows it; elsewhere they return *)
(* -1 at once.                                                             *)
sys_read(p, d) ==
    /\ Calls(p)
    /\ ofile[p][d] # None /\ end[ofile[p][d]] = "r"
    /\ cur' = [cur EXCEPT ![p] = ofile[p][d]]
    /\ Goto(p, "read")
    /\ UNCHANGED <<files, pipes, killed, tmp, closing, ff, todo, got>>

sys_write(p, d, s) ==
    /\ Calls(p)
    /\ ofile[p][d] # None /\ end[ofile[p][d]] = "w"
    /\ cur' = [cur EXCEPT ![p] = ofile[p][d]]
    /\ todo' = [todo EXCEPT ![p] = s]
    /\ Goto(p, "write")
    /\ UNCHANGED <<files, pipes, killed, tmp, closing, ff, got>>

(* The program does with the bytes what it likes.                          *)
uses(p) ==
    /\ At(p, "run") /\ got[p] # <<>>
    /\ got' = [got EXCEPT ![p] = <<>>]
    /\ UNCHANGED <<files, pipes, pc, killed, tmp, closing, ff, cur, todo>>

(* Unsigned arithmetic, and the bytes in the buffer.                       *)
Wrapped(n) == n % Modulus
Count(x) == (nwrite[x] - nread[x]) % Modulus
Full(x) == nwrite[x] = (nread[x] + PIPESIZE) % Modulus

(* Bytes that have been read are not told apart.                           *)
Forgotten(x, n) ==
    [i \in 0 .. PIPESIZE - 1 |-> IF (i - nread[x]) % PIPESIZE < n THEN Blank[i] ELSE data[x][i]]

(* One round of piperead: with bytes, or after the last writer has gone,   *)
(* read what there is; else get ready to sleep.                            *)
Waits(x) == nread[x] = nwrite[x] /\ writeopen[x]

Returned(p) == cur' = [cur EXCEPT ![p] = None]

piperead(p, want) ==
    /\ At(p, "read")
    /\ ~Locked(PipeOf(p))
    /\ LET x == PipeOf(p) n == Min({want, Count(x)}) IN
       \/ /\ Waits(x)
          /\ Goto(p, IF killed[p] THEN "run" ELSE "rwait")
          /\ IF killed[p] THEN Returned(p) ELSE UNCHANGED cur
          /\ UNCHANGED <<nread, data, got>>
       \/ /\ ~Waits(x)
          /\ got' = [got EXCEPT ![p] = [i \in 1 .. n |-> data[x][(nread[x] + i - 1) % PIPESIZE]]]
          /\ nread' = [nread EXCEPT ![x] = Wrapped(@ + n)]
          /\ data' = [data EXCEPT ![x] = Forgotten(x, n)]
          /\ pc' = [Writers(x) EXCEPT ![p] = "run"]
          /\ Returned(p)
    /\ UNCHANGED <<files, inuse, nwrite, readopen, writeopen, killed, tmp, closing, ff, todo>>

(* One round of pipewrite: fill the buffer; if that was not all, give up   *)
(* or get ready to sleep, with the readers woken.                          *)
Stored(x, s, n) ==
    [i \in 0 .. PIPESIZE - 1 |->
        LET k == (i - nwrite[x]) % PIPESIZE IN IF k < n THEN s[k + 1] ELSE data[x][i]]

Room_one(x) == PIPESIZE + 1 - Count(x)
Room(x) == PIPESIZE - Count(x)

pipewrite(p) ==
    /\ At(p, "write")
    /\ ~Locked(PipeOf(p))
    /\ LET x == PipeOf(p)
           n == Min({Len(todo[p]), Room(x)})
           rest == SubSeq(todo[p], n + 1, Len(todo[p])) IN
        /\ data' = [data EXCEPT ![x] = Stored(x, todo[p], n)]
        /\ nwrite' = [nwrite EXCEPT ![x] = Wrapped(@ + n)]
        /\ \/ /\ rest = <<>>
              /\ pc' = [Readers(x) EXCEPT ![p] = "run"]
              /\ todo' = [todo EXCEPT ![p] = <<>>]
              /\ Returned(p)
           \/ /\ rest # <<>> /\ (~readopen[x] \/ killed[p])
              /\ Goto(p, "run")
              /\ todo' = [todo EXCEPT ![p] = <<>>]
              /\ Returned(p)
           \/ /\ rest # <<>> /\ readopen[x] /\ ~killed[p]
              /\ pc' = [Readers(x) EXCEPT ![p] = "wwait"]
              /\ todo' = [todo EXCEPT ![p] = rest]
              /\ UNCHANGED cur
    /\ UNCHANGED <<files, inuse, nread, readopen, writeopen, killed, tmp, closing, ff, got>>

(* sleep(): the pipe's lock is given up.                                   *)
sleep(p) ==
    /\ \/ At(p, "rwait") /\ Goto(p, "rsleep")
       \/ At(p, "wwait") /\ Goto(p, "wsleep")
    /\ UNCHANGED <<files, pipes, killed, calls>>

(* kill wakes a sleeper; one that is about to sleep goes to sleep.  To a   *)
(* process that does not read or write it is an exit like any other.       *)
kill(p) ==
    /\ p # InitProc /\ pc[p] \in {"read", "write", "rwait", "wwait", "rsleep", "wsleep"}
    /\ ~killed[p]
    /\ killed' = [killed EXCEPT ![p] = TRUE]
    /\ pc' = [pc EXCEPT ![p] =
                IF @ = "rsleep" THEN "read" ELSE IF @ = "wsleep" THEN "write" ELSE @]
    /\ UNCHANGED <<files, pipes, calls>>

-----------------------------------------------------------------------------
(* The first process has the console open (init.c:16-20).                  *)
Init ==
    /\ ref = [f \in File |-> IF f = 1 THEN 1 ELSE 0] /\ end = [f \in File |-> None]
    /\ fpipe = [f \in File |-> None]
    /\ ofile = [p \in Proc |-> [d \in Fd |-> IF p = InitProc /\ d = 0 THEN 1 ELSE None]]
    /\ inuse = {}
    /\ nread = [x \in Pipe |-> 0] /\ nwrite = [x \in Pipe |-> 0]
    /\ data = [x \in Pipe |-> Blank]
    /\ readopen = [x \in Pipe |-> FALSE] /\ writeopen = [x \in Pipe |-> FALSE]
    /\ pc = [p \in Proc |-> IF p = InitProc THEN "run" ELSE "none"]
    /\ killed = [p \in Proc |-> FALSE]
    /\ tmp = [p \in Proc |-> <<>>] /\ closing = [p \in Proc |-> <<>>]
    /\ ff = [p \in Proc |-> None] /\ cur = [p \in Proc |-> None]
    /\ todo = [p \in Proc |-> <<>>]
    /\ got = [p \in Proc |-> <<>>]

Next ==
    \E p \in Proc :
        \/ pipealloc_file(p) \/ pipealloc(p) \/ sys_pipe(p) \/ exit(p) \/ exited(p)
        \/ fileclose(p) \/ pipeclose(p) \/ sys_close_returns(p)
        \/ pipewrite(p) \/ \E n \in Sizes : piperead(p, n)
        \/ sleep(p) \/ kill(p) \/ uses(p)
        \/ \E c \in Proc : fork(p, c)
        \/ \E d \in Fd :
            \/ sys_dup(p, d) \/ sys_close(p, d) \/ sys_read(p, d)
            \/ \E s \in Messages : sys_write(p, d, s)

Spec == Init /\ [][Next]_vars

-----------------------------------------------------------------------------
(* The types of struct file and struct pipe.                               *)
TypeOK ==
    /\ ref \in [File -> Nat]
    /\ end \in [File -> {"r", "w", None}] /\ fpipe \in [File -> Pipe \cup {None}]
    /\ ofile \in [Proc -> [Fd -> File \cup {None}]]
    /\ inuse \subseteq Pipe
    /\ nread \in [Pipe -> 0 .. Modulus - 1] /\ nwrite \in [Pipe -> 0 .. Modulus - 1]
    /\ data \in [Pipe -> [0 .. PIPESIZE - 1 -> Byte]]
    /\ readopen \in [Pipe -> BOOLEAN] /\ writeopen \in [Pipe -> BOOLEAN]
    /\ pc \in [Proc -> {"none", "run", "pipe", "fdalloc", "close", "exit", "read", "write",
                        "rwait", "wwait", "rsleep", "wsleep"}]
    /\ killed \in [Proc -> BOOLEAN]

(* f->ref counts the descriptors and the calls that hold f, so neither     *)
(* panic of file.c is reachable and no entry of ftable is handed out twice *)
(* (file.c:33, 48, 62).                                                    *)
Held(f, s, n) == Cardinality({<<p, i>> \in Proc \X (1 .. n) : i \in DOMAIN s[p] /\ s[p][i] = f})
RefsExact ==
    \A f \in File :
        ref[f] = Cardinality({<<p, d>> \in Proc \X Fd : ofile[p][d] = f})
                 + Held(f, tmp, 2) + Held(f, closing, NOFILE)

(* A pipe's page is freed when the last file of its second end is closed,  *)
(* neither before, under a process that reads or writes, nor never         *)
(* (pipe.c:70).                                                            *)
EndOpen(x, e) ==
    \/ \E f \in File : end[f] = e /\ fpipe[f] = x
    \/ \E p \in Proc : ff[p] = [pipe |-> x, end |-> e]
PipeLives ==
    \A x \in Pipe :
        /\ x \in inuse <=> EndOpen(x, "r") \/ EndOpen(x, "w")
        /\ x \in inuse => readopen[x] = EndOpen(x, "r") /\ writeopen[x] = EndOpen(x, "w")

(* No struct file and no pipe is lost or freed early, whatever calls       *)
(* overlap or fail half way (file.c, pipe.c:53-76, sys_pipe).              *)
FilesOK == TypeOK /\ RefsExact /\ PipeLives

(* The two ends never wait for each other, and nobody sleeps for an end    *)
(* that is closed (pipe.c:64-68, 90-118).  A reader sleeps because the     *)
(* pipe is empty, or, since a writer that is killed returns without a      *)
(* wakeup (pipe.c:86-88), while it is full: then the next writer wakes it. *)
SleepersRight ==
    \A p \in Proc :
        /\ pc[p] = "rsleep" =>
            writeopen[PipeOf(p)] /\ (Count(PipeOf(p)) = 0 \/ Full(PipeOf(p)))
        /\ pc[p] = "wsleep" =>
            /\ readopen[PipeOf(p)] /\ Full(PipeOf(p))
            /\ ~\E r \in Proc : Asleep(r, "rsleep", PipeOf(p))

Queue == INSTANCE ByteQueue WITH
    q <- [x \in Pipe |-> [i \in 1 .. Count(x) |-> data[x][(nread[x] + i - 1) % PIPESIZE]]],
    using <- [p \in Proc |-> IF cur[p] = None THEN None ELSE PipeOf(p)],
    Size <- PIPESIZE

(* Whatever forks, closes and kills come in between, and although nread    *)
(* and nwrite wrap, the bytes of a pipe come out in order and once         *)
(* (pipe.c:85-116).                                                        *)
IsQueue == Queue!Spec
=============================================================================
