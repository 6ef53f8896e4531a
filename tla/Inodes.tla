------------------------------- MODULE Inodes -------------------------------
(***************************************************************************)
(* I-nodes, directories and path names: the i-node cache and the path walk *)
(* of fs.c under the calls of sysfile.c: open, close, link, unlink, mkdir, *)
(* mknod and chdir of several processes.                                   *)
(*                                                                         *)
(* A step is what happens between two points where a process may sleep or  *)
(* another may come in.  Code that takes an i-node's lock, decides and     *)
(* lets it go again without taking another is one step; where a lock is    *)
(* kept while a second is taken, lock says so.  The blocks of a file are   *)
(* in Blocks; the log is in Log.                                           *)
(***************************************************************************)
EXTENDS Integers, Sequences, FiniteSets, FiniteSetsExt

CONSTANTS
    Proc,
    NInum,    \* sb.ninodes - 1: ialloc takes i-nodes 1 .. NInum
    NINODE,   \* entries of icache
    Name,     \* names of directory entries, "." and ".." among them
    Program,  \* the calls each process may make
    None      \* no slot, no holder

ASSUME InodesAssumption ==
    /\ NInum \in Nat \ {0} /\ NINODE \in Nat
    /\ {".", ".."} \subseteq Name
    /\ None \notin Proc \cup Nat

Inum == 1 .. NInum
Slot == 1 .. NINODE
ROOTINO == 1

VARIABLES
    dinode,   \* the i-nodes on disk: type and nlink
    ent,      \* the entries of each directory; 0 for none
    icache,   \* inum, ref, valid, lock and the cached type and nlink
    cwd, file,  \* the references a process keeps: one open file each
    pc, reg,  \* where a process is, and its local variables
    panicked

vars == <<dinode, ent, icache, cwd, file, pc, reg, panicked>>
disk == <<dinode, ent>>
proc == <<cwd, file>>

NoEnt == [n \in Name |-> 0]
Fresh == [op |-> "none", new |-> <<>>, path |-> <<>>, parent |-> FALSE, then |-> "idle", fail |-> "idle",
          ip |-> None, old |-> None, put |-> None, ret |-> "idle"]
At(p, l) == panicked = "no" /\ pc[p] = l
Goto(p, l) == pc' = [pc EXCEPT ![p] = l]
Unlocked(s) == icache[s].lock = None

-----------------------------------------------------------------------------
(* iget: the entry of inum, or a free one, which it resets.  Without one   *)
(* it panics.  (A name with a suffix is a slip in the definition after     *)
(* it.)                                                                    *)
CachedAs(ic, i) == {s \in Slot : ic[s].ref > 0 /\ ic[s].inum = i}
Empty(ic) == {s \in Slot : ic[s].ref = 0}

SlotFor(ic, i) == Min(IF CachedAs(ic, i) # {} THEN CachedAs(ic, i)
                      ELSE IF Empty(ic) # {} THEN Empty(ic) ELSE Slot)
NoSlot(ic, i) == CachedAs(ic, i) = {} /\ Empty(ic) = {}

Blank(i, l) == [inum |-> i, ref |-> 1, valid |-> FALSE, lock |-> l, type |-> "free", nlink |-> 0]
iget(ic, i) ==
    IF CachedAs(ic, i) # {} THEN [ic EXCEPT ![SlotFor(ic, i)].ref = @ + 1]
    ELSE [ic EXCEPT ![SlotFor(ic, i)] = Blank(i, @.lock)]

idup(ic, s) == [ic EXCEPT ![s].ref = @ + 1]

(* What ilock makes of an entry: read from the disk if it is not valid.    *)
ilock(ic, s) ==
    IF ic[s].valid THEN ic
    ELSE [ic EXCEPT ![s].valid = TRUE, ![s].type = dinode[ic[s].inum].type,
                    ![s].nlink = dinode[ic[s].inum].nlink]
NoType(ic, s) == ilock(ic, s)[s].type = "free"

NoTypePanic(s) == panicked' = IF NoType(icache, s) THEN "ilock: no type" ELSE panicked

(* A change of nlink and the iupdate after it.                             *)
Linked(ic, s, d) == [ic EXCEPT ![s].nlink = @ + d]
iupdate(ic, s) == [dinode EXCEPT ![ic[s].inum] = [type |-> ic[s].type, nlink |-> ic[s].nlink]]

(* ialloc: the first i-node that is free on the disk.                      *)
Unused == {i \in Inum : dinode[i].type = "free"}

iunlock(s) == [icache EXCEPT ![s].lock = None]

dirlookup(ic, s, n) == ent[ic[s].inum][n]
isdirempty(i) == \A n \in Name \ {".", ".."} : ent[i][n] = 0

(* Go on with iput(s) and then to l.                                       *)
Put(p, s, l) == [reg[p] EXCEPT !.put = s, !.ret = l]
Keep(p, r) == reg' = [reg EXCEPT ![p] = r]

-----------------------------------------------------------------------------
(* iput: with the lock, is this the last reference to an i-node without    *)
(* links?  If so free it; the lock is given up before ref is lowered.      *)
LastOne_shared(s) == icache[s].valid /\ icache[s].nlink = 0
LastOne(s) == icache[s].valid /\ icache[s].nlink = 0 /\ icache[s].ref = 1

iput(p) ==
    /\ At(p, "iput") /\ Unlocked(reg[p].put)
    /\ \/ /\ LastOne(reg[p].put)
          /\ icache' = [icache EXCEPT ![reg[p].put].lock = p]
          /\ Goto(p, "iput_free")
       \/ /\ ~LastOne(reg[p].put)
          /\ Goto(p, "iput_ref")
          /\ UNCHANGED icache
    /\ UNCHANGED <<disk, proc, reg, panicked>>

(* itrunc, type = 0 and iupdate.                                           *)
iput_free(p) ==
    /\ At(p, "iput_free")
    /\ LET i == icache[reg[p].put].inum IN
        /\ dinode' = [dinode EXCEPT ![i] = [type |-> "free", nlink |-> 0]]
        /\ ent' = [ent EXCEPT ![i] = NoEnt]
    /\ Goto(p, "iput_invalid")
    /\ UNCHANGED <<icache, proc, reg, panicked>>

Invalid_kept(s) == [icache EXCEPT ![s].lock = None, ![s].type = "free"]
Invalid(s) == [icache EXCEPT ![s].valid = FALSE, ![s].lock = None, ![s].type = "free"]

iput_invalid(p) ==
    /\ At(p, "iput_invalid")
    /\ icache' = Invalid(reg[p].put)
    /\ Goto(p, "iput_ref")
    /\ UNCHANGED <<disk, proc, reg, panicked>>

Dropped(s) == [icache EXCEPT ![s].ref = @ - 1]

iput_ref(p) ==
    /\ At(p, "iput_ref")
    /\ icache' = Dropped(reg[p].put)
    /\ Keep(p, IF reg[p].ret = "idle" THEN Fresh ELSE [reg[p] EXCEPT !.put = None, !.ret = "idle"])
    /\ Goto(p, reg[p].ret)
    /\ UNCHANGED <<disk, proc, panicked>>

-----------------------------------------------------------------------------
(* A path is a sequence of names, with "/" first when it is absolute.      *)
skipelem_not(path) == path
skipelem(path) == Tail(path)
Absolute(path) == path # <<>> /\ Head(path) = "/"
Start(p, ic, path) == IF Absolute(path) THEN SlotFor(ic, ROOTINO) ELSE cwd[p]
Started(p, ic, path) == IF Absolute(path) THEN iget(ic, ROOTINO) ELSE idup(ic, cwd[p])

(* namex(path, parent): ends at "then" with the i-node in ip, or at "fail" *)
Walk(p, r, ic, path, parent, then, fail) ==
    [r EXCEPT !.ip = Start(p, ic, path), !.path = IF Absolute(path) THEN Tail(path) ELSE path,
              !.parent = parent, !.then = then, !.fail = fail]

(* The entry looked up next, in an i-node that is being locked.            *)
Want(p) == dirlookup(icache, reg[p].ip, Head(reg[p].path))
LookupPanic(p, i) ==
    panicked' = IF NoType(icache, reg[p].ip) THEN "ilock: no type"
                ELSE IF i # 0 /\ NoSlot(icache, i) THEN "iget: no inodes" ELSE panicked

(* One round of its loop.                                                  *)
namex(p) ==
    LET r == reg[p] ip == r.ip ic == ilock(icache, ip) IN
    /\ At(p, "namex")
    /\ \/ /\ r.path = <<>> /\ ~r.parent
          /\ Goto(p, r.then)
          /\ UNCHANGED <<icache, reg, panicked>>
       \/ /\ r.path = <<>> /\ r.parent
          /\ Keep(p, Put(p, ip, r.fail))
          /\ Goto(p, "iput")
          /\ UNCHANGED <<icache, panicked>>
       \/ /\ r.path # <<>> /\ Unlocked(ip) /\ NoTypePanic(ip)
          /\ ic[ip].type = "dir" /\ r.parent /\ Len(r.path) = 1
          /\ icache' = ic
          /\ Goto(p, r.then)
          /\ UNCHANGED reg
       \/ /\ r.path # <<>> /\ Unlocked(ip) /\ LookupPanic(p, Want(p))
          /\ ~(r.parent /\ Len(r.path) = 1)
          /\ ic[ip].type = "dir" /\ Want(p) # 0
          /\ icache' = iget(ic, Want(p))
          /\ Keep(p, [Put(p, ip, "namex") EXCEPT !.ip = SlotFor(ic, Want(p)), !.path = skipelem(@)])
          /\ Goto(p, "iput")
       \/ /\ r.path # <<>> /\ Unlocked(ip) /\ NoTypePanic(ip)
          /\ ic[ip].type # "dir" \/ (~(r.parent /\ Len(r.path) = 1) /\ Want(p) = 0)
          /\ icache' = ic
          /\ Keep(p, Put(p, ip, r.fail))
          /\ Goto(p, "iput")
    /\ UNCHANGED <<disk, proc>>

-----------------------------------------------------------------------------
(* A system call begins, in begin_op, with the walk of its path.           *)
Then(op) ==
    CASE op \in {"open", "chdir", "link"} -> op
      [] op = "unlink" -> "unlink"
      [] op \in {"create", "mkdir", "mknod"} -> "create"

syscall(p, c) ==
    /\ At(p, "idle") /\ c \in Program[p]
    /\ icache' = Started(p, icache, c.path)
    /\ Keep(p, Walk(p, [reg[p] EXCEPT !.op = c.op, !.new = c.new], icache, c.path,
                    Then(c.op) \in {"unlink", "create"}, Then(c.op), "idle"))
    /\ Goto(p, "namex")
    /\ UNCHANGED <<disk, proc, panicked>>

(* sys_open of what is there.  The process has room for one open file.     *)
sys_open(p) ==
    LET ip == reg[p].ip IN
    /\ At(p, "open") /\ Unlocked(ip) /\ NoTypePanic(ip)
    /\ icache' = ilock(icache, ip)
    /\ \/ /\ file[p] = None
          /\ file' = [file EXCEPT ![p] = ip]
          /\ Keep(p, Fresh)
          /\ Goto(p, "idle")
       \/ /\ file[p] # None \/ ilock(icache, ip)[ip].type = "dir"
          /\ Keep(p, Put(p, ip, "idle"))
          /\ Goto(p, "iput")
          /\ UNCHANGED file
    /\ UNCHANGED <<disk, cwd>>

sys_close(p) ==
    /\ At(p, "idle") /\ file[p] # None
    /\ Keep(p, Put(p, file[p], "idle"))
    /\ file' = [file EXCEPT ![p] = None]
    /\ Goto(p, "iput")
    /\ UNCHANGED <<disk, icache, cwd, panicked>>

sys_chdir(p) ==
    LET ip == reg[p].ip IN
    /\ At(p, "chdir") /\ Unlocked(ip) /\ NoTypePanic(ip)
    /\ icache' = ilock(icache, ip)
    /\ Keep(p, IF ilock(icache, ip)[ip].type = "dir" THEN Put(p, cwd[p], "chdir_set")
               ELSE Put(p, ip, "idle"))
    /\ Goto(p, "iput")
    /\ UNCHANGED <<disk, proc>>

sys_chdir_set(p) ==
    /\ At(p, "chdir_set")
    /\ cwd' = [cwd EXCEPT ![p] = reg[p].ip]
    /\ Keep(p, Fresh)
    /\ Goto(p, "idle")
    /\ UNCHANGED <<disk, icache, file, panicked>>

-----------------------------------------------------------------------------
(* sys_link: nlink is raised before the new name is walked.                *)
Walk2(p, ic) == Walk(p, [reg[p] EXCEPT !.old = reg[p].ip], ic, reg[p].new, TRUE, "link_dp", "link_bad")

sys_link(p) ==
    LET ip == reg[p].ip ic == Linked(ilock(icache, ip), ip, 1) IN
    /\ At(p, "link") /\ Unlocked(ip) /\ NoTypePanic(ip)
    /\ \/ /\ ilock(icache, ip)[ip].type = "dir"
          /\ icache' = ilock(icache, ip)
          /\ Keep(p, Put(p, ip, "idle"))
          /\ Goto(p, "iput")
          /\ UNCHANGED dinode
       \/ /\ ilock(icache, ip)[ip].type # "dir"
          /\ dinode' = iupdate(ic, ip)
          /\ icache' = Started(p, ic, reg[p].new)
          /\ Keep(p, Walk2(p, ic))
          /\ Goto(p, "namex")
    /\ UNCHANGED <<ent, proc>>

(* dirlink: a name that exists is put again, with dp locked.               *)
sys_link_dp(p) ==
    LET r == reg[p] dp == r.ip ic == ilock(icache, dp) IN
    /\ At(p, "link_dp") /\ Unlocked(dp) /\ LookupPanic(p, Want(p))
    /\ \/ /\ Want(p) # 0
          /\ icache' = [iget(ic, Want(p)) EXCEPT ![dp].lock = p]
          /\ Keep(p, Put(p, SlotFor(ic, Want(p)), "link_exists"))
          /\ UNCHANGED ent
       \/ /\ Want(p) = 0
          /\ icache' = ic
          /\ ent' = [ent EXCEPT ![ic[dp].inum][Head(r.path)] = ic[r.old].inum]
          /\ Keep(p, Put(p, dp, "link_done"))
    /\ Goto(p, "iput")
    /\ UNCHANGED <<dinode, proc>>

sys_link_exists(p) ==
    /\ At(p, "link_exists")
    /\ icache' = iunlock(reg[p].ip)
    /\ Keep(p, Put(p, reg[p].ip, "link_bad"))
    /\ Goto(p, "iput")
    /\ UNCHANGED <<disk, proc, panicked>>

sys_link_done(p) ==
    /\ At(p, "link_done")
    /\ Keep(p, Put(p, reg[p].old, "idle"))
    /\ Goto(p, "iput")
    /\ UNCHANGED <<disk, icache, proc, panicked>>

Unlinked(ic, s) == Linked(ic, s, -1)

sys_link_bad(p) ==
    LET ip == reg[p].old ic == Unlinked(ilock(icache, ip), ip) IN
    /\ At(p, "link_bad") /\ Unlocked(ip) /\ NoTypePanic(ip)
    /\ icache' = ic
    /\ dinode' = iupdate(ic, ip)
    /\ Keep(p, Put(p, ip, "idle"))
    /\ Goto(p, "iput")
    /\ UNCHANGED <<ent, proc>>

-----------------------------------------------------------------------------
(* sys_unlink, with dp locked, ...                                         *)
sys_unlink(p) ==
    LET r == reg[p] dp == r.ip ic == ilock(icache, dp) IN
    /\ At(p, "unlink") /\ Unlocked(dp) /\ LookupPanic(p, Want(p))
    /\ \/ /\ Head(r.path) \in {".", ".."} \/ Want(p) = 0
          /\ icache' = ic
          /\ Keep(p, Put(p, dp, "idle"))
          /\ Goto(p, "iput")
       \/ /\ Head(r.path) \notin {".", ".."} /\ Want(p) # 0
          /\ icache' = [iget(ic, Want(p)) EXCEPT ![dp].lock = p]
          /\ Keep(p, [r EXCEPT !.old = SlotFor(ic, Want(p))])
          /\ Goto(p, "unlink_ip")
    /\ UNCHANGED <<disk, proc>>

(* ... and then ip too, which stays locked while dp is put.                *)
MayUnlink_any(ic, s) == TRUE
MayUnlink(ic, s) == ic[s].type = "dir" => isdirempty(ic[s].inum)

sys_unlink_ip(p) ==
    LET r == reg[p] dp == r.ip ip == r.old
        ic == ilock(icache, ip)
        rm == IF ic[ip].type = "dir" THEN Linked(ic, dp, -1) ELSE ic
    IN
    /\ At(p, "unlink_ip") /\ Unlocked(ip)
    /\ panicked' = IF NoType(icache, ip) THEN "ilock: no type"
                   ELSE IF ic[ip].nlink < 1 THEN "unlink: nlink < 1" ELSE panicked
    /\ \/ /\ ~MayUnlink(ic, ip)
          /\ icache' = ic
          /\ Keep(p, Put(p, ip, "unlink_bad"))
          /\ UNCHANGED disk
       \/ /\ MayUnlink(ic, ip)
          /\ ent' = [ent EXCEPT ![ic[dp].inum][Head(r.path)] = 0]
          /\ dinode' = iupdate(rm, dp)
          /\ icache' = [rm EXCEPT ![dp].lock = None, ![ip].lock = p]
          /\ Keep(p, Put(p, dp, "unlink_done"))
    /\ Goto(p, "iput")
    /\ UNCHANGED proc

sys_unlink_bad(p) ==
    /\ At(p, "unlink_bad")
    /\ icache' = iunlock(reg[p].ip)
    /\ Keep(p, Put(p, reg[p].ip, "idle"))
    /\ Goto(p, "iput")
    /\ UNCHANGED <<disk, proc, panicked>>

sys_unlink_done(p) ==
    LET ip == reg[p].old ic == Unlinked(icache, ip) IN
    /\ At(p, "unlink_done")
    /\ dinode' = iupdate(ic, ip)
    /\ icache' = [ic EXCEPT ![ip].lock = None]
    /\ Keep(p, Put(p, ip, "idle"))
    /\ Goto(p, "iput")
    /\ UNCHANGED <<ent, proc, panicked>>

-----------------------------------------------------------------------------
(* create, for open with O_CREATE, mkdir and mknod.                        *)
TypeMade(op) == CASE op = "create" -> "file" [] op = "mkdir" -> "dir" [] op = "mknod" -> "dev"

create(p) ==
    LET r == reg[p] dp == r.ip ic == ilock(icache, dp) IN
    /\ At(p, "create") /\ Unlocked(dp)
    /\ \/ /\ Want(p) # 0 /\ LookupPanic(p, Want(p))
          /\ icache' = iget(ic, Want(p))
          /\ Keep(p, [Put(p, dp, "create_old") EXCEPT !.ip = SlotFor(ic, Want(p))])
          /\ Goto(p, "iput")
          /\ UNCHANGED dinode
       \/ /\ Want(p) = 0 /\ Unused = {}
          /\ panicked' = "ialloc: no inodes"
          /\ UNCHANGED <<icache, reg, pc, dinode>>
       \/ /\ Want(p) = 0 /\ Unused # {} /\ LookupPanic(p, Min(Unused))
          /\ dinode' = [dinode EXCEPT ![Min(Unused)] = [type |-> TypeMade(r.op), nlink |-> 0]]
          /\ icache' = [iget(ic, Min(Unused)) EXCEPT ![dp].lock = p]
          /\ Keep(p, [r EXCEPT !.old = SlotFor(ic, Min(Unused))])
          /\ Goto(p, "create_new")
    /\ UNCHANGED <<ent, proc>>

create_old(p) ==
    LET r == reg[p] ip == r.ip ic == ilock(icache, ip) IN
    /\ At(p, "create_old") /\ Unlocked(ip) /\ NoTypePanic(ip)
    /\ \/ /\ r.op = "create" /\ ic[ip].type = "file"
          /\ icache' = [ic EXCEPT ![ip].lock = p]
          /\ Keep(p, [r EXCEPT !.old = ip])
          /\ Goto(p, "create_done")
       \/ /\ ~(r.op = "create" /\ ic[ip].type = "file")
          /\ icache' = ic
          /\ Keep(p, Put(p, ip, "idle"))
          /\ Goto(p, "iput")
    /\ UNCHANGED <<disk, proc>>

(* nlink, "." and "..", and the entry in dp; dp is put with ip locked.     *)
create_new(p) ==
    LET r == reg[p] dp == r.ip ip == r.old i == icache[ip].inum d == icache[dp].inum
        isdir == r.op = "mkdir"
        ic == [ilock(icache, ip) EXCEPT ![ip].nlink = 1]
        up == IF isdir THEN Linked(ic, dp, 1) ELSE ic
    IN
    /\ At(p, "create_new") /\ Unlocked(ip) /\ NoTypePanic(ip)
    /\ icache' = [up EXCEPT ![ip].lock = p, ![dp].lock = None]
    /\ dinode' = [iupdate(up, dp) EXCEPT ![i] = [type |-> up[ip].type, nlink |-> up[ip].nlink]]
    /\ ent' = [ent EXCEPT ![d][Head(r.path)] = i,
                          ![i] = IF isdir THEN [NoEnt EXCEPT !["."] = i, ![".."] = d] ELSE @]
    /\ Keep(p, Put(p, dp, "create_done"))
    /\ Goto(p, "iput")
    /\ UNCHANGED proc

(* Back in the call, with ip locked.                                       *)
create_done(p) ==
    LET ip == reg[p].old IN
    /\ At(p, "create_done")
    /\ icache' = iunlock(ip)
    /\ \/ /\ reg[p].op = "create" /\ file[p] = None
          /\ file' = [file EXCEPT ![p] = ip]
          /\ Keep(p, Fresh)
          /\ Goto(p, "idle")
       \/ /\ reg[p].op # "create" \/ file[p] # None
          /\ Keep(p, Put(p, ip, "idle"))
          /\ Goto(p, "iput")
          /\ UNCHANGED file
    /\ UNCHANGED <<disk, cwd, panicked>>

-----------------------------------------------------------------------------
(* mkfs makes the root, with nlink 1, its own parent; userinit starts the  *)
(* first process there.                                                    *)
Init ==
    /\ dinode = [i \in Inum |-> IF i = ROOTINO THEN [type |-> "dir", nlink |-> 1]
                                ELSE [type |-> "free", nlink |-> 0]]
    /\ ent = [i \in Inum |-> IF i = ROOTINO THEN [NoEnt EXCEPT !["."] = i, ![".."] = i] ELSE NoEnt]
    /\ icache = [s \in Slot |-> [Blank(ROOTINO, None) EXCEPT !.ref = IF s = 1 THEN Cardinality(Proc) ELSE 0]]
    /\ cwd = [p \in Proc |-> 1]
    /\ file = [p \in Proc |-> None]
    /\ pc = [p \in Proc |-> "idle"]
    /\ reg = [p \in Proc |-> Fresh]
    /\ panicked = "no"

(* panic stops the machine.                                                *)
frozen == panicked # "no" /\ UNCHANGED vars

step(p) ==
    \/ \E c \in Program[p] : syscall(p, c)
    \/ namex(p)
    \/ iput(p) \/ iput_free(p) \/ iput_invalid(p) \/ iput_ref(p)
    \/ sys_open(p) \/ sys_close(p) \/ sys_chdir(p) \/ sys_chdir_set(p)
    \/ sys_link(p) \/ sys_link_dp(p) \/ sys_link_exists(p) \/ sys_link_done(p) \/ sys_link_bad(p)
    \/ sys_unlink(p) \/ sys_unlink_ip(p) \/ sys_unlink_bad(p) \/ sys_unlink_done(p)
    \/ create(p) \/ create_old(p) \/ create_new(p) \/ create_done(p)

Next == frozen \/ \E p \in Proc : step(p)

Spec == Init /\ [][Next]_vars

(* A process in a call goes on; one that waits for a lock gets it when it  *)
(* is free time and again: releasesleep wakes every sleeper and the        *)
(* scheduler passes over no one.                                           *)
FairSpec == Spec /\ \A p \in Proc : SF_vars(step(p) /\ pc[p] # "idle")

-----------------------------------------------------------------------------
(* Types.  fs.c panics on an i-node without a type and on a file without   *)
(* links are not among the values of panicked: no call here meets one.     *)
TypeOK ==
    /\ dinode \in [Inum -> [type : {"free", "file", "dir", "dev"}, nlink : 0 .. NInum * Cardinality(Name)]]
    /\ ent \in [Inum -> [Name -> 0 .. NInum]]
    /\ \A s \in Slot : icache[s].inum \in Inum /\ icache[s].ref \in Nat
                       /\ icache[s].lock \in Proc \cup {None}
    /\ cwd \in [Proc -> Slot] /\ file \in [Proc -> Slot \cup {None}]
    /\ panicked \in {"no", "iget: no inodes", "ialloc: no inodes"}

Idle == panicked = "no" /\ \A p \in Proc : pc[p] = "idle"
Refers(s) == Cardinality({p \in Proc : cwd[p] = s}) + Cardinality({p \in Proc : file[p] = s})
EntriesTo(i) == {e \in Inum \X Name : e[2] # "." /\ dinode[e[1]].nlink > 0 /\ ent[e[1]][e[2]] = i}

(* "iget() finds or creates a cache entry" (fs.c): an i-node never has two *)
(* entries, each with a lock of its own.                                   *)
OneEntry == \A s, t \in Slot :
    icache[s].ref > 0 /\ icache[t].ref > 0 /\ icache[s].inum = icache[t].inum => s = t

(* When no call is in progress the counters are exact: ref is the open     *)
(* files and current directories of an entry, nlink the entries that name  *)
(* an i-node in a directory with a name - whatever calls failed half way.  *)
CountsExact == Idle =>
    /\ \A s \in Slot : icache[s].ref = Refers(s)
    /\ \A i \in Inum : dinode[i].nlink = Cardinality(EntriesTo(i))

(* The i-node cache and the disk agree on who refers to what, across calls *)
(* that overlap and calls that fail half way (iget, iput, sys_link).       *)
InodesOK == TypeOK /\ OneEntry /\ CountsExact

(* No directory names an i-node that is free on the disk, at any step.     *)
EntriesLive == \A i \in Inum : EntriesTo(i) # {} => dinode[i].type # "free"

(* Whoever has an open file or a current directory finds it allocated: it  *)
(* was not freed under them, by an unlink or a close of another process.   *)
(* (sys_chdir has put the old directory for a moment before cwd changes.)  *)
OpenLive == \A p \in Proc : \A s \in {cwd[p], file[p]} \ {None} :
    ~(s = cwd[p] /\ reg[p].op = "chdir") =>
    /\ icache[s].ref > 0
    /\ dinode[icache[s].inum].type # "free"

(* iput frees no i-node that a directory names or a process has open.      *)
NoDangling == EntriesLive /\ OpenLive

(* An entry that is valid and not locked is what the disk has: ilock never *)
(* shows a process the i-node that had this number before.                 *)
CacheFresh == \A s \in Slot :
    icache[s].ref > 0 /\ icache[s].valid /\ icache[s].lock = None =>
        dinode[icache[s].inum] = [type |-> icache[s].type, nlink |-> icache[s].nlink]

(* "iput() frees if the reference and link counts have fallen to zero"     *)
(* (fs.c:119): an allocated i-node has a name or someone who refers to it. *)
NoOrphan == Idle => \A i \in Inum :
    dinode[i].type # "free" => dinode[i].nlink > 0 \/ CachedAs(icache, i) # {}

(* "The separation also helps avoid deadlock" (fs.c:150): some process of  *)
(* any group waits for no lock held in the group.                          *)
WaitsFor(p) ==
    CASE pc[p] = "iput" -> {reg[p].put}
      [] pc[p] \in {"open", "chdir", "link", "link_dp", "create", "create_old", "unlink"}
         \/ (pc[p] = "namex" /\ reg[p].path # <<>>) -> {reg[p].ip}
      [] pc[p] \in {"link_bad", "unlink_ip", "create_new"} -> {reg[p].old}
      [] OTHER -> {}
NoLockCycle == \A S \in SUBSET Proc \ {{}} :
    \E p \in S : \A s \in WaitsFor(p) : icache[s].lock \notin S

(* Every call returns.                                                     *)
CallReturns == \A p \in Proc : pc[p] # "idle" ~> (pc[p] = "idle" \/ panicked # "no")
=============================================================================
