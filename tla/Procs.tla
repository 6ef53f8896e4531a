------------------------------- MODULE Procs -------------------------------
(***************************************************************************)
(* The process table (proc.c): allocation of slots, fork, exit, wait, kill, *)
(* sleep and wakeup, and the schedulers of NCPU processors.  sys_sleep and *)
(* the timer interrupt (sysproc.c, trap.c) stand for the kernel's sleepers *)
(* and wakers: a condition under a lock of its own.                        *)
(*                                                                         *)
(* A step that holds ptable.lock is atomic.  What happens outside it is a  *)
(* step of its own: between allocproc and the end of fork, and between a   *)
(* sleeper's look at its condition and sleep().                            *)
(***************************************************************************)
EXTENDS Integers, FiniteSets

CONSTANTS
    Proc,      \* the slots of ptable.proc
    InitProc,  \* initproc
    CPU,
    MaxTicks,  \* bound: the longest sleep() a program asks for
    AnyPid,    \* may a program call kill with a pid no fork returned?
    None       \* no process, no channel, no lock holder

ASSUME ProcsAssumption ==
    /\ InitProc \in Proc
    /\ None \notin Proc \cup {"ticks"} /\ "ticks" \notin Proc
    /\ MaxTicks \in Nat
    /\ AnyPid \in BOOLEAN

VARIABLES
    state,     \* p->state
    pid,       \* p->pid: 0, "secret" before fork returned it, "known" after
    parent,    \* p->parent
    chan,      \* p->chan
    killed,    \* p->killed
    running,   \* c->proc
    pc,        \* where p is in the kernel, or "user"
    child,     \* np in fork
    left,      \* ticks sys_sleep still waits for: n - (ticks - ticks0)
    tickslock, \* its holder
    panicked

vars == <<state, pid, parent, chan, killed, running, pc, child, left, tickslock, panicked>>

(* p executes at l.  Names with a suffix are slips in the definition after *)
(* them.                                                                   *)
At(p, l) == panicked = "no" /\ state[p] = "RUNNING" /\ pc[p] = l
Goto(p, l) == pc' = [pc EXCEPT ![p] = l]

(* Nothing of the user program runs once killed is set: trap() calls exit  *)
(* on the way in and on the way out.                                       *)
Calls(p) == At(p, "user") /\ ~killed[p]

(* wakeup1, for a set of channels.                                         *)
Woken(chans) ==
    [q \in Proc |-> IF state[q] = "SLEEPING" /\ chan[q] \in chans THEN "RUNNABLE" ELSE state[q]]

(* sched(): the processor of p goes back to its scheduler.                 *)
sched(p) == running' = [c \in CPU |-> IF running[c] = p THEN None ELSE running[c]]

-----------------------------------------------------------------------------
(* scheduler(), on processor c.                                            *)
scheduler(c, p) ==
    /\ panicked = "no"
    /\ running[c] = None
    /\ state[p] = "RUNNABLE"
    /\ running' = [running EXCEPT ![c] = p]
    /\ state' = [state EXCEPT ![p] = "RUNNING"]
    /\ chan' = [chan EXCEPT ![p] = None]
    /\ UNCHANGED <<pid, parent, killed, pc, child, left, tickslock, panicked>>

(* The timer interrupt, where interrupts are on: in the program and in     *)
(* fork.  acquire() turns them off before it spins.                        *)
yield(p) ==
    /\ At(p, "fork") \/ Calls(p)
    /\ state' = [state EXCEPT ![p] = "RUNNABLE"]
    /\ sched(p)
    /\ UNCHANGED <<pid, parent, chan, killed, pc, child, left, tickslock, panicked>>

-----------------------------------------------------------------------------
(* fork, up to the end of allocproc's critical section.                    *)
allocproc(p, q) ==
    /\ Calls(p)
    /\ state[q] = "UNUSED"
    /\ state' = [state EXCEPT ![q] = "EMBRYO"]
    /\ pid' = [pid EXCEPT ![q] = "secret"]
    /\ child' = [child EXCEPT ![p] = q]
    /\ Goto(p, "fork")
    /\ UNCHANGED <<parent, chan, killed, running, left, tickslock, panicked>>

(* init gives up when its fork fails (init.c:25).                          *)
Failed(p) == Goto(p, IF p = InitProc THEN "exit" ELSE "user")

(* The table is full.                                                      *)
fork_full(p) ==
    /\ Calls(p)
    /\ \A q \in Proc : state[q] # "UNUSED"
    /\ Failed(p)
    /\ UNCHANGED <<state, pid, parent, chan, killed, running, child, left, tickslock, panicked>>

(* No memory for the stack or for the copy.  killed and pid stay as they   *)
(* are.                                                                    *)
fork_fails(p) ==
    /\ At(p, "fork")
    /\ state' = [state EXCEPT ![child[p]] = "UNUSED"]
    /\ child' = [child EXCEPT ![p] = None]
    /\ Failed(p)
    /\ UNCHANGED <<pid, parent, chan, killed, running, left, tickslock, panicked>>

fork(p) ==
    /\ At(p, "fork")
    /\ parent' = [parent EXCEPT ![child[p]] = p]
    /\ state' = [state EXCEPT ![child[p]] = "RUNNABLE"]
    /\ pid' = [pid EXCEPT ![child[p]] = "known"]
    /\ child' = [child EXCEPT ![p] = None]
    /\ pc' = [pc EXCEPT ![p] = "user", ![child[p]] = "user"]
    /\ UNCHANGED <<chan, killed, running, left, tickslock, panicked>>

(* exit(): of its own will, or in trap() because killed is set.            *)
Exits_willing(p) == At(p, "exit") \/ (Calls(p) /\ p # InitProc)
Exits(p) == At(p, "exit") \/ (At(p, "user") /\ (killed[p] \/ p # InitProc))

Orphans_kept(p) == parent
Orphans(p) == [q \in Proc |-> IF parent[q] = p THEN InitProc ELSE parent[q]]

Notified_init(p) == {r \in {InitProc} : \E q \in Proc : parent[q] = p /\ state[q] = "ZOMBIE"}
Notified(p) ==
    {parent[p]} \cup
    {r \in {InitProc} : \E q \in Proc : parent[q] = p /\ state[q] = "ZOMBIE"}

exit(p) ==
    /\ Exits(p)
    /\ \/ /\ p = InitProc
          /\ panicked' = "init exiting"
          /\ UNCHANGED <<state, parent, running>>
       \/ /\ p # InitProc
          /\ state' = [Woken(Notified(p)) EXCEPT ![p] = "ZOMBIE"]
          /\ parent' = Orphans(p)
          /\ sched(p)
          /\ UNCHANGED panicked
    /\ UNCHANGED <<pid, chan, killed, pc, child, left, tickslock>>

(* wait(): bury a zombie child, or return -1, or sleep.  After the sleep p *)
(* looks again.                                                            *)
ZombieOf(p, q) == parent[q] = p /\ state[q] = "ZOMBIE"
Buried_kept(q) == killed
Buried(q) == [killed EXCEPT ![q] = FALSE]

wait_buries(p, q) ==
    /\ Calls(p) \/ At(p, "wait")
    /\ ZombieOf(p, q)
    /\ state' = [state EXCEPT ![q] = "UNUSED"]
    /\ pid' = [pid EXCEPT ![q] = "0"]
    /\ parent' = [parent EXCEPT ![q] = None]
    /\ killed' = Buried(q)
    /\ Goto(p, "user")
    /\ UNCHANGED <<chan, running, child, left, tickslock, panicked>>

NoPoint(p) == killed[p] \/ \A q \in Proc : parent[q] # p

wait_fails(p) ==
    /\ Calls(p) \/ At(p, "wait")
    /\ ~\E q \in Proc : ZombieOf(p, q)
    /\ NoPoint(p)
    /\ Goto(p, "user")
    /\ UNCHANGED <<state, pid, parent, chan, killed, running, child, left, tickslock, panicked>>

wait_sleeps(p) ==
    /\ Calls(p) \/ At(p, "wait")
    /\ ~\E q \in Proc : ZombieOf(p, q)
    /\ ~NoPoint(p)
    /\ state' = [state EXCEPT ![p] = "SLEEPING"]
    /\ chan' = [chan EXCEPT ![p] = p]
    /\ sched(p)
    /\ Goto(p, "wait")
    /\ UNCHANGED <<pid, parent, killed, child, left, tickslock, panicked>>

wait(p) == (\E q \in Proc : wait_buries(p, q)) \/ wait_fails(p) \/ wait_sleeps(p)

(* kill(pid), of the process in slot q.  The scan does not look at state.  *)
Roused(q) == IF state[q] = "SLEEPING" THEN [state EXCEPT ![q] = "RUNNABLE"] ELSE state

kill(p, q) ==
    /\ Calls(p)
    /\ pid[q] = "known" \/ AnyPid
    /\ killed' = [killed EXCEPT ![q] = TRUE]
    /\ state' = Roused(q)
    /\ UNCHANGED <<pid, parent, chan, running, pc, child, left, tickslock, panicked>>

-----------------------------------------------------------------------------
(* The loop of sys_sleep, with tickslock held: return, or go on to sleep   *)
(* and keep the lock.                                                      *)
looks(p, n) ==
    /\ tickslock = None
    /\ \/ /\ n = 0 \/ killed[p]
          /\ left' = [left EXCEPT ![p] = 0]
          /\ Goto(p, "user")
          /\ UNCHANGED tickslock
       \/ /\ n > 0 /\ ~killed[p]
          /\ left' = [left EXCEPT ![p] = n]
          /\ Goto(p, "sleep")
          /\ tickslock' = p
    /\ UNCHANGED <<state, pid, parent, chan, killed, running, child, panicked>>

(* init never calls it (init.c).                                           *)
sys_sleep(p, n) == Calls(p) /\ p # InitProc /\ looks(p, n)

(* sleep() ends: "Reacquire original lock."                                *)
relock(p) == At(p, "relock") /\ looks(p, left[p])

(* sleep(&ticks, &tickslock): tickslock is released only once ptable.lock  *)
(* is held.                                                                *)

sleep(p) ==
    /\ At(p, "sleep")
    /\ tickslock' = None
    /\ state' = [state EXCEPT ![p] = "SLEEPING"]
    /\ chan' = [chan EXCEPT ![p] = "ticks"]
    /\ sched(p)
    /\ Goto(p, "relock")
    /\ UNCHANGED <<pid, parent, killed, child, left, panicked>>

(* The timer interrupt of processor 0: ticks++ and wakeup(&ticks).         *)
Elapsed_not(p) == left[p]
Elapsed(p) == IF left[p] > 0 THEN left[p] - 1 ELSE 0

tick ==
    /\ panicked = "no"
    /\ tickslock = None
    /\ left' = [p \in Proc |-> Elapsed(p)]
    /\ state' = Woken({"ticks"})
    /\ UNCHANGED <<pid, parent, chan, killed, running, pc, child, tickslock, panicked>>

(* panic() spins for ever.                                                 *)
frozen == panicked # "no" /\ UNCHANGED vars

-----------------------------------------------------------------------------
(* After userinit.                                                         *)
Init ==
    /\ state = [p \in Proc |-> IF p = InitProc THEN "RUNNABLE" ELSE "UNUSED"]
    /\ pid = [p \in Proc |-> IF p = InitProc THEN "known" ELSE "0"]
    /\ parent = [p \in Proc |-> None]
    /\ chan = [p \in Proc |-> None]
    /\ killed = [p \in Proc |-> FALSE]
    /\ running = [c \in CPU |-> None]
    /\ pc = [p \in Proc |-> "user"]
    /\ child = [p \in Proc |-> None]
    /\ left = [p \in Proc |-> 0]
    /\ tickslock = None
    /\ panicked = "no"

Next ==
    \/ \E p \in Proc :
       \/ \E c \in CPU : scheduler(c, p)
       \/ yield(p) \/ fork_full(p) \/ fork_fails(p) \/ fork(p) \/ exit(p) \/ wait(p)
       \/ sleep(p) \/ relock(p)
       \/ \E q \in Proc : allocproc(p, q) \/ kill(p, q)
       \/ \E n \in 0 .. MaxTicks : sys_sleep(p, n)
    \/ tick \/ frozen

Spec == Init /\ [][Next]_vars

(* The timer ticks.  Every scheduler goes round the whole table, so it     *)
(* comes to each process that is runnable again and again.  A timer        *)
(* interrupt takes a process off its processor unless it leaves it before. *)
(* Kernel code runs to its end although it is preempted, and acquire()     *)
(* succeeds when the lock is free again and again.  A killed process exits *)
(* at its next trap.                                                       *)
Leaves(p) == yield(p) \/ sleep(p)
Resumes(p) == fork(p) \/ fork_fails(p) \/ relock(p)

Fairness ==
    /\ SF_vars(tick)
    /\ \A p \in Proc :
       /\ SF_vars(\E c \in CPU : scheduler(c, p))
       /\ WF_vars(Leaves(p)) /\ SF_vars(Resumes(p))
       /\ WF_vars((killed[p] \/ At(p, "exit")) /\ exit(p))
       /\ WF_vars(At(p, "wait") /\ wait(p)) /\ WF_vars(sleep(p))

FairSpec == Spec /\ Fairness

-----------------------------------------------------------------------------
(* The types of struct proc and struct cpu.                                *)
TypeOK ==
    /\ state \in [Proc -> {"UNUSED", "EMBRYO", "SLEEPING", "RUNNABLE", "RUNNING", "ZOMBIE"}]
    /\ pid \in [Proc -> {"0", "secret", "known"}]
    /\ parent \in [Proc -> Proc \cup {None}]
    /\ chan \in [Proc -> Proc \cup {"ticks", None}]
    /\ killed \in [Proc -> BOOLEAN]
    /\ running \in [CPU -> Proc \cup {None}]
    /\ pc \in [Proc -> {"user", "fork", "exit", "wait", "sleep", "relock"}]
    /\ child \in [Proc -> Proc \cup {None}]
    /\ left \in [Proc -> 0 .. MaxTicks]
    /\ tickslock \in Proc \cup {None}
    /\ panicked \in {"no", "init exiting"}

(* A process runs on one processor at a time, and a processor only runs    *)
(* what the table calls RUNNING (scheduler, proc.c:342-351).               *)
OneCpu ==
    /\ \A c, d \in CPU : running[c] = running[d] /\ running[c] # None => c = d
    /\ \A p \in Proc : state[p] = "RUNNING" <=> \E c \in CPU : running[c] = p

Alive(p) == state[p] \in {"SLEEPING", "RUNNABLE", "RUNNING"}

(* Whoever has to be waited for has a parent that is still there to wait:  *)
(* exit "passes abandoned children to init" (proc.c:255).                  *)
HasParent ==
    \A q \in Proc \ {InitProc} :
        Alive(q) \/ state[q] = "ZOMBIE" => parent[q] # None /\ Alive(parent[q])

(* No parent sleeps in wait() while a child of its own is a zombie, and    *)
(* none sleeps there once it has been killed (proc.c:253, 260, 304).       *)
WaitWoken ==
    \A p \in Proc : state[p] = "SLEEPING" /\ chan[p] = p =>
        ~killed[p] /\ ~\E q \in Proc : ZombieOf(p, q)

(* No wakeup is missed between the look at the condition and the sleep     *)
(* ("we can be guaranteed that we won't miss any wakeup", proc.c:430).     *)
TickSeen ==
    \A p \in Proc : state[p] = "SLEEPING" /\ chan[p] = "ticks" => left[p] > 0

(* allocproc does not clear killed: a slot must be clean when it is free.  *)
BornAlive == \A q \in Proc : state[q] \in {"UNUSED", "EMBRYO"} => ~killed[q]

(* "Kill the process with the given pid" (proc.c:476): it exits, whatever  *)
(* it was doing.                                                           *)
KilledExits ==
    \A p \in Proc : killed[p] ~> (state[p] \in {"ZOMBIE", "UNUSED"} \/ panicked # "no")

(* A sys_sleep ends, whoever else contends for tickslock (sysproc.c:71).   *)
SleepEnds == \A p \in Proc : pc[p] = "sleep" ~> (pc[p] = "user" \/ panicked # "no")
=============================================================================
