----------------------------- MODULE SpinLocks -----------------------------
(***************************************************************************)
(* Spin locks, interrupts and context switches: spinlock.c with sched,     *)
(* scheduler, sleep, yield and forkret of proc.c, on several CPUs.         *)
(*                                                                         *)
(* A context is a kernel thread or a CPU's scheduler.  The kernel code     *)
(* around the locks is kept to what uses them: a thread takes a lock and   *)
(* releases it or sleeps with it; an interrupt handler takes the same      *)
(* lock, as trap and sys_sleep take tickslock, and may yield.              *)
(***************************************************************************)
EXTENDS Integers, FiniteSets

CONSTANTS Cpu, Thread, None

Ctx == Cpu \cup Thread
Lock == {"tickslock", "ptable"}

VARIABLES
    cpu,      \* the interrupt flag, ncli and intena of each CPU
    run,      \* the context it runs: itself for its scheduler
    lock,     \* lk->cpu of a lock that is held
    ctx,      \* where a context is, the handler it is in, intena saved by sched
    oops      \* the panic of spinlock.c or sched, if any

spinVars == <<cpu, run, lock, ctx, oops>>

Panic(cond, why) == oops' = IF cond THEN why ELSE oops
Go(c, l) == ctx' = [ctx EXCEPT ![run[c]].pc = l]
Is(c, l) == oops = "no" /\ ctx[run[c]].pc = l

-----------------------------------------------------------------------------
(* (A name with a suffix is a slip in the definition after it.)            *)
pushcli_on(s) == [s EXCEPT !.ncli = @ + 1, !.intena = IF s.ncli = 0 THEN s.flag ELSE @]
pushcli(s) == [s EXCEPT !.ncli = @ + 1, !.intena = IF s.ncli = 0 THEN s.flag ELSE @, !.flag = FALSE]

popcli(s) == [s EXCEPT !.ncli = @ - 1, !.flag = @ \/ (s.ncli = 1 /\ s.intena)]

holding(c, l) == lock[l] = c

acquire(c, from, l, to) ==
    /\ Is(c, from)
    /\ cpu' = [cpu EXCEPT ![c] = pushcli(@)]
    /\ Panic(holding(c, l), "acquire")
    /\ ctx' = [ctx EXCEPT ![run[c]].pc = "spins", ![run[c]].lk = l, ![run[c]].to = to]
    /\ UNCHANGED <<run, lock>>

xchg(c) ==
    /\ Is(c, "spins") /\ lock[ctx[run[c]].lk] = None
    /\ lock' = [lock EXCEPT ![ctx[run[c]].lk] = c]
    /\ Go(c, ctx[run[c]].to)
    /\ UNCHANGED <<cpu, run, oops>>

release(c, from, l, to) ==
    /\ Is(c, from)
    /\ lock' = [lock EXCEPT ![l] = None]
    /\ cpu' = [cpu EXCEPT ![c] = popcli(@)]
    /\ Panic(~holding(c, l) \/ cpu[c].flag \/ cpu[c].ncli < 1, "release")
    /\ Go(c, to)
    /\ UNCHANGED run

-----------------------------------------------------------------------------
(* swtch to the scheduler, and back from it.  intena belongs to the        *)
(* thread; a new one has none saved and starts in forkret.                 *)
sched(c) ==
    /\ Is(c, "sched")
    /\ Panic(~holding(c, "ptable") \/ cpu[c].ncli # 1 \/ cpu[c].flag, "sched")
    /\ ctx' = [ctx EXCEPT ![run[c]].pc = "off", ![run[c]].intena = cpu[c].intena]
    /\ run' = [run EXCEPT ![c] = c]
    /\ UNCHANGED <<cpu, lock>>

Resumed_cpu(c, t) == cpu
Resumed(c, t) == IF ctx[t].pc = "new" THEN cpu ELSE [cpu EXCEPT ![c].intena = ctx[t].intena]

swtch(c, t) ==
    /\ run[c] = c /\ Is(c, "picks") /\ ctx[t].pc \in {"off", "new"}
    /\ run' = [run EXCEPT ![c] = t]
    /\ cpu' = Resumed(c, t)
    /\ ctx' = [ctx EXCEPT ![t].pc = CASE ctx[t].pc = "new" -> "forkret"
                                     [] ctx[t].trap -> "yielded" [] OTHER -> "slept"]
    /\ UNCHANGED <<lock, oops>>

(* A trap through an interrupt gate, and its iret.                         *)
interrupt(c) ==
    /\ oops = "no" /\ cpu[c].flag
    /\ cpu' = [cpu EXCEPT ![c].flag = FALSE]
    /\ ctx' = [ctx EXCEPT ![run[c]].trap = TRUE, ![run[c]].back = ctx[run[c]].pc, ![run[c]].pc = "trap"]
    /\ UNCHANGED <<run, lock, oops>>

iret(c) ==
    /\ Is(c, "ticked")
    /\ cpu' = [cpu EXCEPT ![c].flag = TRUE]
    /\ ctx' = [ctx EXCEPT ![run[c]].trap = FALSE, ![run[c]].pc = ctx[run[c]].back, ![run[c]].back = "none"]
    /\ UNCHANGED <<run, lock, oops>>

(* sti at the head of the scheduler's loop, and the return of a new thread *)
(* to user space: both turn interrupts on whatever intena was left.        *)
sti(c, from, to) ==
    /\ Is(c, from)
    /\ cpu' = [cpu EXCEPT ![c].flag = TRUE]
    /\ Go(c, to)
    /\ UNCHANGED <<run, lock, oops>>

-----------------------------------------------------------------------------
(* The kernel code: a system call, a handler and the scheduler's loop.     *)
Acquires(c) ==
    \/ acquire(c, "kernel", "tickslock", "holds")
    \/ acquire(c, "holds", "ptable", "sleeps") \/ acquire(c, "woken", "tickslock", "holds")
    \/ acquire(c, "trap", "tickslock", "ticks")
    \/ run[c] # c /\ acquire(c, "ticked", "ptable", "sched")
    \/ acquire(c, "loop", "ptable", "picks")

Releases(c) ==
    \/ release(c, "holds", "tickslock", "kernel")
    \/ release(c, "sleeps", "tickslock", "sched") \/ release(c, "slept", "ptable", "woken")
    \/ release(c, "ticks", "tickslock", "ticked") \/ release(c, "yielded", "ptable", "ticked")
    \/ release(c, "picks", "ptable", "sti") \/ release(c, "forkret", "ptable", "trapret")

Init ==
    /\ cpu = [c \in Cpu |-> [flag |-> FALSE, ncli |-> 0, intena |-> FALSE]]
    /\ run = [c \in Cpu |-> c]
    /\ lock = [l \in Lock |-> None]
    /\ ctx = [x \in Ctx |-> [pc |-> IF x \in Cpu THEN "sti" ELSE "new", back |-> "none", trap |-> FALSE,
                             intena |-> FALSE, lk |-> "ptable", to |-> "picks"]]
    /\ oops = "no"

Next == \E c \in Cpu : \/ Acquires(c) \/ xchg(c) \/ Releases(c) \/ sched(c) \/ interrupt(c) \/ iret(c)
                       \/ sti(c, "sti", "loop") \/ sti(c, "trapret", "kernel")
                       \/ \E t \in Thread : swtch(c, t)

Spec == Init /\ [][Next]_spinVars

-----------------------------------------------------------------------------
(* No panic of acquire, release, popcli or sched is met, and ncli counts   *)
(* the locks a CPU holds and the one it spins on.                          *)
CliCount ==
    /\ oops = "no"
    /\ \A c \in Cpu : cpu[c].ncli = Cardinality({l \in Lock : lock[l] = c})
                                    + IF ctx[run[c]].pc = "spins" THEN 1 ELSE 0

(* "disable interrupts to avoid deadlock" (acquire): a CPU that holds a    *)
(* lock or spins takes no interrupt, whose handler could want that lock.   *)
(* By CliCount these are the CPUs with ncli > 0.                           *)
NoInterrupt == CliCount /\ \A c \in Cpu : cpu[c].ncli > 0 => ~cpu[c].flag

(* "intena is a property of this kernel thread, not this CPU" (sched): a   *)
(* context without locks has interrupts on outside a handler and off in    *)
(* it, also after it slept or yielded and came back on another CPU.  (The  *)
(* scheduler and a new thread may have them off, just before sti or iret.) *)
IntenaOwn == \A c \in Cpu : cpu[c].ncli = 0 /\ ctx[run[c]].pc \notin {"sti", "trapret"} =>
                 cpu[c].flag = ~ctx[run[c]].trap
=============================================================================
