-------------------------- MODULE SpinLocksProofs --------------------------
(***************************************************************************)
(* Spin locks and interrupts, for every number of CPUs and threads.        *)
(* Everything a CPU has - the locks it holds, ncli, the interrupt flag and *)
(* intena - follows from where the context it runs is.                     *)
(***************************************************************************)
EXTENDS SpinLocks, FiniteSetTheorems, TLAPS

Free == {"kernel", "woken", "trap", "ticked", "loop", "sti", "trapret"}
OnePtable == {"sched", "slept", "yielded", "picks", "forkret"}
OneTicks == {"holds", "ticks"}

(* The locks held at l, and how many they are.                             *)
HeldAt(l) ==
    {k \in Lock : \/ k = "tickslock" /\ l \in OneTicks \cup {"sleeps"}
                  \/ k = "ptable" /\ l \in OnePtable \cup {"sleeps"}}
DepthAt(l) == IF l = "sleeps" THEN 2 ELSE IF l \in OnePtable \cup OneTicks THEN 1 ELSE 0

(* x is between acquire's pushcli and its xchg.                            *)
Held(x) == IF x.pc = "spins" THEN HeldAt(x.to) \ {x.lk} ELSE HeldAt(x.pc)
Depth(x) == IF x.pc = "spins" THEN DepthAt(x.to) ELSE DepthAt(x.pc)

(* Where a scheduler, and a thread that runs, can be.                      *)
Aims == {<<"tickslock", "holds">>, <<"ptable", "sleeps">>, <<"tickslock", "ticks">>, <<"ptable", "sched">>}
SchedulerAt(x) ==
    /\ \/ x.pc \in {"sti", "loop", "picks", "trap", "ticks", "ticked"}
       \/ x.pc = "spins" /\ <<x.lk, x.to>> \in {<<"ptable", "picks">>, <<"tickslock", "ticks">>}
    /\ x.trap => x.back \in {"sti", "loop"}
ThreadAt(x) ==
    /\ \/ x.pc \in Free \cup OnePtable \cup OneTicks \cup {"sleeps"} /\ x.pc \notin {"sti", "loop", "picks"}
       \/ x.pc = "spins" /\ <<x.lk, x.to>> \in Aims
    /\ x.trap => x.back \in {"kernel", "woken", "trapret"}

(* A CPU with registers s runs context x.                                  *)
Good(s, x) ==
    /\ s.ncli = Depth(x)
    /\ s.ncli > 0 => ~s.flag
    /\ s.ncli = 0 /\ x.pc \notin {"sti", "trapret"} => (s.flag <=> ~x.trap)
    /\ s.ncli > 0 /\ x.pc \notin {"picks", "forkret"} => (s.intena <=> ~x.trap)
    /\ x.pc \in {"sti", "loop", "picks", "forkret", "trapret"} \/ (x.pc = "spins" /\ x.to = "picks") => ~x.trap
    /\ x.pc \in {"trap", "ticks", "ticked", "yielded"} \/ (x.pc = "spins" /\ x.to = "ticks") => x.trap

(* A thread nobody runs.                                                   *)
Parked(x) ==
    \/ x.pc = "new" /\ ~x.trap
    \/ x.pc = "off" /\ (x.intena <=> ~x.trap) /\ (x.trap => x.back \in {"kernel", "woken", "trapret"})

Registers == [flag : BOOLEAN, ncli : Nat, intena : BOOLEAN]
Place == Free \cup OnePtable \cup OneTicks \cup {"sleeps", "spins", "new", "off", "none"}
Context == [pc : Place, back : Place, trap : BOOLEAN, intena : BOOLEAN, lk : Lock, to : Place]

IInv ==
    /\ oops = "no"
    /\ cpu \in [Cpu -> Registers] /\ ctx \in [Ctx -> Context]
    /\ run \in [Cpu -> Ctx] /\ lock \in [Lock -> Cpu \cup {None}]
    /\ \A c \in Cpu : run[c] = c \/ run[c] \in Thread
    /\ \A c, d \in Cpu : run[c] = run[d] => c = d
    /\ \A c \in Cpu : Good(cpu[c], ctx[run[c]])
    /\ \A c \in Cpu : run[c] = c => SchedulerAt(ctx[c])
    /\ \A c \in Cpu : run[c] # c => ctx[c].pc = "picks" /\ ~ctx[c].trap /\ ThreadAt(ctx[run[c]])
    /\ \A t \in Thread : (\A c \in Cpu : run[c] # t) => Parked(ctx[t])
    /\ \A c \in Cpu : \A l \in Lock : lock[l] = c <=> l \in Held(ctx[run[c]])

(* CPUs are no threads, and a lock is free when it has no CPU.             *)
Distinct == Cpu \cap Thread = {} /\ None \notin Cpu

-----------------------------------------------------------------------------
(* The locks held and the depth of pushcli at each place of the code.      *)
LEMMA HeldValues ==
  /\ \A l \in Free : HeldAt(l) = {} /\ DepthAt(l) = 0
  /\ \A l \in OnePtable : HeldAt(l) = {"ptable"} /\ DepthAt(l) = 1
  /\ \A l \in OneTicks : HeldAt(l) = {"tickslock"} /\ DepthAt(l) = 1
  /\ HeldAt("sleeps") = {"tickslock", "ptable"} /\ DepthAt("sleeps") = 2
  BY DEF HeldAt, DepthAt, Free, OnePtable, OneTicks, Lock

(* A step of the context CPU c runs.                                       *)
LEMMA OneMoves ==
  ASSUME IInv, Distinct, NEW c \in Cpu, run' = run, oops' = "no",
         NEW n \in Registers, NEW y \in Context,
         cpu' = [cpu EXCEPT ![c] = n], ctx' = [ctx EXCEPT ![run[c]] = y],
         Good(n, y), run[c] = c => SchedulerAt(y), run[c] # c => ThreadAt(y),
         lock' \in [Lock -> Cpu \cup {None}],
         \A l \in Lock : lock'[l] = c <=> l \in Held(y),
         \A d \in Cpu : d # c => \A l \in Lock : lock'[l] = d <=> lock[l] = d
  PROVE  IInv'
  <1>1. /\ cpu \in [Cpu -> Registers] /\ ctx \in [Ctx -> Context] /\ run \in [Cpu -> Ctx]
        /\ \A d \in Cpu : run[d] = d \/ run[d] \in Thread
        /\ \A d, e \in Cpu : run[d] = run[e] => d = e
    BY DEF IInv
  <1>2. cpu' \in [Cpu -> Registers] /\ ctx' \in [Ctx -> Context]
    BY <1>1
  <1>3. /\ cpu'[c] = n /\ ctx'[run[c]] = y
        /\ \A d \in Cpu : d # c => cpu'[d] = cpu[d] /\ ctx'[run[d]] = ctx[run[d]]
        /\ \A x \in Ctx : x # run[c] => ctx'[x] = ctx[x]
    BY <1>1
  <1>4. \A d \in Cpu : Good(cpu'[d], ctx'[run[d]])
    BY <1>3 DEF IInv
  <1>5. \A d \in Cpu : run[d] = d => SchedulerAt(ctx'[d])
    BY <1>3 DEF IInv
  <1>6. ASSUME NEW d \in Cpu, run[d] # d
        PROVE  ctx'[d].pc = "picks" /\ ~ctx'[d].trap /\ ThreadAt(ctx'[run[d]])
    <2>1. d # run[c] /\ d \in Ctx
      BY <1>1, <1>6 DEF Distinct, Ctx
    <2>2. ctx[d].pc = "picks" /\ ~ctx[d].trap /\ ThreadAt(ctx[run[d]])
      BY <1>6 DEF IInv
    <2>3. ctx'[d] = ctx[d] /\ ThreadAt(ctx'[run[d]])
      BY <1>3, <1>6, <2>1, <2>2
    <2> QED
      BY <2>2, <2>3
  <1>7. ASSUME NEW t \in Thread, \A d \in Cpu : run[d] # t
        PROVE  Parked(ctx'[t])
    BY <1>3, <1>7 DEF IInv, Ctx
  <1>8. ASSUME NEW d \in Cpu, NEW l \in Lock
        PROVE  lock'[l] = d <=> l \in Held(ctx'[run[d]])
    BY <1>3 DEF IInv
  <1> QED
    BY <1>1, <1>2, <1>4, <1>5, <1>6, <1>7, <1>8 DEF IInv

(* acquire's pushcli (spinlock.c:27) accounts for the lock to be taken.    *)
LEMMA Pushed ==
  ASSUME NEW s \in Registers, NEW x \in Context, NEW n \in Registers, NEW y \in Context,
         Good(s, x), n.ncli = s.ncli + 1, ~n.flag,
         n.intena <=> IF s.ncli = 0 THEN s.flag ELSE s.intena,
         y.pc = "spins", y.trap <=> x.trap,
         <<x.pc, y.to>> \in {<<"kernel", "holds">>, <<"holds", "sleeps">>, <<"woken", "holds">>,
                             <<"trap", "ticks">>, <<"ticked", "sched">>, <<"loop", "picks">>}
  PROVE  Good(n, y)
  <1>1. s.ncli = DepthAt(x.pc) /\ Depth(y) = DepthAt(y.to) /\ s.ncli \in Nat
    BY DEF Good, Depth, Registers
  <1>2. Depth(y) = s.ncli + 1
    BY <1>1 DEF DepthAt, OnePtable, OneTicks
  <1>3. n.intena <=> ~x.trap
    <2>1. CASE x.pc = "holds"
      BY <1>1, <2>1 DEF Good, DepthAt, OneTicks, OnePtable
    <2>2. CASE x.pc # "holds"
      <3>1. s.ncli = 0 /\ x.pc \notin {"sti", "trapret"}
        BY <1>1, <2>2 DEF DepthAt, OneTicks, OnePtable
      <3> QED
        BY <3>1 DEF Good
    <2> QED
      BY <2>1, <2>2
  <1>4. y.to = "picks" => ~y.trap
    BY DEF Good
  <1>5. y.to = "ticks" => y.trap
    BY DEF Good
  <1> QED
    BY <1>1, <1>2, <1>3, <1>4, <1>5 DEF Good

(* What is known of the CPU that takes a step.                             *)
LEMMA OfCpu ==
  ASSUME IInv, Distinct, NEW c \in Cpu
  PROVE  /\ cpu[c] \in Registers /\ run[c] \in Ctx /\ ctx[run[c]] \in Context
         /\ Good(cpu[c], ctx[run[c]])
         /\ run[c] = c => SchedulerAt(ctx[run[c]])
         /\ run[c] # c => ThreadAt(ctx[run[c]]) /\ run[c] \in Thread
         /\ \A l \in Lock : lock[l] = c <=> l \in Held(ctx[run[c]])
         /\ lock \in [Lock -> Cpu \cup {None}] /\ ctx \in [Ctx -> Context]
         /\ cpu \in [Cpu -> Registers]
  BY DEF IInv

(* Registers with a new value of each field.                               *)
LEMMA RegistersSet ==
  ASSUME NEW s \in Registers, NEW k \in Nat, NEW i \in BOOLEAN, NEW f \in BOOLEAN
  PROVE  [s EXCEPT !.ncli = k, !.intena = i, !.flag = f] \in Registers
  BY Zenon DEF Registers

Wants == {<<"kernel", "tickslock", "holds">>, <<"holds", "ptable", "sleeps">>,
          <<"woken", "tickslock", "holds">>, <<"trap", "tickslock", "ticks">>,
          <<"ticked", "ptable", "sched">>, <<"loop", "ptable", "picks">>}

(* acquire, up to its loop on xchg.                                        *)
LEMMA AcquireStep ==
  ASSUME IInv, Distinct, NEW c \in Cpu, NEW from, NEW l, NEW to, <<from, l, to>> \in Wants,
         from = "ticked" => run[c] # c, acquire(c, from, l, to)
  PROVE  IInv'
  <1> DEFINE s == cpu[c]
             x == ctx[run[c]]
             n == pushcli(s)
             y == [x EXCEPT !.pc = "spins", !.lk = l, !.to = to]
  <1>1. s \in Registers /\ x \in Context /\ Good(s, x) /\ run[c] \in Ctx
    BY OfCpu
  <1>2. x.pc = from /\ from # "spins" /\ l \in Lock /\ to \in Place
    BY DEF acquire, Is, Wants, Lock, Place, OnePtable, OneTicks
  <1>3. n \in Registers /\ y \in Context
    <2>1. y \in Context
      BY Zenon, <1>1, <1>2 DEF Context, Place
    <2>2. n \in Registers
      <3>1. s.ncli + 1 \in Nat /\ s.flag \in BOOLEAN /\ s.intena \in BOOLEAN
        BY <1>1 DEF Registers
      <3>2. (IF s.ncli = 0 THEN s.flag ELSE s.intena) \in BOOLEAN
        BY <3>1, Zenon
      <3>3. n = [s EXCEPT !.ncli = s.ncli + 1, !.intena = IF s.ncli = 0 THEN s.flag ELSE s.intena,
                          !.flag = FALSE]
        BY Zenon DEF pushcli
      <3> HIDE DEF s, n
      <3> QED
        BY Zenon, <1>1, <3>1, <3>2, <3>3, RegistersSet
    <2> QED
      BY <2>1, <2>2
  <1>4. cpu' = [cpu EXCEPT ![c] = n] /\ ctx' = [ctx EXCEPT ![run[c]] = y] /\ run' = run /\ lock' = lock
    BY Zenon DEF acquire
  <1>5. n.ncli = s.ncli + 1 /\ ~n.flag /\ (n.intena <=> IF s.ncli = 0 THEN s.flag ELSE s.intena)
    BY <1>1 DEF pushcli, Registers
  <1>6. y.pc = "spins" /\ y.lk = l /\ y.to = to /\ y.trap = x.trap /\ y.back = x.back
    BY <1>1 DEF Context
  <1>7. Good(n, y)
    <2>1. <<x.pc, y.to>> \in {<<"kernel", "holds">>, <<"holds", "sleeps">>, <<"woken", "holds">>,
                             <<"trap", "ticks">>, <<"ticked", "sched">>, <<"loop", "picks">>}
      BY <1>2, <1>6 DEF Wants
    <2> HIDE DEF s, x, n, y
    <2> QED
      BY <1>1, <1>3, <1>5, <1>6, <2>1, Pushed
  <1>8. Held(y) = HeldAt(from) /\ Held(x) = HeldAt(from) /\ l \notin HeldAt(from)
    BY <1>2, <1>6 DEF Held, HeldAt, Wants, Lock, OnePtable, OneTicks
  <1>9. oops' = "no"
    <2>1. lock[l] # c
      BY <1>2, <1>8, OfCpu
    <2> QED
      BY <2>1 DEF acquire, Panic, holding, IInv
  <1>10. run[c] = c => SchedulerAt(y)
    <2>1. run[c] = c => SchedulerAt(x)
      BY OfCpu
    <2> HIDE DEF s, x, n, y
    <2> QED
      BY <1>2, <1>6, <2>1 DEF SchedulerAt, Wants
  <1>11. run[c] # c => ThreadAt(y)
    <2>1. run[c] # c => ThreadAt(x)
      BY OfCpu
    <2> HIDE DEF s, x, n, y
    <2> QED
      BY <1>2, <1>6, <2>1 DEF ThreadAt, Wants, Aims
  <1>12. lock' \in [Lock -> Cpu \cup {None}] /\ \A k \in Lock : lock'[k] = c <=> k \in Held(y)
    BY <1>4, <1>8, OfCpu
  <1> HIDE DEF s, x, n, y
  <1> QED
    BY Zenon, <1>3, <1>4, <1>7, <1>9, <1>10, <1>11, <1>12, OneMoves

(* The xchg of acquire that finds the lock free.                           *)
LEMMA XchgStep ==
  ASSUME IInv, Distinct, NEW c \in Cpu, xchg(c)
  PROVE  IInv'
  <1> DEFINE s == cpu[c]
             x == ctx[run[c]]
             y == [x EXCEPT !.pc = x.to]
  <1>1. s \in Registers /\ x \in Context /\ Good(s, x) /\ run[c] \in Ctx /\ x.pc = "spins"
    BY OfCpu DEF xchg, Is
  <1>2. y \in Context /\ x.lk \in Lock /\ lock[x.lk] = None
    BY <1>1 DEF Context, xchg
  <1>3. /\ ctx' = [ctx EXCEPT ![run[c]] = y] /\ cpu' = cpu /\ run' = run /\ oops' = oops
        /\ lock' = [lock EXCEPT ![x.lk] = c]
    BY DEF xchg, Go
  <1>4. cpu' = [cpu EXCEPT ![c] = s]
    BY <1>3, OfCpu
  <1>5. y.pc = x.to /\ y.trap = x.trap /\ y.back = x.back
    BY <1>1 DEF Context
  <1>6. <<x.lk, x.to>> \in Aims \cup {<<"ptable", "picks">>}
    BY <1>1, OfCpu DEF SchedulerAt, ThreadAt, Aims, Free, OnePtable, OneTicks
  <1>7. x.lk \in HeldAt(x.to) /\ Held(x) = HeldAt(x.to) \ {x.lk} /\ Held(y) = HeldAt(x.to)
    BY <1>1, <1>2, <1>5, <1>6 DEF Held, HeldAt, Aims, OnePtable, OneTicks, Lock
  <1>8. Good(s, y)
    <2>1. Depth(y) = Depth(x) /\ Depth(x) > 0
      BY <1>1, <1>5, <1>6 DEF Depth, DepthAt, Aims, OnePtable, OneTicks
    <2>2. y.pc \in {"holds", "sleeps", "ticks", "sched", "picks"}
      BY <1>5, <1>6 DEF Aims
    <2> HIDE DEF s, x, y
    <2> QED
      BY <1>1, <1>5, <2>1, <2>2 DEF Good
  <1>9. (run[c] = c => SchedulerAt(y)) /\ (run[c] # c => ThreadAt(y))
    <2>1. (run[c] = c => SchedulerAt(x)) /\ (run[c] # c => ThreadAt(x))
      BY OfCpu
    <2> HIDE DEF s, x, y
    <2> QED
      BY <1>1, <1>5, <2>1 DEF SchedulerAt, ThreadAt, Aims, OnePtable, OneTicks, Free
  <1>10. lock' \in [Lock -> Cpu \cup {None}] /\ \A k \in Lock : lock'[k] = c <=> k \in Held(y)
    BY <1>2, <1>3, <1>7, OfCpu
  <1>11. \A d \in Cpu : d # c => \A k \in Lock : lock'[k] = d <=> lock[k] = d
    BY <1>2, <1>3, OfCpu DEF Distinct
  <1>12. oops' = "no"
    BY <1>3 DEF IInv
  <1> HIDE DEF s, x, y
  <1> QED
    BY Zenon, <1>1, <1>2, <1>3, <1>4, <1>8, <1>9, <1>10, <1>11, <1>12, OneMoves

Gives == {<<"holds", "tickslock", "kernel">>, <<"sleeps", "tickslock", "sched">>,
          <<"slept", "ptable", "woken">>, <<"ticks", "tickslock", "ticked">>,
          <<"yielded", "ptable", "ticked">>, <<"picks", "ptable", "sti">>,
          <<"forkret", "ptable", "trapret">>}

(* release, with its popcli.                                               *)
LEMMA ReleaseStep ==
  ASSUME IInv, Distinct, NEW c \in Cpu, NEW from, NEW l, NEW to, <<from, l, to>> \in Gives,
         release(c, from, l, to)
  PROVE  IInv'
  <1> DEFINE s == cpu[c]
             x == ctx[run[c]]
             n == popcli(s)
             y == [x EXCEPT !.pc = to]
  <1>1. s \in Registers /\ x \in Context /\ Good(s, x) /\ run[c] \in Ctx
    BY OfCpu
  <1>2. x.pc = from /\ from # "spins" /\ to # "spins" /\ l \in Lock /\ to \in Place
    BY DEF release, Is, Gives, Lock, Place, OnePtable, Free
  <1>3. s.ncli = DepthAt(from) /\ s.ncli >= 1 /\ s.ncli \in Nat /\ ~s.flag /\ DepthAt(to) = s.ncli - 1
    <2>1. s.ncli = DepthAt(from) /\ s.ncli \in Nat
      BY <1>1, <1>2 DEF Good, Depth, Registers
    <2>2. DepthAt(from) >= 1 /\ DepthAt(to) = DepthAt(from) - 1
      BY DEF Gives, DepthAt, OnePtable, OneTicks
    <2> QED
      BY <1>1, <2>1, <2>2 DEF Good
  <1>4. n \in Registers /\ y \in Context
    <2>1. y \in Context
      BY <1>1, <1>2 DEF Context
    <2>2. n \in Registers
      <3>1. s.ncli - 1 \in Nat
        BY <1>3
      <3>2. (s.flag \/ (s.ncli = 1 /\ s.intena)) \in BOOLEAN
        BY Zenon
      <3> QED
        BY Zenon, <1>1, <3>1, <3>2 DEF popcli, Registers
    <2> QED
      BY <2>1, <2>2
  <1>5. cpu' = [cpu EXCEPT ![c] = n] /\ ctx' = [ctx EXCEPT ![run[c]] = y] /\ run' = run
        /\ lock' = [lock EXCEPT ![l] = None]
    BY DEF release, Go
  <1>6. n.ncli = s.ncli - 1 /\ (n.flag <=> s.ncli = 1 /\ s.intena) /\ n.intena = s.intena
    BY <1>1, <1>3 DEF popcli, Registers
  <1>7. y.pc = to /\ y.trap = x.trap /\ y.back = x.back
    BY <1>1 DEF Context
  <1>8. Good(n, y)
    <2>1. n.ncli = Depth(y)
      BY <1>2, <1>3, <1>6, <1>7 DEF Depth
    <2>2. n.ncli > 0 => s.ncli # 1
      BY <1>3, <1>6
    <2>3. from \notin {"picks", "forkret"} => (s.intena <=> ~x.trap)
      BY <1>1, <1>2, <1>3 DEF Good
    <2>4. from \in {"picks", "forkret"} => ~x.trap /\ to \in {"sti", "trapret"}
      BY <1>1, <1>2 DEF Good, Gives
    <2>5. to \in {"ticked"} => x.trap
      BY <1>1, <1>2 DEF Good, Gives
    <2>6. /\ to \in {"kernel", "sched", "woken", "ticked", "sti", "trapret"}
          /\ to \in {"sti", "trapret"} => from \in {"picks", "forkret"}
      BY DEF Gives
    <2>7. n.ncli = 0 => s.ncli = 1
      BY <1>3, <1>6
    <2> HIDE DEF s, x, n, y
    <2> QED
      <3>1. n.ncli > 0 => ~n.flag
        BY <1>6, <2>2
      <3>2. n.ncli = 0 /\ y.pc \notin {"sti", "trapret"} => (n.flag <=> ~y.trap)
        BY Zenon, <1>6, <1>7, <2>3, <2>4, <2>7
      <3>3. n.ncli > 0 /\ y.pc \notin {"picks", "forkret"} => (n.intena <=> ~y.trap)
        <4>1. n.ncli > 0 => from = "sleeps"
          BY <1>3, <1>6 DEF Gives, DepthAt, OnePtable, OneTicks
        <4> QED
          BY <1>6, <1>7, <2>3, <4>1
      <3>4. y.pc \in {"sti", "loop", "picks", "forkret", "trapret"} \/ (y.pc = "spins" /\ y.to = "picks") => ~y.trap
        BY <1>7, <2>4, <2>6
      <3>5. y.pc \in {"trap", "ticks", "ticked", "yielded"} \/ (y.pc = "spins" /\ y.to = "ticks") => y.trap
        BY <1>7, <2>5, <2>6
      <3> QED
        BY <2>1, <3>1, <3>2, <3>3, <3>4, <3>5 DEF Good
  <1>9. Held(y) = HeldAt(from) \ {l} /\ Held(x) = HeldAt(from) /\ l \in HeldAt(from)
    BY <1>2, <1>7 DEF Held, HeldAt, Gives, Lock, OnePtable, OneTicks
  <1>10. lock[l] = c
    BY <1>2, <1>9, OfCpu
  <1>11. oops' = "no"
    BY <1>3, <1>10 DEF release, Panic, holding, IInv
  <1>12. (run[c] = c => SchedulerAt(y)) /\ (run[c] # c => ThreadAt(y))
    <2>1. (run[c] = c => SchedulerAt(x)) /\ (run[c] # c => ThreadAt(x))
      BY OfCpu
    <2> HIDE DEF s, x, n, y
    <2> QED
      BY <1>2, <1>7, <2>1 DEF SchedulerAt, ThreadAt, Gives, Aims, OnePtable, OneTicks, Free
  <1>13. lock' \in [Lock -> Cpu \cup {None}] /\ \A k \in Lock : lock'[k] = c <=> k \in Held(y)
    BY <1>2, <1>5, <1>9, OfCpu DEF Distinct
  <1>14. \A d \in Cpu : d # c => \A k \in Lock : lock'[k] = d <=> lock[k] = d
    BY <1>2, <1>5, <1>10, OfCpu DEF Distinct
  <1> HIDE DEF s, x, n, y
  <1> QED
    BY Zenon, <1>4, <1>5, <1>8, <1>11, <1>12, <1>13, <1>14, OneMoves

(* Registers with a new interrupt flag.                                    *)
LEMMA FlagSet ==
  ASSUME NEW s \in Registers, NEW f \in BOOLEAN
  PROVE  /\ [s EXCEPT !.flag = f] \in Registers
         /\ [s EXCEPT !.flag = f].ncli = s.ncli /\ [s EXCEPT !.flag = f].flag = f
         /\ [s EXCEPT !.flag = f].intena = s.intena
  BY DEF Registers

(* Steps of the context c runs that touch the flag and no lock.            *)
LEMMA FlagStep ==
  ASSUME IInv, Distinct, NEW c \in Cpu, NEW f \in BOOLEAN, NEW y \in Context,
         cpu' = [cpu EXCEPT ![c].flag = f], ctx' = [ctx EXCEPT ![run[c]] = y],
         UNCHANGED <<run, lock, oops>>, cpu[c].ncli = 0, y.pc \in Free,
         y.pc \notin {"sti", "trapret"} => (f <=> ~y.trap),
         y.pc \in {"sti", "loop", "trapret"} => ~y.trap,
         y.pc \in {"trap", "ticked"} => y.trap,
         run[c] = c => SchedulerAt(y), run[c] # c => ThreadAt(y)
  PROVE  IInv'
  <1> DEFINE s == cpu[c]
             n == [s EXCEPT !.flag = f]
  <1>1. s \in Registers /\ ctx[run[c]] \in Context /\ Good(s, ctx[run[c]])
    BY OfCpu
  <1>2. n \in Registers /\ n.ncli = 0 /\ (n.flag <=> f)
    BY <1>1, FlagSet
  <1>3. cpu' = [cpu EXCEPT ![c] = n]
    OBVIOUS
  <1>4. DepthAt(y.pc) = 0 /\ Depth(y) = 0 /\ Held(y) = {}
    BY HeldValues DEF Depth, Held, Free
  <1>5. Good(n, y)
    <2> HIDE DEF n
    <2> QED
      BY <1>2, <1>4 DEF Good, Free
  <1>6. Held(ctx[run[c]]) = {}
    <2>1. Depth(ctx[run[c]]) = 0
      BY <1>1 DEF Good
    <2>2. ctx[run[c]].pc # "spins" /\ ctx[run[c]].pc \in Free
      BY <2>1, OfCpu DEF Depth, DepthAt, SchedulerAt, ThreadAt, Free, OnePtable, OneTicks, Aims
    <2> QED
      BY <2>2, HeldValues DEF Held
  <1>7. \A l \in Lock : lock'[l] = c <=> l \in Held(y)
    BY <1>4, <1>6, OfCpu
  <1>8. lock' \in [Lock -> Cpu \cup {None}] /\ oops' = "no"
    BY DEF IInv
  <1> HIDE DEF n
  <1> QED
    BY Zenon, <1>2, <1>3, <1>5, <1>7, <1>8, OneMoves

(* The timer interrupt, taken only with the flag set.                      *)
LEMMA InterruptStep ==
  ASSUME IInv, Distinct, NEW c \in Cpu, interrupt(c)
  PROVE  IInv'
  <1> DEFINE x == ctx[run[c]]
             y == [x EXCEPT !.trap = TRUE, !.back = x.pc, !.pc = "trap"]
  <1>1. cpu[c] \in Registers /\ x \in Context /\ Good(cpu[c], x) /\ cpu[c].flag
    BY OfCpu DEF interrupt
  <1>2. cpu[c].ncli = 0
    BY <1>1 DEF Good, Registers
  <1>3. x.pc \in Free \ {"trap", "ticked"}
    <2>1. Depth(x) = 0
      BY <1>1, <1>2 DEF Good
    <2>2. x.pc \in Free
      BY <2>1, OfCpu DEF Depth, DepthAt, SchedulerAt, ThreadAt, Free, OnePtable, OneTicks, Aims
    <2>3. x.pc \notin {"trap", "ticked"}
      BY <1>1, <1>2 DEF Good
    <2> QED
      BY <2>2, <2>3
  <1>4. y \in Context /\ y.pc = "trap" /\ y.back = x.pc /\ y.trap
    <2>1. "trap" \in Place /\ x.pc \in Place
      BY <1>3 DEF Place, Free
    <2> QED
      BY Zenon, <1>1, <2>1 DEF Context
  <1>5. /\ cpu' = [cpu EXCEPT ![c].flag = FALSE] /\ ctx' = [ctx EXCEPT ![run[c]] = y]
        /\ UNCHANGED <<run, lock, oops>>
    BY Zenon DEF interrupt
  <1>6. (run[c] = c => SchedulerAt(y)) /\ (run[c] # c => ThreadAt(y))
    <2>1. (run[c] = c => SchedulerAt(x)) /\ (run[c] # c => ThreadAt(x))
      BY OfCpu
    <2> HIDE DEF x, y
    <2> QED
      BY <1>3, <1>4, <2>1 DEF SchedulerAt, ThreadAt, Free
  <1> HIDE DEF x, y
  <1>7. y.pc \in Free
    BY <1>4 DEF Free
  <1> QED
    BY Zenon, <1>2, <1>4, <1>5, <1>6, <1>7, FlagStep

(* The return from the trap restores the flag.                             *)
LEMMA IretStep ==
  ASSUME IInv, Distinct, NEW c \in Cpu, iret(c)
  PROVE  IInv'
  <1> DEFINE x == ctx[run[c]]
             y == [x EXCEPT !.trap = FALSE, !.pc = x.back, !.back = "none"]
  <1>1. cpu[c] \in Registers /\ x \in Context /\ Good(cpu[c], x) /\ x.pc = "ticked"
    BY OfCpu DEF iret, Is
  <1>2. cpu[c].ncli = 0 /\ x.trap
    BY <1>1 DEF Good, Depth, DepthAt, OnePtable, OneTicks
  <1>3. /\ run[c] = c => x.back \in {"sti", "loop"}
        /\ run[c] # c => x.back \in {"kernel", "woken", "trapret"}
    BY Zenon, <1>2, OfCpu DEF SchedulerAt, ThreadAt
  <1>4. y \in Context /\ y.pc = x.back /\ ~y.trap
    <2>1. "none" \in Place /\ x.back \in Place
      BY <1>1 DEF Place, Context
    <2> QED
      BY Zenon, <1>1, <2>1 DEF Context
  <1>5. /\ cpu' = [cpu EXCEPT ![c].flag = TRUE] /\ ctx' = [ctx EXCEPT ![run[c]] = y]
        /\ UNCHANGED <<run, lock, oops>>
    BY Zenon DEF iret
  <1>6. (run[c] = c => SchedulerAt(y)) /\ (run[c] # c => ThreadAt(y))
    <2> HIDE DEF x, y
    <2> QED
      BY <1>3, <1>4 DEF SchedulerAt, ThreadAt, Free
  <1> HIDE DEF x, y
  <1>7. y.pc \in Free /\ y.pc \notin {"trap", "ticked"}
    BY <1>3, <1>4 DEF Free
  <1> QED
    BY Zenon, <1>2, <1>4, <1>5, <1>6, <1>7, FlagStep

(* The sti at the head of scheduler's loop (proc.c:331).                   *)
LEMMA StiStep ==
  ASSUME IInv, Distinct, NEW c \in Cpu, sti(c, "sti", "loop") \/ sti(c, "trapret", "kernel")
  PROVE  IInv'
  <1>0. PICK to \in {"loop", "kernel"} :
           /\ Go(c, to) /\ Is(c, IF to = "loop" THEN "sti" ELSE "trapret")
           /\ cpu' = [cpu EXCEPT ![c].flag = TRUE] /\ UNCHANGED <<run, lock, oops>>
    BY DEF sti
  <1> DEFINE x == ctx[run[c]]
             y == [x EXCEPT !.pc = to]
  <1>1. /\ cpu[c] \in Registers /\ x \in Context /\ Good(cpu[c], x)
        /\ x.pc = IF to = "loop" THEN "sti" ELSE "trapret"
    BY <1>0, OfCpu DEF Is
  <1>2. cpu[c].ncli = 0 /\ ~x.trap
    BY <1>1 DEF Good, Depth, DepthAt, OnePtable, OneTicks
  <1>4. y \in Context /\ y.pc = to /\ ~y.trap
    <2>1. to \in Place
      BY DEF Place, Free
    <2> QED
      BY <1>1, <1>2, <2>1 DEF Context
  <1>5. ctx' = [ctx EXCEPT ![run[c]] = y]
    BY <1>0 DEF Go
  <1>6. (run[c] = c => SchedulerAt(y)) /\ (run[c] # c => ThreadAt(y))
    <2>1. (run[c] = c => SchedulerAt(x)) /\ (run[c] # c => ThreadAt(x))
      BY OfCpu
    <2> HIDE DEF x, y
    <2> QED
      BY <1>1, <1>4, <2>1 DEF SchedulerAt, ThreadAt, Free
  <1> HIDE DEF x, y
  <1>7. y.pc \in Free /\ y.pc \notin {"trap", "ticked", "sti", "trapret"}
    BY <1>4 DEF Free
  <1> QED
    BY Zenon, <1>0, <1>2, <1>4, <1>5, <1>6, <1>7, FlagStep

-----------------------------------------------------------------------------
(* A thread leaves: its CPU goes on as a scheduler, with ptable.lock.      *)
LEMMA SchedStep ==
  ASSUME IInv, Distinct, NEW c \in Cpu, sched(c)
  PROVE  IInv'
  <1>1. PICK t \in Ctx : t = run[c]
    BY OfCpu
  <1> DEFINE x == ctx[t]
             y == [x EXCEPT !.pc = "off", !.intena = cpu[c].intena]
  <1>2. cpu[c] \in Registers /\ x \in Context /\ Good(cpu[c], x) /\ x.pc = "sched"
    BY <1>1, OfCpu DEF sched, Is
  <1>3. t \in Thread /\ t # c /\ t \notin Cpu /\ ThreadAt(x)
    BY <1>1, <1>2, OfCpu DEF SchedulerAt, Distinct
  <1>4. Held(x) = {"ptable"} /\ cpu[c].ncli = 1 /\ ~cpu[c].flag /\ (cpu[c].intena <=> ~x.trap)
    <2>1. HeldAt("sched") = {"ptable"} /\ DepthAt("sched") = 1
      BY HeldValues DEF OnePtable
    <2>2. Held(x) = {"ptable"} /\ cpu[c].ncli = 1
      BY <1>2, <2>1 DEF Good, Held, Depth
    <2> QED
      BY <1>2, <2>2 DEF Good
  <1>5. lock["ptable"] = c
    BY <1>1, <1>4, OfCpu DEF Lock
  <1>6. /\ oops' = "no" /\ cpu' = cpu /\ lock' = lock /\ run' = [run EXCEPT ![c] = c]
        /\ ctx' = [ctx EXCEPT ![t] = y]
    <2>1. oops' = oops
      BY <1>4, <1>5 DEF sched, Panic, holding
    <2> QED
      BY Zenon, <1>1, <2>1 DEF sched, IInv
  <1>7. y \in Context /\ y.pc = "off" /\ y.trap = x.trap /\ y.back = x.back /\ (y.intena <=> cpu[c].intena)
    <2>1. "off" \in Place /\ cpu[c].intena \in BOOLEAN
      BY <1>2 DEF Place, Registers
    <2> QED
      BY Zenon, <1>2, <2>1 DEF Context
  <1>8. Parked(y)
    <2> HIDE DEF x, y
    <2> QED
      BY <1>3, <1>4, <1>7 DEF Parked, ThreadAt
  <1>t. /\ cpu \in [Cpu -> Registers] /\ ctx \in [Ctx -> Context] /\ run \in [Cpu -> Ctx]
        /\ lock \in [Lock -> Cpu \cup {None}] /\ c \in Ctx
        /\ \A d \in Cpu : run[d] = d \/ run[d] \in Thread
        /\ \A d, e \in Cpu : run[d] = run[e] => d = e
    BY DEF IInv, Ctx
  <1>9. /\ ctx'[t] = y /\ run'[c] = c
        /\ \A d \in Cpu : d # c => run'[d] = run[d]
        /\ \A z \in Ctx : z # t => ctx'[z] = ctx[z]
    BY <1>6, <1>t
  <1>10. /\ ctx' \in [Ctx -> Context] /\ run' \in [Cpu -> Ctx]
         /\ \A d \in Cpu : run'[d] = d \/ run'[d] \in Thread
    BY <1>6, <1>7, <1>9, <1>t
  <1>11. \A d, e \in Cpu : run'[d] = run'[e] => d = e
    BY <1>9, <1>t DEF Distinct
  <1>12. ctx'[c] = ctx[c] /\ ctx[c].pc = "picks" /\ ~ctx[c].trap /\ ctx[c] \in Context
    BY <1>1, <1>3, <1>9, <1>t DEF IInv
  <1>13. Good(cpu[c], ctx[c]) /\ SchedulerAt(ctx[c]) /\ Held(ctx[c]) = {"ptable"}
    <2>1. HeldAt("picks") = {"ptable"} /\ DepthAt("picks") = 1
      BY HeldValues DEF OnePtable
    <2>2. Good(cpu[c], ctx[c])
      BY <1>4, <1>12, <2>1 DEF Good, Depth
    <2> QED
      BY <1>12, <2>1, <2>2 DEF SchedulerAt, Held
  <1>14. \A d \in Cpu : d # c => run'[d] = run[d] /\ run[d] # t /\ ctx'[run'[d]] = ctx[run[d]] /\ ctx'[d] = ctx[d]
    BY <1>1, <1>3, <1>9, <1>t DEF Ctx
  <1> HIDE DEF y
  <1>15. \A d \in Cpu : Good(cpu'[d], ctx'[run'[d]])
    BY <1>6, <1>9, <1>12, <1>13, <1>14 DEF IInv
  <1>16. \A d \in Cpu : run'[d] = d => SchedulerAt(ctx'[d])
    BY <1>12, <1>13, <1>14 DEF IInv
  <1>17. ASSUME NEW d \in Cpu, run'[d] # d
         PROVE  ctx'[d].pc = "picks" /\ ~ctx'[d].trap /\ ThreadAt(ctx'[run'[d]])
    <2>1. d # c
      BY <1>9, <1>17
    <2>2. run[d] # d /\ ctx'[run'[d]] = ctx[run[d]] /\ ctx'[d] = ctx[d]
      BY <1>14, <1>17, <2>1
    <2>3. ctx[d].pc = "picks" /\ ~ctx[d].trap /\ ThreadAt(ctx[run[d]])
      BY <2>2 DEF IInv
    <2> QED
      BY <2>2, <2>3
  <1>18. ASSUME NEW z \in Thread, \A d \in Cpu : run'[d] # z
         PROVE  Parked(ctx'[z])
    <2>1. CASE z = t
      BY <1>8, <1>9, <2>1
    <2>2. CASE z # t
      <3>1. \A d \in Cpu : run[d] # z
        BY <1>1, <1>14, <1>18, <2>2
      <3>2. Parked(ctx[z])
        BY <3>1 DEF IInv
      <3> QED
        BY <1>9, <2>2, <3>2 DEF Ctx
    <2> QED
      BY <2>1, <2>2
  <1>19. ASSUME NEW d \in Cpu, NEW l \in Lock
         PROVE  lock'[l] = d <=> l \in Held(ctx'[run'[d]])
    <2>1. CASE d = c
      <3>1. lock[l] = c <=> l \in {"ptable"}
        BY <1>1, <1>4, OfCpu
      <3> QED
        BY <1>6, <1>9, <1>12, <1>13, <2>1, <3>1
    <2>2. CASE d # c
      BY <1>6, <1>14, <2>2 DEF IInv
    <2> QED
      BY <2>1, <2>2
  <1> QED
    BY <1>6, <1>t, <1>10, <1>11, <1>15, <1>16, <1>17, <1>18, <1>19 DEF IInv

(* And comes back, on this CPU or another.                                 *)
LEMMA SwtchStep ==
  ASSUME IInv, Distinct, NEW c \in Cpu, NEW t \in Thread, swtch(c, t)
  PROVE  IInv'
  <1> DEFINE s == cpu[c]
             x == ctx[t]
             l == CASE x.pc = "new" -> "forkret" [] x.trap -> "yielded" [] OTHER -> "slept"
             y == [x EXCEPT !.pc = l]
             n == IF x.pc = "new" THEN s ELSE [s EXCEPT !.intena = x.intena]
  <1>t. /\ cpu \in [Cpu -> Registers] /\ ctx \in [Ctx -> Context] /\ run \in [Cpu -> Ctx]
        /\ lock \in [Lock -> Cpu \cup {None}] /\ t \in Ctx /\ c \in Ctx /\ t \notin Cpu
        /\ \A d \in Cpu : run[d] = d \/ run[d] \in Thread
        /\ \A d, e \in Cpu : run[d] = run[e] => d = e
    BY DEF IInv, Ctx, Distinct
  <1>1. s \in Registers /\ x \in Context /\ ctx[c] \in Context /\ run[c] = c /\ ctx[c].pc = "picks"
        /\ Good(s, ctx[c]) /\ x.pc \in {"off", "new"}
    BY <1>t, OfCpu DEF swtch, Is
  <1>2. \A d \in Cpu : run[d] # t
    <2> SUFFICES ASSUME NEW d \in Cpu, run[d] = t
                 PROVE  FALSE
      OBVIOUS
    <2>1. ThreadAt(x)
      BY <1>t, OfCpu
    <2> QED
      BY <1>1, <2>1 DEF ThreadAt, Free, OnePtable, OneTicks
  <1>3. Parked(x)
    BY <1>2 DEF IInv
  <1>4. ~ctx[c].trap /\ s.ncli = 1 /\ ~s.flag /\ Held(ctx[c]) = {"ptable"}
    <2>1. HeldAt("picks") = {"ptable"} /\ DepthAt("picks") = 1
      BY HeldValues DEF OnePtable
    <2>2. s.ncli = 1
      BY <1>1, <2>1 DEF Good, Depth
    <2> QED
      BY <1>1, <2>1, <2>2 DEF Good, Held
  <1>5. /\ l \in {"forkret", "yielded", "slept"}
        /\ l = "forkret" <=> x.pc = "new"
        /\ l = "yielded" => x.trap
    <2>1. CASE x.pc = "new"
      <3>1. ~x.trap
        BY <1>3, <2>1 DEF Parked
      <3> QED
        BY <2>1, <3>1
    <2>2. CASE x.pc # "new" /\ x.trap
      BY <2>2
    <2>3. CASE x.pc # "new" /\ ~x.trap
      BY <2>3
    <2> QED
      BY <2>1, <2>2, <2>3
  <1> HIDE DEF l
  <1>6. y \in Context /\ y.pc = l /\ y.trap = x.trap /\ y.back = x.back
    <2>1. l \in Place
      BY <1>5 DEF Place, OnePtable
    <2> QED
      BY <1>1, <2>1 DEF Context
  <1>7. n \in Registers /\ n.ncli = 1 /\ ~n.flag /\ (x.pc # "new" => n.intena = x.intena)
    <2>1. CASE x.pc = "new"
      BY <1>1, <1>4, <2>1
    <2>2. CASE x.pc # "new"
      <3>1. x.intena \in BOOLEAN /\ n = [s EXCEPT !.intena = x.intena]
        BY <1>1, <2>2 DEF Context
      <3> QED
        BY <1>1, <1>4, <2>2, <3>1 DEF Registers
    <2> QED
      BY <2>1, <2>2
  <1>8. /\ run' = [run EXCEPT ![c] = t] /\ ctx' = [ctx EXCEPT ![t] = y] /\ UNCHANGED <<lock, oops>>
        /\ cpu' = [cpu EXCEPT ![c] = n]
    <2>1. run' = [run EXCEPT ![c] = t] /\ UNCHANGED <<lock, oops>>
      BY DEF swtch
    <2>2. ctx' = [ctx EXCEPT ![t] = y]
      BY DEF swtch, l
    <2>3. cpu' = [cpu EXCEPT ![c] = n]
      <3>1. CASE x.pc = "new"
        BY <1>t, <3>1 DEF swtch, Resumed
      <3>2. CASE x.pc # "new"
        BY <1>t, <3>2 DEF swtch, Resumed
      <3> QED
        BY <3>1, <3>2
    <2> QED
      BY <2>1, <2>2, <2>3
  <1>9. Good(n, y) /\ ThreadAt(y) /\ Held(y) = {"ptable"}
    <2>1. HeldAt(l) = {"ptable"} /\ DepthAt(l) = 1
      BY <1>5, HeldValues DEF OnePtable
    <2> HIDE DEF x, y, n, s
    <2>2. Depth(y) = 1 /\ Held(y) = {"ptable"}
      BY <1>5, <1>6, <2>1 DEF Depth, Held
    <2>3. Good(n, y)
      BY <1>3, <1>5, <1>6, <1>7, <2>2 DEF Good, Parked
    <2>4. ThreadAt(y)
      BY <1>3, <1>5, <1>6 DEF ThreadAt, Parked, OnePtable
    <2> QED
      BY <2>2, <2>3, <2>4
  <1> HIDE DEF x, y, n, s
  <1>10. /\ ctx'[t] = y /\ run'[c] = t /\ cpu'[c] = n
         /\ \A d \in Cpu : d # c => run'[d] = run[d] /\ cpu'[d] = cpu[d]
         /\ \A z \in Ctx : z # t => ctx'[z] = ctx[z]
    BY <1>8, <1>t
  <1>11. /\ ctx' \in [Ctx -> Context] /\ run' \in [Cpu -> Ctx] /\ cpu' \in [Cpu -> Registers]
         /\ \A d \in Cpu : run'[d] = d \/ run'[d] \in Thread
    BY <1>6, <1>7, <1>8, <1>10, <1>t
  <1>12. \A d, e \in Cpu : run'[d] = run'[e] => d = e
    BY <1>2, <1>10, <1>t
  <1>13. \A d \in Cpu : d # c => ctx'[run'[d]] = ctx[run[d]]
    BY <1>2, <1>10, <1>t
  <1>14. \A d \in Cpu : ctx'[d] = ctx[d]
    BY <1>10, <1>t DEF Ctx
  <1>15. \A d \in Cpu : Good(cpu'[d], ctx'[run'[d]])
    BY <1>9, <1>10, <1>13 DEF IInv
  <1>16. \A d \in Cpu : run'[d] = d => SchedulerAt(ctx'[d])
    BY <1>10, <1>14, <1>t DEF IInv
  <1>17. ASSUME NEW d \in Cpu, run'[d] # d
         PROVE  ctx'[d].pc = "picks" /\ ~ctx'[d].trap /\ ThreadAt(ctx'[run'[d]])
    <2>1. CASE d = c
      BY <1>1, <1>4, <1>9, <1>10, <1>14, <2>1
    <2>2. CASE d # c
      <3>1. run[d] # d /\ ctx'[run'[d]] = ctx[run[d]] /\ ctx'[d] = ctx[d]
        BY <1>10, <1>13, <1>14, <1>17, <2>2
      <3>2. ctx[d].pc = "picks" /\ ~ctx[d].trap /\ ThreadAt(ctx[run[d]])
        BY <3>1 DEF IInv
      <3> QED
        BY <3>1, <3>2
    <2> QED
      BY <2>1, <2>2
  <1>18. ASSUME NEW z \in Thread, \A d \in Cpu : run'[d] # z
         PROVE  Parked(ctx'[z])
    <2>1. z # t /\ z # c /\ \A d \in Cpu : run[d] # z
      BY <1>1, <1>10, <1>18 DEF Distinct
    <2>2. Parked(ctx[z])
      BY <2>1 DEF IInv
    <2> QED
      BY <1>10, <2>1, <2>2 DEF Ctx
  <1>19. ASSUME NEW d \in Cpu, NEW k \in Lock
         PROVE  lock'[k] = d <=> k \in Held(ctx'[run'[d]])
    <2>1. CASE d = c
      <3>1. lock[k] = c <=> k \in {"ptable"}
        BY <1>1, <1>4, OfCpu
      <3> QED
        BY <1>8, <1>9, <1>10, <2>1, <3>1
    <2>2. CASE d # c
      BY <1>8, <1>13, <2>2 DEF IInv
    <2> QED
      BY <2>1, <2>2
  <1>20. oops' = "no" /\ lock' \in [Lock -> Cpu \cup {None}]
    BY <1>8, <1>t DEF IInv
  <1> QED
    BY <1>11, <1>12, <1>15, <1>16, <1>17, <1>18, <1>19, <1>20 DEF IInv

-----------------------------------------------------------------------------
(* Every step of every CPU keeps the invariant.                            *)
LEMMA InvariantStep ==
  ASSUME Distinct, IInv, [Next]_spinVars
  PROVE  IInv'
  <1>1. CASE UNCHANGED spinVars
    BY <1>1 DEF spinVars, IInv
  <1>2. ASSUME NEW c \in Cpu, Acquires(c)
        PROVE  IInv'
    BY <1>2, AcquireStep DEF Acquires, Wants
  <1>3. ASSUME NEW c \in Cpu, Releases(c)
        PROVE  IInv'
    BY <1>3, ReleaseStep DEF Releases, Gives
  <1> QED
    BY <1>1, <1>2, <1>3, XchgStep, SchedStep, InterruptStep, IretStep, StiStep, SwtchStep DEF Next

(* The invariant holds when each CPU enters its scheduler.                 *)
LEMMA InvariantInit ==
  ASSUME Distinct, Init
  PROVE  IInv
  <1> DEFINE s0 == [flag |-> FALSE, ncli |-> 0, intena |-> FALSE]
             x0(l) == [pc |-> l, back |-> "none", trap |-> FALSE,
                       intena |-> FALSE, lk |-> "ptable", to |-> "picks"]
  <1>1. s0 \in Registers
    BY DEF Registers
  <1>2. x0("sti") \in Context /\ x0("new") \in Context
    BY DEF Context, Place, Free, OnePtable, Lock
  <1>3. /\ cpu = [c \in Cpu |-> s0] /\ run = [c \in Cpu |-> c] /\ lock = [k \in Lock |-> None]
        /\ ctx = [x \in Ctx |-> x0(IF x \in Cpu THEN "sti" ELSE "new")] /\ oops = "no"
    BY DEF Init
  <1>4. /\ \A c \in Cpu : cpu[c] = s0 /\ run[c] = c /\ ctx[c] = x0("sti")
        /\ \A t \in Thread : ctx[t] = x0("new")
    BY Zenon, <1>3 DEF Ctx, Distinct
  <1>5. Good(s0, x0("sti")) /\ SchedulerAt(x0("sti")) /\ Held(x0("sti")) = {} /\ Parked(x0("new"))
    <2>1. HeldAt("sti") = {} /\ DepthAt("sti") = 0
      BY HeldValues DEF Free
    <2>2. Good(s0, x0("sti"))
      BY <2>1 DEF Good, Depth
    <2> QED
      BY <2>1, <2>2 DEF SchedulerAt, Parked, Held
  <1>6. cpu \in [Cpu -> Registers]
    BY <1>1, <1>3
  <1>7. ctx \in [Ctx -> Context]
    <2>1. \A x \in Ctx : x0(IF x \in Cpu THEN "sti" ELSE "new") \in Context
      BY Zenon, <1>2
    <2> HIDE DEF x0
    <2> QED
      BY <1>3, <2>1
  <1>8. run \in [Cpu -> Ctx] /\ lock \in [Lock -> Cpu \cup {None}]
    BY <1>3 DEF Ctx
  <1>9. \A c \in Cpu : \A l \in Lock : lock[l] # c
    BY <1>3 DEF Distinct
  <1> HIDE DEF s0, x0
  <1> QED
    BY <1>3, <1>4, <1>5, <1>6, <1>7, <1>8, <1>9 DEF IInv

(* What a CPU has follows from where its context is, on any number of CPUs *)
(* and threads (spinlock.c with sched, scheduler, sleep and forkret).      *)
THEOREM Invariance ==
  ASSUME Distinct
  PROVE  Spec => []IInv
  BY InvariantInit, InvariantStep, PTL DEF Spec

(* A thread keeps its own interrupt state across sleep and yield, on       *)
(* whichever CPU it comes back (sched saves intena, proc.c:379).           *)
THEOREM IntenaOfThread ==
  ASSUME Distinct
  PROVE  Spec => []IntenaOwn
  <1>1. IInv => IntenaOwn
    <2> SUFFICES ASSUME IInv, NEW c \in Cpu, cpu[c].ncli = 0, ctx[run[c]].pc \notin {"sti", "trapret"}
                 PROVE  cpu[c].flag = ~ctx[run[c]].trap
      BY DEF IntenaOwn
    <2>1. cpu[c].flag \in BOOLEAN /\ ctx[run[c]].trap \in BOOLEAN
      BY DEF IInv, Registers, Context
    <2>2. cpu[c].flag <=> ~ctx[run[c]].trap
      BY DEF IInv, Good
    <2> QED
      BY <2>1, <2>2, Zenon
  <1> QED
    BY <1>1, Invariance, PTL

(* None of the panics of acquire, release, popcli and sched is met, and    *)
(* ncli counts the locks held and the one spun on.                         *)
THEOREM CliCounts ==
  ASSUME Distinct
  PROVE  Spec => []CliCount
  <1>1. IInv => CliCount
    <2> SUFFICES ASSUME IInv, NEW c \in Cpu
                 PROVE  cpu[c].ncli = Cardinality({l \in Lock : lock[l] = c})
                                      + IF ctx[run[c]].pc = "spins" THEN 1 ELSE 0
      BY DEF CliCount, IInv
    <2> DEFINE x == ctx[run[c]]
    <2>1. {l \in Lock : lock[l] = c} = {l \in Lock : l \in Held(x)}
      BY OfCpu
    <2>2. cpu[c].ncli = Depth(x)
      BY OfCpu DEF Good
    <2>3. \A l : HeldAt(l) \subseteq Lock
      BY DEF HeldAt
    <2>4. {l \in Lock : lock[l] = c} = Held(x)
      BY <2>1, <2>3 DEF Held
    <2>5. /\ Cardinality({}) = 0 /\ Cardinality({"ptable"}) = 1 /\ Cardinality({"tickslock"}) = 1
          /\ Cardinality({"tickslock", "ptable"}) = 2
      <3>1. Cardinality({}) = 0 /\ IsFiniteSet({})
        BY FS_EmptySet
      <3>2. /\ Cardinality({"ptable"}) = 1 /\ IsFiniteSet({"ptable"})
            /\ Cardinality({"tickslock"}) = 1 /\ IsFiniteSet({"tickslock"})
        BY Zenon, FS_Singleton
      <3>3. Cardinality({"tickslock"} \cup {"ptable"}) = 2
        BY <3>2, FS_AddElement
      <3>4. {"tickslock"} \cup {"ptable"} = {"tickslock", "ptable"}
        OBVIOUS
      <3> QED
        BY <3>1, <3>2, <3>3, <3>4
    <2>6. CASE x.pc = "spins"
      <3>1. <<x.lk, x.to>> \in Aims \cup {<<"ptable", "picks">>}
        BY <2>6, OfCpu DEF SchedulerAt, ThreadAt, Aims, Free, OnePtable, OneTicks
      <3>2. Held(x) = HeldAt(x.to) \ {x.lk} /\ Depth(x) = DepthAt(x.to)
        BY <2>6 DEF Held, Depth
      <3>3. CASE x.to = "sleeps"
        <4>1. x.lk = "ptable"
          BY <3>1, <3>3 DEF Aims
        <4>2. Held(x) = {"tickslock"} /\ Depth(x) = 2
          BY <3>2, <3>3, <4>1, HeldValues
        <4> QED
          BY <2>2, <2>4, <2>5, <2>6, <4>2
      <3>4. CASE x.to # "sleeps"
        <4>1. Held(x) = {} /\ Depth(x) = 1
          BY <3>1, <3>2, <3>4, HeldValues DEF Aims, OnePtable, OneTicks
        <4> QED
          BY <2>2, <2>4, <2>5, <2>6, <4>1
      <3> QED
        BY <3>3, <3>4
    <2>7. CASE x.pc # "spins"
      <3>1. Held(x) = HeldAt(x.pc) /\ Depth(x) = DepthAt(x.pc)
        BY <2>7 DEF Held, Depth
      <3>2. x.pc \in Free \cup OnePtable \cup OneTicks \cup {"sleeps"}
        BY Zenon, <2>7, OfCpu DEF SchedulerAt, ThreadAt, Free, OnePtable, OneTicks
      <3>3. \/ Held(x) = {} /\ Depth(x) = 0
            \/ Held(x) = {"ptable"} /\ Depth(x) = 1
            \/ Held(x) = {"tickslock"} /\ Depth(x) = 1
            \/ Held(x) = {"tickslock", "ptable"} /\ Depth(x) = 2
        BY <3>1, <3>2, HeldValues
      <3> QED
        BY <2>2, <2>4, <2>5, <2>7, <3>3
    <2> QED
      BY <2>6, <2>7
  <1> QED
    BY <1>1, Invariance, PTL

(* No CPU takes an interrupt while it holds a lock or spins on one         *)
(* (acquire's pushcli, spinlock.c:27).                                     *)
THEOREM NoInterruptHoldingLock ==
  ASSUME Distinct
  PROVE  Spec => []NoInterrupt
  <1>1. IInv /\ CliCount => NoInterrupt
    BY DEF IInv, Good, NoInterrupt
  <1> QED
    BY <1>1, Invariance, CliCounts, PTL
=============================================================================
