---------------------------- MODULE ProcsProofs ----------------------------
(***************************************************************************)
(* What the process table keeps for every table size, every number of      *)
(* processors and every length of sleep.                                   *)
(***************************************************************************)
EXTENDS Procs, TLAPS

(* init never leaves and has no parent; nobody is its own parent.          *)
Family ==
    /\ Alive(InitProc) /\ parent[InitProc] = None
    /\ \A q \in Proc : parent[q] # q

(* fork's np is in the making, and is nobody else's.                       *)
Forking ==
    /\ \A p \in Proc : pc[p] = "fork" =>
         Alive(p) /\ child[p] \in Proc /\ state[child[p]] = "EMBRYO"
    /\ \A p, q \in Proc : pc[p] = "fork" /\ pc[q] = "fork" /\ child[p] = child[q] => p = q

(* Between the look at ticks and sleep(), tickslock keeps the timer out.   *)
Sleeping ==
    \A p \in Proc : pc[p] = "sleep" => state[p] = "RUNNING" /\ tickslock = p /\ left[p] > 0

IInv ==
    /\ TypeOK /\ OneCpu
    /\ Family /\ Forking /\ Sleeping
    /\ HasParent /\ WaitWoken /\ TickSeen

(* Without kill of a pid no fork returned.                                 *)
SlotsClean == \A q \in Proc : state[q] \in {"UNUSED", "EMBRYO"} => ~killed[q] /\ pid[q] # "known"

-----------------------------------------------------------------------------
States == {"UNUSED", "EMBRYO", "SLEEPING", "RUNNABLE", "RUNNING", "ZOMBIE"}
Places == {"user", "fork", "exit", "wait", "sleep", "relock"}

(* The types of the variables, one by one.                                 *)
LEMMA Types ==
  ASSUME TypeOK
  PROVE  /\ state \in [Proc -> States] /\ pid \in [Proc -> {"0", "secret", "known"}]
         /\ parent \in [Proc -> Proc \cup {None}]
         /\ chan \in [Proc -> Proc \cup {"ticks", None}]
         /\ killed \in [Proc -> BOOLEAN]
         /\ running \in [CPU -> Proc \cup {None}]
         /\ pc \in [Proc -> Places] /\ child \in [Proc -> Proc \cup {None}]
         /\ left \in [Proc -> 0 .. MaxTicks] /\ tickslock \in Proc \cup {None}
         /\ InitProc \in Proc /\ None \notin Proc /\ None # "ticks" /\ "ticks" \notin Proc
         /\ MaxTicks \in Nat
  BY Zenon, ProcsAssumption DEF TypeOK, States, Places

(* sched leaves a process or nobody on each CPU.                           *)
LEMMA SchedType ==
  ASSUME NEW p \in Proc, running \in [CPU -> Proc \cup {None}], sched(p)
  PROVE  running' \in [CPU -> Proc \cup {None}]
  BY DEF sched

(* wakeup1 leaves a state in each slot of the table.                       *)
LEMMA WokenType ==
  ASSUME state \in [Proc -> States], NEW S
  PROVE  Woken(S) \in [Proc -> States]
  BY DEF Woken, States

(* Every step keeps the types.                                             *)
LEMMA TypeStep ==
  ASSUME IInv, Next
  PROVE  TypeOK'
  <1> USE DEF States, Places
  <1>t. TypeOK
    BY DEF IInv
  <1>f. \A p \in Proc : At(p, "fork") => child[p] \in Proc
    BY DEF IInv, Forking, At
  <1>a. /\ InitProc \in Proc /\ None \notin Proc /\ MaxTicks \in Nat
    BY ProcsAssumption
  <1>1. ASSUME NEW p \in Proc, NEW c \in CPU, scheduler(c, p)
        PROVE  TypeOK'
    BY <1>1, <1>t DEF scheduler, TypeOK
  <1>2. ASSUME NEW p \in Proc, yield(p)
        PROVE  TypeOK'
    <2>1. running' \in [CPU -> Proc \cup {None}]
      BY <1>2, <1>t, Types, SchedType DEF yield
    <2> QED
      BY Zenon, <1>2, <1>t, <2>1 DEF yield, TypeOK
  <1>3. ASSUME NEW p \in Proc, NEW q \in Proc, allocproc(p, q)
        PROVE  TypeOK'
    BY Zenon, <1>3, <1>t DEF allocproc, TypeOK, Goto
  <1>4. ASSUME NEW p \in Proc, fork_full(p)
        PROVE  TypeOK'
    BY Zenon, <1>4, <1>t DEF fork_full, TypeOK, Goto, Failed
  <1>5. ASSUME NEW p \in Proc, fork_fails(p)
        PROVE  TypeOK'
    BY Zenon, <1>5, <1>t, <1>f DEF fork_fails, TypeOK, Goto, Failed
  <1>6. ASSUME NEW p \in Proc, fork(p)
        PROVE  TypeOK'
    <2>1. child[p] \in Proc
      BY <1>6, <1>f DEF fork
    <2> QED
      BY Zenon, <1>6, <1>t, <2>1 DEF fork, TypeOK
  <1>7. ASSUME NEW p \in Proc, exit(p)
        PROVE  TypeOK'
    <2>0. UNCHANGED <<pid, chan, killed, pc, child, left, tickslock>>
      BY Zenon, <1>7 DEF exit
    <2>1. CASE p = InitProc
      <3>1. panicked' = "init exiting" /\ UNCHANGED <<state, parent, running>>
        BY Zenon, <1>7, <2>1 DEF exit
      <3> QED
        BY Zenon, <1>t, <2>0, <3>1 DEF TypeOK
    <2>2. CASE p # InitProc
      <3>1. /\ state' = [Woken(Notified(p)) EXCEPT ![p] = "ZOMBIE"] /\ parent' = Orphans(p)
            /\ sched(p) /\ panicked' = panicked
        BY Zenon, <1>7, <2>2 DEF exit
      <3>2. Woken(Notified(p)) \in [Proc -> States]
        BY <1>t, Types, WokenType
      <3>3. parent' \in [Proc -> Proc \cup {None}]
        BY Zenon, <1>t, <1>a, <3>1 DEF TypeOK, Orphans
      <3>4. running' \in [CPU -> Proc \cup {None}]
        BY <1>t, <3>1, Types, SchedType
      <3>5. state' \in [Proc -> States]
        BY <3>1, <3>2
      <3> QED
        BY Zenon, <1>t, <2>0, <3>1, <3>3, <3>4, <3>5 DEF TypeOK
    <2> QED
      BY <2>1, <2>2
  <1>8. ASSUME NEW p \in Proc, NEW q \in Proc, wait_buries(p, q)
        PROVE  TypeOK'
    <2>1. killed' \in [Proc -> BOOLEAN]
      BY Zenon, <1>8, <1>t DEF wait_buries, Buried, TypeOK
    <2> QED
      BY Zenon, <1>8, <1>t, <2>1 DEF wait_buries, TypeOK, Goto
  <1>9. ASSUME NEW p \in Proc, wait_fails(p)
        PROVE  TypeOK'
    BY Zenon, <1>9, <1>t DEF wait_fails, TypeOK, Goto
  <1>10. ASSUME NEW p \in Proc, wait_sleeps(p)
        PROVE  TypeOK'
    <2>1. running' \in [CPU -> Proc \cup {None}]
      BY <1>10, <1>t, Types, SchedType DEF wait_sleeps
    <2> QED
      BY Zenon, <1>10, <1>t, <2>1 DEF wait_sleeps, TypeOK, Goto
  <1>11. ASSUME NEW p \in Proc, NEW q \in Proc, kill(p, q)
        PROVE  TypeOK'
    <2>1. killed' \in [Proc -> BOOLEAN]
      BY Zenon, <1>11, <1>t DEF kill, TypeOK
    <2>2. state' \in [Proc -> States]
      BY Zenon, <1>11, <1>t DEF kill, TypeOK, Roused
    <2> QED
      BY Zenon, <1>11, <1>t, <2>1, <2>2 DEF kill, TypeOK
  <1>12. ASSUME NEW p \in Proc, NEW n \in 0 .. MaxTicks, looks(p, n)
        PROVE  TypeOK'
    <2>1. /\ UNCHANGED <<state, pid, parent, chan, killed, running, child, panicked>>
          /\ tickslock' \in {tickslock, p}
          /\ pc' = [pc EXCEPT ![p] = "user"] \/ pc' = [pc EXCEPT ![p] = "sleep"]
          /\ left' = [left EXCEPT ![p] = 0] \/ left' = [left EXCEPT ![p] = n]
      BY <1>12 DEF looks, Goto
    <2>2. left' \in [Proc -> 0 .. MaxTicks]
      <3>1. left \in [Proc -> 0 .. MaxTicks]
        BY Zenon, <1>t DEF TypeOK
      <3>2. 0 \in 0 .. MaxTicks
        BY <1>a
      <3> QED
        BY <2>1, <3>1, <3>2
    <2> QED
      BY Zenon, <1>t, <2>1, <2>2 DEF TypeOK
  <1>13. ASSUME NEW p \in Proc, sleep(p)
        PROVE  TypeOK'
    <2>1. running' \in [CPU -> Proc \cup {None}]
      BY <1>13, <1>t, Types, SchedType DEF sleep
    <2> QED
      BY Zenon, <1>13, <1>t, <2>1 DEF sleep, TypeOK, Goto
  <1>14. CASE tick
    <2>1. state' \in [Proc -> States]
      BY <1>14, <1>t, Types, WokenType DEF tick
    <2>2. left' \in [Proc -> 0 .. MaxTicks]
      BY <1>14, <1>t, <1>a DEF tick, TypeOK, Elapsed
    <2> QED
      BY <1>14, <1>t, <2>1, <2>2 DEF tick, TypeOK
  <1>15. CASE frozen
    BY Zenon, <1>15, <1>t DEF frozen, vars, TypeOK
  <1>16. \A p \in Proc : left[p] \in 0 .. MaxTicks
    BY Zenon, <1>t DEF TypeOK
  <1> QED
    BY <1>1, <1>2, <1>3, <1>4, <1>5, <1>6, <1>7, <1>8, <1>9, <1>10, <1>11, <1>12, <1>13, <1>14,
       <1>15, <1>16 DEF Next, wait, sys_sleep, relock

-----------------------------------------------------------------------------
(* Who else is running does not change, or one process leaves its CPU.     *)
LEMMA CpusKept ==
  ASSUME OneCpu, running' = running,
         \A q \in Proc : state'[q] = "RUNNING" <=> state[q] = "RUNNING"
  PROVE  OneCpu'
  BY DEF OneCpu

(* A process that leaves its CPU by sched is the only one it stops.        *)
LEMMA CpuLeft ==
  ASSUME OneCpu, TypeOK, NEW p \in Proc, sched(p), state'[p] # "RUNNING",
         \A q \in Proc : q # p => (state'[q] = "RUNNING" <=> state[q] = "RUNNING")
  PROVE  OneCpu'
  <1>1. None \notin Proc /\ running \in [CPU -> Proc \cup {None}]
    BY Types
  <1>2. \A c \in CPU : running'[c] = IF running[c] = p THEN None ELSE running[c]
    BY DEF sched
  <1> QED
    BY <1>1, <1>2 DEF OneCpu

(* Every step keeps a RUNNING process on one CPU and no other there.       *)
LEMMA CpuStep ==
  ASSUME IInv, Next
  PROVE  OneCpu'
  <1>t. /\ TypeOK /\ OneCpu /\ state \in [Proc -> States]
        /\ running \in [CPU -> Proc \cup {None}] /\ None \notin Proc
    BY Types DEF IInv
  <1>f. \A p \in Proc : At(p, "fork") => child[p] \in Proc /\ state[child[p]] = "EMBRYO"
    BY DEF IInv, Forking, At
  <1>1. ASSUME NEW p \in Proc, NEW c \in CPU, scheduler(c, p)
        PROVE  OneCpu'
    <2>1. /\ running' = [running EXCEPT ![c] = p] /\ state' = [state EXCEPT ![p] = "RUNNING"]
          /\ running[c] = None /\ state[p] = "RUNNABLE"
      BY <1>1 DEF scheduler
    <2>2. \A d \in CPU : running[d] # p
      BY <1>t, <2>1 DEF OneCpu
    <2> QED
      BY <1>t, <2>1, <2>2 DEF OneCpu
  <1>2. ASSUME NEW p \in Proc, yield(p) \/ wait_sleeps(p) \/ sleep(p)
        PROVE  OneCpu'
    <2>1. /\ sched(p)
          /\ state' = [state EXCEPT ![p] = "RUNNABLE"] \/ state' = [state EXCEPT ![p] = "SLEEPING"]
      BY <1>2 DEF yield, wait_sleeps, sleep
    <2>2. state'[p] # "RUNNING" /\ \A q \in Proc : q # p => state'[q] = state[q]
      BY <1>t, <2>1
    <2> QED
      BY <1>t, <2>1, <2>2, CpuLeft
  <1>3. ASSUME NEW p \in Proc, exit(p)
        PROVE  OneCpu'
    <2>1. CASE p = InitProc
      <3>1. UNCHANGED <<state, running>>
        BY Zenon, <1>3, <2>1 DEF exit
      <3> QED
        BY <1>t, <3>1, CpusKept
    <2>2. CASE p # InitProc
      <3>1. sched(p) /\ state' = [Woken(Notified(p)) EXCEPT ![p] = "ZOMBIE"]
        BY Zenon, <1>3, <2>2 DEF exit
      <3>2. state'[p] # "RUNNING" /\ \A q \in Proc : q # p => (state'[q] = "RUNNING" <=> state[q] = "RUNNING")
        BY <1>t, <3>1 DEF Woken
      <3> QED
        BY <1>t, <3>1, <3>2, CpuLeft
    <2> QED
      BY <2>1, <2>2
  <1>4. ASSUME NEW p \in Proc, fork_fails(p) \/ fork(p)
        PROVE  OneCpu'
    <2>1. child[p] \in Proc /\ state[child[p]] = "EMBRYO" /\ running' = running
      BY <1>4, <1>f DEF fork_fails, fork
    <2>2. state' = [state EXCEPT ![child[p]] = "UNUSED"] \/ state' = [state EXCEPT ![child[p]] = "RUNNABLE"]
      BY <1>4 DEF fork_fails, fork
    <2>3. \A q \in Proc : state'[q] = "RUNNING" <=> state[q] = "RUNNING"
      BY <1>t, <2>1, <2>2
    <2> QED
      BY <1>t, <2>1, <2>3, CpusKept
  <1>5. ASSUME NEW p \in Proc, NEW q \in Proc, allocproc(p, q) \/ wait_buries(p, q) \/ kill(p, q)
        PROVE  OneCpu'
    <2>1. running' = running /\ \A x \in Proc : state'[x] = "RUNNING" <=> state[x] = "RUNNING"
      BY <1>5, <1>t DEF allocproc, wait_buries, kill, ZombieOf, Roused
    <2> QED
      BY <1>t, <2>1, CpusKept
  <1>6. CASE UNCHANGED <<state, running>>
    BY <1>6, <1>t, CpusKept
  <1>7. CASE tick
    <2>1. running' = running /\ \A x \in Proc : state'[x] = "RUNNING" <=> state[x] = "RUNNING"
      BY <1>7, <1>t DEF tick, Woken
    <2> QED
      BY <1>t, <2>1, CpusKept
  <1>8. ASSUME NEW p \in Proc, fork_full(p) \/ wait_fails(p) \/ relock(p)
        PROVE  UNCHANGED <<state, running>>
    BY <1>8 DEF fork_full, wait_fails, relock, looks
  <1>9. ASSUME NEW p \in Proc, NEW n \in 0 .. MaxTicks, sys_sleep(p, n)
        PROVE  UNCHANGED <<state, running>>
    BY <1>9 DEF sys_sleep, looks
  <1>10. CASE frozen
    BY <1>6, <1>10 DEF frozen, vars
  <1> QED
    BY <1>1, <1>2, <1>3, <1>4, <1>5, <1>6, <1>7, <1>8, <1>9, <1>10 DEF Next, wait

-----------------------------------------------------------------------------
(* Steps that change no process's life: the table keeps its shape.         *)
Kept == Family' /\ Forking' /\ Sleeping' /\ HasParent' /\ WaitWoken' /\ TickSeen'

(* What every action finds.                                                *)
LEMMA Found ==
  ASSUME IInv
  PROVE  /\ state \in [Proc -> States] /\ parent \in [Proc -> Proc \cup {None}]
         /\ chan \in [Proc -> Proc \cup {"ticks", None}]
         /\ pc \in [Proc -> Places] /\ child \in [Proc -> Proc \cup {None}]
         /\ left \in [Proc -> 0 .. MaxTicks]
         /\ InitProc \in Proc /\ None \notin Proc /\ None # "ticks" /\ "ticks" \notin Proc
         /\ Family /\ Forking /\ Sleeping /\ HasParent /\ WaitWoken /\ TickSeen
  BY Types DEF IInv

(* scheduler runs a RUNNABLE process (proc.c:334-343).                     *)
LEMMA SchedulerStep ==
  ASSUME IInv, NEW p \in Proc, NEW c \in CPU, scheduler(c, p)
  PROVE  Kept
  <1>1. /\ state[p] = "RUNNABLE" /\ state' = [state EXCEPT ![p] = "RUNNING"]
        /\ chan' = [chan EXCEPT ![p] = None]
        /\ UNCHANGED <<parent, killed, pc, child, left, tickslock>>
    BY DEF scheduler
  <1>2. \A q \in Proc : q # p => state'[q] = state[q] /\ chan'[q] = chan[q]
    BY <1>1, Found
  <1>3. state'[p] = "RUNNING" /\ \A q \in Proc : Alive(q)' <=> Alive(q)
    BY <1>1, Found DEF Alive
  <1>4. Family'
    BY <1>1, <1>3, Found DEF Family
  <1>5. Forking'
    BY <1>1, <1>2, <1>3, Found DEF Forking
  <1>6. Sleeping'
    BY <1>1, <1>2, <1>3, Found DEF Sleeping
  <1>7. HasParent'
    BY <1>1, <1>2, <1>3, Found DEF HasParent
  <1>8. WaitWoken'
    BY <1>1, <1>2, <1>3, Found DEF WaitWoken, ZombieOf
  <1>9. TickSeen'
    BY <1>1, <1>2, <1>3, Found DEF TickSeen
  <1> QED
    BY <1>4, <1>5, <1>6, <1>7, <1>8, <1>9 DEF Kept

(* yield gives the CPU up (proc.c:386-392).                                *)
LEMMA YieldStep ==
  ASSUME IInv, NEW p \in Proc, yield(p)
  PROVE  Kept
  <1>1. /\ state[p] = "RUNNING" /\ state' = [state EXCEPT ![p] = "RUNNABLE"] /\ pc[p] # "sleep"
        /\ UNCHANGED <<parent, chan, killed, pc, child, left, tickslock>>
    BY DEF yield, At, Calls
  <1>2. \A q \in Proc : q # p => state'[q] = state[q]
    BY <1>1, Found
  <1>3. state'[p] = "RUNNABLE" /\ \A q \in Proc : Alive(q)' <=> Alive(q)
    BY <1>1, Found DEF Alive
  <1>4. Family'
    BY <1>1, <1>3, Found DEF Family
  <1>5. Forking'
    BY <1>1, <1>2, <1>3, Found DEF Forking
  <1>6. Sleeping'
    BY <1>1, <1>2, <1>3, Found DEF Sleeping
  <1>7. HasParent'
    BY <1>1, <1>2, <1>3, Found DEF HasParent
  <1>8. WaitWoken'
    BY <1>1, <1>2, <1>3, Found DEF WaitWoken, ZombieOf
  <1>9. TickSeen'
    BY <1>1, <1>2, <1>3, Found DEF TickSeen
  <1> QED
    BY <1>4, <1>5, <1>6, <1>7, <1>8, <1>9 DEF Kept

(* fork takes a slot with allocproc: it is an EMBRYO until fork ends.      *)
LEMMA AllocStep ==
  ASSUME IInv, NEW p \in Proc, NEW q \in Proc, allocproc(p, q)
  PROVE  Kept
  <1>1. /\ state[p] = "RUNNING" /\ state[q] = "UNUSED" /\ pc[p] = "user"
        /\ state' = [state EXCEPT ![q] = "EMBRYO"] /\ child' = [child EXCEPT ![p] = q]
        /\ pc' = [pc EXCEPT ![p] = "fork"]
        /\ UNCHANGED <<parent, chan, killed, left, tickslock>>
    BY DEF allocproc, At, Calls, Goto
  <1>2. /\ \A x \in Proc : x # q => state'[x] = state[x]
        /\ \A x \in Proc : x # p => pc'[x] = pc[x] /\ child'[x] = child[x]
        /\ state'[q] = "EMBRYO" /\ pc'[p] = "fork" /\ child'[p] = q
    BY <1>1, Found
  <1>3. Alive(p) /\ \A x \in Proc : Alive(x)' <=> Alive(x)
    BY <1>1, <1>2, Found DEF Alive
  <1>4. Family'
    BY <1>1, <1>2, <1>3, Found DEF Family
  <1>5. Forking'
    BY <1>1, <1>2, <1>3, Found DEF Forking
  <1>6. Sleeping'
    BY <1>1, <1>2, <1>3, Found DEF Sleeping
  <1>7. HasParent'
    BY <1>1, <1>2, <1>3, Found DEF HasParent
  <1>8. WaitWoken'
    BY <1>1, <1>2, <1>3, Found DEF WaitWoken, ZombieOf
  <1>9. TickSeen'
    BY <1>1, <1>2, <1>3, Found DEF TickSeen
  <1> QED
    BY <1>4, <1>5, <1>6, <1>7, <1>8, <1>9 DEF Kept

(* fork_full, wait_fails and a return of sys_sleep.                        *)
LEMMA ReturnStep ==
  ASSUME IInv, NEW p \in Proc, fork_full(p) \/ wait_fails(p)
  PROVE  Kept
  <1>1. /\ pc[p] \in {"user", "wait"}
        /\ pc' = [pc EXCEPT ![p] = "user"] \/ pc' = [pc EXCEPT ![p] = "exit"]
        /\ UNCHANGED <<state, parent, chan, killed, child, left, tickslock>>
    BY DEF fork_full, wait_fails, At, Calls, Goto, Failed
  <1>2. \A x \in Proc : pc'[x] \in {"fork", "sleep"} => pc'[x] = pc[x]
    BY <1>1, Found
  <1>3. \A x \in Proc : Alive(x)' <=> Alive(x)
    BY <1>1 DEF Alive
  <1>4. Family'
    BY <1>1, <1>2, <1>3, Found DEF Family
  <1>5. Forking'
    BY <1>1, <1>2, <1>3, Found DEF Forking
  <1>6. Sleeping'
    BY <1>1, <1>2, <1>3, Found DEF Sleeping
  <1>7. HasParent'
    BY <1>1, <1>2, <1>3, Found DEF HasParent
  <1>8. WaitWoken'
    BY <1>1, <1>2, <1>3, Found DEF WaitWoken, ZombieOf
  <1>9. TickSeen'
    BY <1>1, <1>2, <1>3, Found DEF TickSeen
  <1> QED
    BY <1>4, <1>5, <1>6, <1>7, <1>8, <1>9 DEF Kept

(* fork frees the slot when copyuvm fails (proc.c:193-198).                *)
LEMMA ForkFailsStep ==
  ASSUME IInv, NEW p \in Proc, fork_fails(p)
  PROVE  Kept
  <1>q. PICK q \in Proc : q = child[p]
    BY Found DEF fork_fails, At, Forking
  <1>0. q \in Proc /\ state[q] = "EMBRYO" /\ pc[p] = "fork" /\ state[p] = "RUNNING"
    BY <1>q, Found DEF fork_fails, At, Forking
  <1>1. /\ state' = [state EXCEPT ![q] = "UNUSED"] /\ child' = [child EXCEPT ![p] = None]
        /\ pc' = [pc EXCEPT ![p] = "user"] \/ pc' = [pc EXCEPT ![p] = "exit"]
        /\ UNCHANGED <<parent, chan, killed, left, tickslock>>
    BY Zenon, <1>q DEF fork_fails, Goto, Failed
  <1>2. /\ \A x \in Proc : x # q => state'[x] = state[x]
        /\ \A x \in Proc : x # p => pc'[x] = pc[x] /\ child'[x] = child[x]
        /\ state'[q] = "UNUSED" /\ pc'[p] \in {"user", "exit"}
    BY <1>0, <1>1, Found
  <1>3. \A x \in Proc : Alive(x)' <=> Alive(x)
    BY <1>0, <1>2, Found DEF Alive
  <1>4. Family'
    BY <1>q, <1>0, <1>1, <1>2, <1>3, Found DEF Family
  <1>5. Forking'
    BY <1>q, <1>0, <1>1, <1>2, <1>3, Found DEF Forking
  <1>6. Sleeping'
    BY <1>q, <1>0, <1>1, <1>2, <1>3, Found DEF Sleeping
  <1>7. HasParent'
    BY <1>q, <1>0, <1>1, <1>2, <1>3, Found DEF HasParent
  <1>8. WaitWoken'
    BY <1>q, <1>0, <1>1, <1>2, <1>3, Found DEF WaitWoken, ZombieOf
  <1>9. TickSeen'
    BY <1>q, <1>0, <1>1, <1>2, <1>3, Found DEF TickSeen
  <1> QED
    BY <1>4, <1>5, <1>6, <1>7, <1>8, <1>9 DEF Kept

(* fork gives the child its parent and makes it RUNNABLE.                  *)
LEMMA ForkStep ==
  ASSUME IInv, NEW p \in Proc, fork(p)
  PROVE  Kept
  <1>q. PICK q \in Proc : q = child[p]
    BY Found DEF fork, At, Forking
  <1>0. q \in Proc /\ state[q] = "EMBRYO" /\ pc[p] = "fork" /\ state[p] = "RUNNING" /\ p # q
    BY <1>q, Found DEF fork, At, Forking
  <1>1. /\ state' = [state EXCEPT ![q] = "RUNNABLE"] /\ child' = [child EXCEPT ![p] = None]
        /\ parent' = [parent EXCEPT ![q] = p]
        /\ pc' = [pc EXCEPT ![p] = "user", ![q] = "user"]
        /\ UNCHANGED <<chan, killed, left, tickslock>>
    BY <1>q DEF fork
  <1>2. /\ \A x \in Proc : x # q => state'[x] = state[x] /\ parent'[x] = parent[x]
        /\ \A x \in Proc : x \notin {p, q} => pc'[x] = pc[x]
        /\ \A x \in Proc : x # p => child'[x] = child[x]
        /\ state'[q] = "RUNNABLE" /\ pc'[p] = "user" /\ pc'[q] = "user" /\ parent'[q] = p
    BY <1>0, <1>1, Found
  <1>3. /\ \A x \in Proc : x # q => (Alive(x)' <=> Alive(x))
        /\ Alive(q)' /\ Alive(p)' /\ ~Alive(q)
    BY <1>0, <1>2, Found DEF Alive
  <1>4. Family'
    BY <1>q, <1>0, <1>1, <1>2, <1>3, Found DEF Family
  <1>5. Forking'
    BY <1>q, <1>0, <1>1, <1>2, <1>3, Found DEF Forking
  <1>6. Sleeping'
    BY <1>q, <1>0, <1>1, <1>2, <1>3, Found DEF Sleeping
  <1>7. HasParent'
    BY <1>q, <1>0, <1>1, <1>2, <1>3, Found DEF HasParent
  <1>8. WaitWoken'
    BY <1>q, <1>0, <1>1, <1>2, <1>3, Found DEF WaitWoken, ZombieOf
  <1>9. TickSeen'
    BY <1>q, <1>0, <1>1, <1>2, <1>3, Found DEF TickSeen
  <1> QED
    BY <1>4, <1>5, <1>6, <1>7, <1>8, <1>9 DEF Kept

(* wait frees a ZOMBIE child (proc.c:286-299).                             *)
LEMMA BuryStep ==
  ASSUME IInv, NEW p \in Proc, NEW q \in Proc, wait_buries(p, q)
  PROVE  Kept
  <1>1. /\ state[q] = "ZOMBIE" /\ state[p] = "RUNNING" /\ pc[p] \in {"user", "wait"}
        /\ state' = [state EXCEPT ![q] = "UNUSED"] /\ parent' = [parent EXCEPT ![q] = None]
        /\ killed' = [killed EXCEPT ![q] = FALSE] /\ pc' = [pc EXCEPT ![p] = "user"]
        /\ UNCHANGED <<chan, child, left, tickslock>>
    BY DEF wait_buries, ZombieOf, At, Calls, Goto, Buried
  <1>2. /\ \A x \in Proc : x # q => state'[x] = state[x] /\ parent'[x] = parent[x]
        /\ \A x \in Proc : x # p => pc'[x] = pc[x]
        /\ state'[q] = "UNUSED" /\ pc'[p] = "user" /\ parent'[q] = None
    BY <1>1, Found
  <1>3. ~Alive(q) /\ \A x \in Proc : Alive(x)' <=> Alive(x)
    BY <1>1, <1>2, Found DEF Alive
  <1>10. \A x \in Proc : x # q => killed'[x] = killed[x]
    BY <1>1, Types DEF IInv
  <1>4. Family'
    BY <1>1, <1>2, <1>3, Found DEF Family
  <1>5. Forking'
    BY <1>1, <1>2, <1>3, Found DEF Forking
  <1>6. Sleeping'
    BY <1>1, <1>2, <1>3, Found DEF Sleeping
  <1>7. HasParent'
    BY <1>1, <1>2, <1>3, Found DEF HasParent
  <1>8. WaitWoken'
    BY <1>1, <1>2, <1>3, Found, <1>10 DEF WaitWoken, ZombieOf
  <1>9. TickSeen'
    BY <1>1, <1>2, <1>3, Found DEF TickSeen
  <1> QED
    BY <1>4, <1>5, <1>6, <1>7, <1>8, <1>9 DEF Kept

(* wait goes to sleep on its own slot when no child is a ZOMBIE.           *)
LEMMA WaitSleepsStep ==
  ASSUME IInv, NEW p \in Proc, wait_sleeps(p)
  PROVE  Kept
  <1>1. /\ state[p] = "RUNNING" /\ pc[p] \in {"user", "wait"}
        /\ ~killed[p] /\ ~\E q \in Proc : ZombieOf(p, q)
        /\ state' = [state EXCEPT ![p] = "SLEEPING"] /\ chan' = [chan EXCEPT ![p] = p]
        /\ pc' = [pc EXCEPT ![p] = "wait"]
        /\ UNCHANGED <<parent, killed, child, left, tickslock>>
    BY DEF wait_sleeps, At, Calls, Goto, NoPoint
  <1>2. /\ \A x \in Proc : x # p => state'[x] = state[x] /\ chan'[x] = chan[x] /\ pc'[x] = pc[x]
        /\ state'[p] = "SLEEPING" /\ pc'[p] = "wait" /\ chan'[p] = p
    BY <1>1, Found
  <1>3. \A x \in Proc : Alive(x)' <=> Alive(x)
    BY <1>1, <1>2, Found DEF Alive
  <1>4. Family'
    BY <1>1, <1>2, <1>3, Found DEF Family
  <1>5. Forking'
    BY <1>1, <1>2, <1>3, Found DEF Forking
  <1>6. Sleeping'
    BY <1>1, <1>2, <1>3, Found DEF Sleeping
  <1>7. HasParent'
    BY <1>1, <1>2, <1>3, Found DEF HasParent
  <1>8. WaitWoken'
    BY <1>1, <1>2, <1>3, Found DEF WaitWoken, ZombieOf
  <1>9. TickSeen'
    BY <1>1, <1>2, <1>3, Found DEF TickSeen
  <1> QED
    BY <1>4, <1>5, <1>6, <1>7, <1>8, <1>9 DEF Kept

(* kill marks the victim and wakes it when it sleeps (proc.c:480-494).     *)
LEMMA KillStep ==
  ASSUME IInv, NEW p \in Proc, NEW q \in Proc, kill(p, q)
  PROVE  Kept
  <1>1. /\ killed' = [killed EXCEPT ![q] = TRUE]
        /\ UNCHANGED <<parent, chan, pc, child, left, tickslock>>
        /\ state' = IF state[q] = "SLEEPING" THEN [state EXCEPT ![q] = "RUNNABLE"] ELSE state
    BY DEF kill, Roused
  <1>2. /\ \A x \in Proc : x # q => state'[x] = state[x]
        /\ state'[q] = IF state[q] = "SLEEPING" THEN "RUNNABLE" ELSE state[q]
    BY <1>1, Found
  <1>3. \A x \in Proc : Alive(x)' <=> Alive(x)
    BY <1>1, <1>2, Found DEF Alive
  <1>10. \A x \in Proc : x # q => killed'[x] = killed[x]
    BY <1>1, Types DEF IInv
  <1>4. Family'
    BY <1>1, <1>2, <1>3, Found DEF Family
  <1>5. Forking'
    BY <1>1, <1>2, <1>3, Found DEF Forking
  <1>6. Sleeping'
    BY <1>1, <1>2, <1>3, Found DEF Sleeping
  <1>7. HasParent'
    BY <1>1, <1>2, <1>3, Found DEF HasParent
  <1>8. WaitWoken'
    BY <1>1, <1>2, <1>3, Found, <1>10 DEF WaitWoken, ZombieOf
  <1>9. TickSeen'
    BY <1>1, <1>2, <1>3, Found DEF TickSeen
  <1> QED
    BY <1>4, <1>5, <1>6, <1>7, <1>8, <1>9 DEF Kept

(* sys_sleep looks at ticks and killed: it returns, or keeps tickslock and *)
(* goes on to sleep (sysproc.c:71-77).                                     *)
LEMMA LooksStep ==
  ASSUME IInv, NEW p \in Proc, NEW n \in 0 .. MaxTicks, state[p] = "RUNNING",
         pc[p] \in {"user", "relock"}, looks(p, n)
  PROVE  Kept
  <1>1. /\ UNCHANGED <<state, parent, chan, killed, child>>
        /\ tickslock = None
        /\ \/ pc' = [pc EXCEPT ![p] = "user"] /\ left' = [left EXCEPT ![p] = 0] /\ tickslock' = tickslock
           \/ pc' = [pc EXCEPT ![p] = "sleep"] /\ left' = [left EXCEPT ![p] = n] /\ n > 0 /\ tickslock' = p
    BY DEF looks, Goto
  <1>2. /\ \A x \in Proc : x # p => pc'[x] = pc[x] /\ left'[x] = left[x]
        /\ pc'[p] \in {"user", "sleep"}
        /\ pc'[p] = "sleep" => left'[p] > 0 /\ tickslock' = p
    BY <1>1, Found
  <1>3. \A x \in Proc : Alive(x)' <=> Alive(x)
    BY <1>1 DEF Alive
  <1>4. Family'
    BY <1>1, <1>2, <1>3, Found DEF Family
  <1>5. Forking'
    BY <1>1, <1>2, <1>3, Found DEF Forking
  <1>6. Sleeping'
    BY <1>1, <1>2, <1>3, Found DEF Sleeping
  <1>7. HasParent'
    BY <1>1, <1>2, <1>3, Found DEF HasParent
  <1>8. WaitWoken'
    BY <1>1, <1>2, <1>3, Found DEF WaitWoken, ZombieOf
  <1>9. TickSeen'
    BY <1>1, <1>2, <1>3, Found DEF TickSeen
  <1> QED
    BY <1>4, <1>5, <1>6, <1>7, <1>8, <1>9 DEF Kept

(* sys_sleep goes to sleep on ticks and gives tickslock up.                *)
LEMMA SleepStep ==
  ASSUME IInv, NEW p \in Proc, sleep(p)
  PROVE  Kept
  <1>1. /\ state[p] = "RUNNING" /\ pc[p] = "sleep" /\ left[p] > 0 /\ tickslock = p
        /\ state' = [state EXCEPT ![p] = "SLEEPING"] /\ chan' = [chan EXCEPT ![p] = "ticks"]
        /\ pc' = [pc EXCEPT ![p] = "relock"]
        /\ UNCHANGED <<parent, killed, child, left>>
    BY Found DEF sleep, At, Goto, Sleeping
  <1>2. /\ \A x \in Proc : x # p => state'[x] = state[x] /\ chan'[x] = chan[x] /\ pc'[x] = pc[x]
        /\ state'[p] = "SLEEPING" /\ pc'[p] = "relock" /\ chan'[p] = "ticks" /\ p # "ticks"
    BY <1>1, Found
  <1>3. \A x \in Proc : Alive(x)' <=> Alive(x)
    BY <1>1, <1>2, Found DEF Alive
  <1>4. Family'
    BY <1>1, <1>2, <1>3, Found DEF Family
  <1>5. Forking'
    BY <1>1, <1>2, <1>3, Found DEF Forking
  <1>6. Sleeping'
    BY <1>1, <1>2, <1>3, Found DEF Sleeping
  <1>7. HasParent'
    BY <1>1, <1>2, <1>3, Found DEF HasParent
  <1>8. WaitWoken'
    BY <1>1, <1>2, <1>3, Found DEF WaitWoken, ZombieOf
  <1>9. TickSeen'
    BY <1>1, <1>2, <1>3, Found DEF TickSeen
  <1> QED
    BY <1>4, <1>5, <1>6, <1>7, <1>8, <1>9 DEF Kept

(* The timer interrupt counts a tick and wakes who sleeps on ticks.        *)
LEMMA TickStep ==
  ASSUME IInv, tick
  PROVE  Kept
  <1>1. tickslock = None /\ UNCHANGED <<parent, chan, killed, pc, child, tickslock>>
    BY DEF tick
  <1>2. \A x \in Proc : state'[x] = IF state[x] = "SLEEPING" /\ chan[x] = "ticks"
                                    THEN "RUNNABLE" ELSE state[x]
    BY DEF tick, Woken
  <1>3. \A x \in Proc : Alive(x)' <=> Alive(x)
    BY <1>2 DEF Alive
  <1>4. Family'
    BY <1>1, <1>2, <1>3, Found DEF Family
  <1>5. Forking'
    BY <1>1, <1>2, <1>3, Found DEF Forking
  <1>6. Sleeping'
    BY <1>1, <1>2, <1>3, Found DEF Sleeping
  <1>7. HasParent'
    BY <1>1, <1>2, <1>3, Found DEF HasParent
  <1>8. WaitWoken'
    BY <1>1, <1>2, <1>3, Found DEF WaitWoken, ZombieOf
  <1>9. TickSeen'
    BY <1>1, <1>2, <1>3, Found DEF TickSeen
  <1> QED
    BY <1>4, <1>5, <1>6, <1>7, <1>8, <1>9 DEF Kept

(* exit hands its children to init, wakes its parent and becomes a ZOMBIE  *)
(* (proc.c:227-268).                                                       *)
LEMMA ExitStep ==
  ASSUME IInv, NEW p \in Proc, exit(p), p # InitProc
  PROVE  Kept
  <1>0. /\ state[p] = "RUNNING" /\ pc[p] \in {"user", "exit"}
        /\ state' = [Woken(Notified(p)) EXCEPT ![p] = "ZOMBIE"] /\ parent' = Orphans(p)
        /\ UNCHANGED <<chan, killed, pc, child, left, tickslock>>
    BY Zenon DEF exit, Exits, At
  <1>1. /\ \A x \in Proc : x # p => state'[x] = IF state[x] = "SLEEPING" /\ chan[x] \in Notified(p)
                                               THEN "RUNNABLE" ELSE state[x]
        /\ state'[p] = "ZOMBIE"
    BY <1>0, Found DEF Woken
  <1>2. \A x \in Proc : parent'[x] = IF parent[x] = p THEN InitProc ELSE parent[x]
    BY <1>0 DEF Orphans
  <1>3. /\ \A x \in Proc : x # p => (Alive(x)' <=> Alive(x))
        /\ ~Alive(p)' /\ Alive(p)
    BY <1>0, <1>1 DEF Alive
  <1>4. Family'
    BY <1>0, <1>2, <1>3, Found DEF Family
  <1>5. Forking'
    BY <1>0, <1>1, <1>3, Found DEF Forking
  <1>6. Sleeping'
    BY <1>0, <1>1, Found DEF Sleeping
  <1>7. HasParent'
    <2> SUFFICES ASSUME NEW q \in Proc, q # InitProc, Alive(q)' \/ state'[q] = "ZOMBIE"
                 PROVE  parent'[q] # None /\ state'[parent'[q]] \in {"SLEEPING", "RUNNABLE", "RUNNING"}
      BY DEF HasParent, Alive
    <2>1. Alive(q) \/ state[q] = "ZOMBIE"
      BY <1>1, <1>3 DEF Alive
    <2>2. parent[q] # None /\ Alive(parent[q]) /\ parent[q] \in Proc
      BY <2>1, Found DEF HasParent
    <2>3. Alive(InitProc)'
      BY <1>3, Found DEF Family
    <2>4. CASE parent[q] = p
      <3>1. parent'[q] = InitProc
        BY <1>2, <2>4
      <3> QED
        BY <2>3, <3>1, Found DEF Alive
    <2>5. CASE parent[q] # p
      <3>1. parent'[q] = parent[q]
        BY <1>2, <2>5
      <3>2. state'[parent[q]] \in {"SLEEPING", "RUNNABLE", "RUNNING"}
        BY <1>1, <2>2, <2>5 DEF Alive
      <3> QED
        BY <2>2, <3>1, <3>2
    <2> QED
      BY <2>4, <2>5
  <1>8. WaitWoken'
    <2> SUFFICES ASSUME NEW r \in Proc, state'[r] = "SLEEPING", chan'[r] = r
                 PROVE  ~killed'[r] /\ ~\E q \in Proc : parent'[q] = r /\ state'[q] = "ZOMBIE"
      BY DEF WaitWoken, ZombieOf
    <2>1. r # p /\ state[r] = "SLEEPING" /\ chan[r] = r /\ r \notin Notified(p)
      BY <1>0, <1>1
    <2>2. ~killed[r] /\ ~\E q \in Proc : parent[q] = r /\ state[q] = "ZOMBIE"
      BY <2>1, Found DEF WaitWoken, ZombieOf
    <2>3. ASSUME NEW q \in Proc, parent'[q] = r, state'[q] = "ZOMBIE"
          PROVE  FALSE
      <3>1. q = p \/ state[q] = "ZOMBIE"
        BY <1>1, <2>3
      <3>2. CASE q = p
        <4>1. parent[p] = r
          BY <1>2, <2>3, <3>2, Found DEF Family
        <4> QED
          BY <2>1, <4>1 DEF Notified
      <3>3. CASE state[q] = "ZOMBIE" /\ parent[q] = p
        <4>1. r = InitProc
          BY <1>2, <2>3, <3>3
        <4>2. InitProc \in Notified(p)
          BY <3>3 DEF Notified
        <4> QED
          BY <2>1, <4>1, <4>2
      <3>4. CASE state[q] = "ZOMBIE" /\ parent[q] # p
        BY <1>2, <2>2, <2>3, <3>4
      <3> QED
        BY <3>1, <3>2, <3>3, <3>4
    <2> QED
      BY <1>0, <2>2, <2>3
  <1>9. TickSeen'
    BY <1>0, <1>1, Found DEF TickSeen
  <1> QED
    BY <1>4, <1>5, <1>6, <1>7, <1>8, <1>9 DEF Kept

-----------------------------------------------------------------------------
(* Every step of the process table keeps the invariant.                    *)
LEMMA InvariantStep ==
  ASSUME IInv, [Next]_vars
  PROVE  IInv'
  <1>1. CASE UNCHANGED vars
    <2>1. UNCHANGED <<state, pid, parent, chan, killed, running, pc, child, left, tickslock, panicked>>
      BY <1>1 DEF vars
    <2>2. TypeOK' /\ OneCpu'
      BY Zenon, <2>1 DEF IInv, TypeOK, OneCpu
    <2>3. Kept
      BY <2>1, Found DEF Kept, Family, Forking, Sleeping, HasParent, WaitWoken, TickSeen, Alive, ZombieOf
    <2> QED
      BY <2>2, <2>3 DEF Kept, IInv
  <1>2. CASE Next
    <2>1. TypeOK' /\ OneCpu'
      BY <1>2, TypeStep, CpuStep
    <2>2. CASE frozen
      BY <1>1, <2>2 DEF frozen
    <2>3. ASSUME NEW p \in Proc, exit(p), p = InitProc
          PROVE  IInv'
      <3>1. UNCHANGED <<state, pid, parent, chan, killed, running, pc, child, left, tickslock>>
        BY Zenon, <2>3 DEF exit
      <3>2. Kept
        BY <3>1, Found DEF Kept, Family, Forking, Sleeping, HasParent, WaitWoken, TickSeen, Alive, ZombieOf
      <3> QED
        BY <2>1, <3>2 DEF Kept, IInv
    <2>4. CASE Kept
      BY <2>1, <2>4 DEF Kept, IInv
    <2>5. ASSUME NEW p \in Proc, NEW n \in 0 .. MaxTicks, sys_sleep(p, n)
          PROVE  Kept
      BY <2>5, LooksStep DEF sys_sleep, Calls, At
    <2>6. ASSUME NEW p \in Proc, relock(p)
          PROVE  Kept
      BY <2>6, LooksStep, Found DEF relock, At
    <2> QED
      BY <1>2, <2>2, <2>3, <2>4, <2>5, <2>6, SchedulerStep, YieldStep, AllocStep, ReturnStep,
         ForkFailsStep, ForkStep, BuryStep, WaitSleepsStep, KillStep, SleepStep, TickStep, ExitStep
         DEF Next, wait
  <1> QED
    BY <1>1, <1>2

(* The invariant holds when init is the only process (userinit).           *)
LEMMA InvariantInit ==
  ASSUME Init
  PROVE  IInv
  <1> USE ProcsAssumption
  <1>1. TypeOK
    BY DEF Init, TypeOK
  <1>2. OneCpu
    BY DEF Init, OneCpu
  <1>3. Family /\ Forking /\ Sleeping /\ HasParent /\ WaitWoken /\ TickSeen
    BY DEF Init, Family, Forking, Sleeping, HasParent, WaitWoken, TickSeen, Alive, ZombieOf
  <1> QED
    BY <1>1, <1>2, <1>3 DEF IInv

(* The table's invariant: every slot is in one stage of its life, and what *)
(* fork, wait and sys_sleep have under way is nobody else's.               *)
THEOREM Invariance == Spec => []IInv
  BY InvariantInit, InvariantStep, PTL DEF Spec

(* The fields of struct proc and struct cpu keep their types.              *)
THEOREM TableTypes == Spec => []TypeOK
  <1>1. IInv => TypeOK
    BY DEF IInv
  <1> QED
    BY <1>1, Invariance, PTL

(* However many processors run scheduler(), a process runs on one at a     *)
(* time, and the table says so (proc.c:342-351).                           *)
THEOREM OneCpuEach == Spec => []OneCpu
  <1>1. IInv => OneCpu
    BY DEF IInv
  <1> QED
    BY <1>1, Invariance, PTL

(* exit passes its children to init in time: whoever has to be waited for  *)
(* has a live parent (proc.c:255-261).                                     *)
THEOREM NobodyOrphaned == Spec => []HasParent
  <1>1. IInv => HasParent
    BY DEF IInv
  <1> QED
    BY <1>1, Invariance, PTL

(* exit and kill wake a parent in wait() (proc.c:253, 260, 490).           *)
THEOREM ParentsWoken == Spec => []WaitWoken
  <1>1. IInv => WaitWoken
    BY DEF IInv
  <1> QED
    BY <1>1, Invariance, PTL

(* sleep releases tickslock only with ptable.lock held, so no tick comes   *)
(* between the look at ticks and the sleep (proc.c:430-437).               *)
THEOREM NoTickMissed == Spec => []TickSeen
  <1>1. IInv => TickSeen
    BY DEF IInv
  <1> QED
    BY <1>1, Invariance, PTL

(* allocproc does not clear killed (proc.c:73-120); a new process is born  *)
(* unkilled because wait clears it and no program can name a slot before   *)
(* fork returns its pid.                                                   *)
THEOREM NobodyStillborn ==
  ASSUME AnyPid = FALSE
  PROVE  Spec => []BornAlive
  <1>1. Init => SlotsClean
    BY ProcsAssumption DEF Init, SlotsClean
  <1>2. IInv /\ SlotsClean /\ [Next]_vars => SlotsClean'
    <2> SUFFICES ASSUME IInv, SlotsClean, [Next]_vars,
                        NEW x \in Proc, state'[x] \in {"UNUSED", "EMBRYO"}
                 PROVE  ~killed'[x] /\ pid'[x] # "known"
      BY DEF SlotsClean
    <2>t. /\ state \in [Proc -> States] /\ killed \in [Proc -> BOOLEAN]
          /\ pid \in [Proc -> {"0", "secret", "known"}]
      BY Types DEF IInv
    <2>s. state[x] \in {"UNUSED", "EMBRYO"} => ~killed[x] /\ pid[x] # "known"
      BY DEF SlotsClean
    <2>1. ASSUME NEW p \in Proc, NEW q \in Proc, allocproc(p, q)
          PROVE  ~killed'[x] /\ pid'[x] # "known"
      BY <2>1, <2>t, <2>s DEF allocproc
    <2>2. ASSUME NEW p \in Proc, fork_fails(p)
          PROVE  ~killed'[x] /\ pid'[x] # "known"
      <3>1. child[p] \in Proc /\ state[child[p]] = "EMBRYO"
        BY <2>2, Found DEF fork_fails, At, Forking
      <3> QED
        BY <2>2, <2>t, <2>s, <3>1 DEF fork_fails
    <2>3. ASSUME NEW p \in Proc, fork(p)
          PROVE  ~killed'[x] /\ pid'[x] # "known"
      <3>1. child[p] \in Proc
        BY <2>3, Found DEF fork, At, Forking
      <3> QED
        BY <2>3, <2>t, <2>s, <3>1 DEF fork
    <2>4. ASSUME NEW p \in Proc, NEW q \in Proc, wait_buries(p, q)
          PROVE  ~killed'[x] /\ pid'[x] # "known"
      <3>1. /\ state' = [state EXCEPT ![q] = "UNUSED"] /\ pid' = [pid EXCEPT ![q] = "0"]
            /\ killed' = [killed EXCEPT ![q] = FALSE]
        BY <2>4 DEF wait_buries, Buried
      <3> QED
        BY <2>t, <2>s, <3>1
    <2>5. ASSUME NEW p \in Proc, NEW q \in Proc, kill(p, q)
          PROVE  ~killed'[x] /\ pid'[x] # "known"
      <3>1. pid[q] = "known" /\ killed' = [killed EXCEPT ![q] = TRUE] /\ pid' = pid
        BY <2>5 DEF kill
      <3>2. state[x] = state'[x]
        BY <2>5, <2>t DEF kill, Roused
      <3> QED
        BY <2>t, <2>s, <3>1, <3>2
    <2>6. CASE UNCHANGED <<pid, killed>> /\ (state'[x] \in {"UNUSED", "EMBRYO"} => state[x] \in {"UNUSED", "EMBRYO"})
      BY <2>s, <2>6
    <2>7. ASSUME NEW p \in Proc, exit(p)
          PROVE  ~killed'[x] /\ pid'[x] # "known"
      BY Zenon, <2>6, <2>7, <2>t DEF exit, Woken
    <2>8. ASSUME NEW p \in Proc,
                 \/ \E c \in CPU : scheduler(c, p)
                 \/ yield(p) \/ fork_full(p) \/ wait_fails(p) \/ wait_sleeps(p) \/ sleep(p) \/ relock(p)
                 \/ \E n \in 0 .. MaxTicks : sys_sleep(p, n)
          PROVE  ~killed'[x] /\ pid'[x] # "known"
      BY <2>6, <2>8, <2>t DEF scheduler, yield, fork_full, wait_fails, wait_sleeps, sleep, relock,
                              sys_sleep, looks
    <2>9. CASE tick
      BY <2>6, <2>9, <2>t DEF tick, Woken
    <2>10. CASE UNCHANGED vars
      BY <2>6, <2>10 DEF vars
    <2> QED
      BY <2>1, <2>2, <2>3, <2>4, <2>5, <2>7, <2>8, <2>9, <2>10 DEF Next, wait, frozen
  <1>3. SlotsClean => BornAlive
    BY DEF SlotsClean, BornAlive
  <1> QED
    BY <1>1, <1>2, <1>3, Invariance, PTL DEF Spec
=============================================================================
