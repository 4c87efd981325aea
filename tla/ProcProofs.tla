----------------------------- MODULE ProcProofs -----------------------------
(***************************************************************************)
(* Proofs about Proc, for every number of tasks, every range of priorities *)
(* and every size of the children lists.                                   *)
(***************************************************************************)
EXTENDS Proc, SequenceTheorems, TLAPS

-----------------------------------------------------------------------------
(* The inductive invariant.                                                *)

\* A task that is not running or sleeping lists no children: exit empties the
\* list before the task can be reaped and its number be given away.
GoneListNobody ==
    \A p \in UserPids : state[p] \in {"NULL", "ZOMBIE"} => cpid[p] = <<>>

\* Slots in use are below num_tasks; idle and init keep theirs.
SlotsInUse ==
    /\ state[0] = "RUNNING"
    /\ state[1] \in {"RUNNING", "INTERRUPTIBLE"}
    /\ \A p \in Pids : state[p] # "NULL" => p < num_tasks

\* Init is nobody's child and no task is its own father.
Fathers ==
    /\ \A p \in UserPids : 1 \notin ToSet(cpid[p])
    /\ fpid[1] = 0
    /\ \A p \in UserPids \ {1} :
         state[p] # "NULL" => fpid[p] \in UserPids /\ fpid[p] # p

\* A task that has not exited has a signal_struct, idle never gets one.
LiveHasSignal ==
    /\ signal[0] = NoPage
    /\ \A p \in UserPids :
         state[p] \in {"RUNNING", "INTERRUPTIBLE"} => signal[p] # NoPage

\* A task that may run gets a positive counter from the next refill, which is
\* what the search of get_max_cnt_pid compares with idle's counter, 0.
Slices ==
    /\ counter[0] = 0
    /\ \A p \in UserPids : state[p] \in {"RUNNING", "INTERRUPTIBLE"} => priority[p] >= 1

TreeInv == GoneListNobody /\ SlotsInUse /\ Fathers /\ ChildListed

CpuInv ==
    /\ Slices /\ CpuOnRunningTask /\ IdleOnlyWhenNothingRuns

IInv ==
    /\ TypeOK /\ TreeInv /\ CpuInv
    /\ LiveHasSignal /\ KillFindsSignal
    /\ WaitQueueAgrees

-----------------------------------------------------------------------------
(* Sequences.                                                              *)

LEMMA ToSetAppend ==
    ASSUME NEW S, NEW s \in Seq(S), NEW e \in S
    PROVE  ToSet(Append(s, e)) = ToSet(s) \cup {e}
<1>1. /\ Append(s, e) \in Seq(S)
      /\ Len(Append(s, e)) = Len(s) + 1
      /\ \A i \in 1 .. Len(s) : Append(s, e)[i] = s[i]
      /\ Append(s, e)[Len(s) + 1] = e
  BY AppendProperties
<1>2. /\ DOMAIN Append(s, e) = 1 .. Len(s) + 1
      /\ DOMAIN s = 1 .. Len(s)
      /\ Len(s) \in Nat
  BY <1>1, LenProperties
<1> QED BY <1>1, <1>2 DEF ToSet

LEMMA ToSetConcat ==
    ASSUME NEW S, NEW s \in Seq(S), NEW t \in Seq(S)
    PROVE  ToSet(s \o t) = ToSet(s) \cup ToSet(t)
<1>1. /\ s \o t \in Seq(S)
      /\ Len(s \o t) = Len(s) + Len(t)
      /\ \A i \in 1 .. Len(s) + Len(t) :
            (s \o t)[i] = IF i <= Len(s) THEN s[i] ELSE t[i - Len(s)]
  BY ConcatProperties
<1>2. /\ DOMAIN (s \o t) = 1 .. Len(s) + Len(t)
      /\ DOMAIN s = 1 .. Len(s) /\ DOMAIN t = 1 .. Len(t)
      /\ Len(s) \in Nat /\ Len(t) \in Nat
  BY <1>1, LenProperties
<1>3. \A i \in 1 .. Len(t) : (s \o t)[Len(s) + i] = t[i]
  BY <1>1, <1>2
<1>4. ToSet(s \o t) \subseteq ToSet(s) \cup ToSet(t)
  BY <1>1, <1>2 DEF ToSet
<1>5. ToSet(s) \subseteq ToSet(s \o t)
  BY <1>1, <1>2 DEF ToSet
<1>6. ToSet(t) \subseteq ToSet(s \o t)
  <2> SUFFICES ASSUME NEW i \in 1 .. Len(t) PROVE t[i] \in ToSet(s \o t)
    BY <1>2 DEF ToSet
  <2>1. Len(s) + i \in DOMAIN (s \o t)
    BY <1>2
  <2> QED BY <2>1, <1>3 DEF ToSet
<1> QED BY <1>4, <1>5, <1>6

LEMMA ToSetEmpty == ToSet(<<>>) = {}
BY DEF ToSet

LEMMA ToSetElements ==
    ASSUME NEW S, NEW s \in Seq(S)
    PROVE  ToSet(s) \subseteq S /\ \A i \in 1 .. Len(s) : s[i] \in ToSet(s)
BY LenProperties DEF ToSet

LEMMA PidFacts ==
    ASSUME ProcAssumption
    PROVE  /\ Pids = {0} \cup UserPids /\ 0 \notin UserPids /\ 1 \in UserPids
           /\ Pids \subseteq Nat /\ \A p \in Pids : p < NR_TASKS
           /\ \A p \in Nat : p < NR_TASKS => p \in Pids
           /\ \A p \in Nat : p # 0 /\ p < NR_TASKS => p \in UserPids
BY ProcAssumption DEF ProcAssumption, Pids, UserPids

-----------------------------------------------------------------------------
(* What schedule() leaves, whatever its caller has done to the tasks.      *)

LEMMA ScheduleResult ==
    ASSUME ProcAssumption, num_tasks \in 2 .. NR_TASKS, halt = "no"
    PROVE  \A st \in [Pids -> States],
              pr \in [Pids -> 0 .. PRIORITY_MAX],
              cnt \in [Pids -> 0 .. PRIORITY_MAX] :
             /\ Schedule(st, pr, cnt)
             /\ cnt[0] = 0 /\ st[0] = "RUNNING"
             /\ \A p \in Pids : st[p] # "NULL" => p < num_tasks
             /\ \A p \in UserPids : st[p] = "RUNNING" => pr[p] >= 1
             => /\ counter' \in [Pids -> 0 .. PRIORITY_MAX]
                /\ counter'[0] = 0
                /\ current' \in Pids
                /\ st[current'] = "RUNNING"
                /\ halt' \in {"no", "idle"}
                /\ halt' = "idle" => \A p \in UserPids : st[p] # "RUNNING"
<1> TAKE st \in [Pids -> States],
         pr \in [Pids -> 0 .. PRIORITY_MAX],
         cnt \in [Pids -> 0 .. PRIORITY_MAX]
<1> HAVE /\ Schedule(st, pr, cnt)
         /\ cnt[0] = 0 /\ st[0] = "RUNNING"
         /\ \A p \in Pids : st[p] # "NULL" => p < num_tasks
         /\ \A p \in UserPids : st[p] = "RUNNING" => pr[p] >= 1
<1> DEFINE new == Refill(st, pr, cnt)
<1>1. new \in [Pids -> 0 .. PRIORITY_MAX] /\ new[0] = 0
  BY PidFacts DEF Refill
<1>2. PICK p \in Pids :
        /\ \/ p # 0 /\ IsMaxCntPid(p, st, cnt) /\ counter' = cnt
           \/ /\ IsMaxCntPid(0, st, cnt)
              /\ IsMaxCntPid(p, st, new) /\ counter' = new
        /\ SwitchTo(p)
  BY DEF Schedule
<1>3. counter' \in [Pids -> 0 .. PRIORITY_MAX] /\ counter'[0] = 0
  BY <1>1, <1>2
<1>4. st[p] = "RUNNING"
  BY <1>2 DEF IsMaxCntPid, Runnable
<1>5. p = 0 => \A q \in UserPids : st[q] # "RUNNING"
  <2> SUFFICES ASSUME p = 0, NEW q \in UserPids, st[q] = "RUNNING" PROVE FALSE
    OBVIOUS
  <2>1. IsMaxCntPid(0, st, new)
    BY <1>2
  <2>2. Runnable(st, new) = {}
    BY <2>1 DEF IsMaxCntPid, Runnable
  <2>3. q \in Pids /\ q \in Nat /\ q # 0 /\ q < num_tasks
    BY PidFacts
  <2>4. new[q] = pr[q] /\ pr[q] \in Nat /\ pr[q] >= 1
    <3>1. q \in 1 .. num_tasks - 1
      BY <2>3
    <3> QED BY <2>3, <3>1 DEF Refill
  <2>5. q \in Runnable(st, new)
    <3>1. q \in 1 .. num_tasks - 1
      BY <2>3
    <3> QED BY <3>1, <2>4, <1>1 DEF Runnable
  <2> QED BY <2>2, <2>5
<1> QED BY <1>2, <1>3, <1>4, <1>5 DEF SwitchTo

-----------------------------------------------------------------------------
(* The invariant holds initially and every action preserves it.            *)

LEMMA InitIInv == ASSUME ProcAssumption PROVE Init => IInv
<1> SUFFICES ASSUME Init PROVE IInv
  OBVIOUS
<1> USE DEF Init, NoPage, Returns, States, Halts
<1>1. cpid \in [Pids -> Seq(UserPids)] /\ \A p \in Pids : Len(cpid[p]) <= CPID_MAX
  <2>1. <<1>> \in Seq(UserPids) /\ <<>> \in Seq(UserPids)
    BY PidFacts
  <2>2. Len(<<1>>) = 1 /\ Len(<<>>) = 0
    OBVIOUS
  <2>3. \A p \in Pids : cpid[p] \in {<<1>>, <<>>}
    OBVIOUS
  <2>4. cpid \in [Pids -> Seq(UserPids)]
    BY <2>1 DEF Init
  <2>5. \A p \in Pids : Len(cpid[p]) <= 1
    BY <2>2, <2>3
  <2>6. \A p \in Pids : Len(cpid[p]) \in Nat
    BY <2>4, LenProperties
  <2> QED BY <2>4, <2>5, <2>6, ProcAssumption DEF ProcAssumption
<1>2. PICK pr \in Priorities : priority = [p \in Pids |-> IF p = 1 THEN pr ELSE 0]
  OBVIOUS
<1>3. pr \in 1 .. PRIORITY_MAX
  BY <1>2, ProcAssumption DEF Priorities, ProcAssumption
<1>4. TypeOK
  <2>1. priority \in [Pids -> 0 .. PRIORITY_MAX] /\ counter \in [Pids -> 0 .. PRIORITY_MAX]
    BY <1>2, <1>3, ProcAssumption DEF ProcAssumption
  <2>2. num_tasks \in 2 .. NR_TASKS
    BY ProcAssumption DEF ProcAssumption
  <2>3. signal \in [Pids -> Pids] /\ fpid \in [Pids -> Pids]
    BY PidFacts
  <2> QED BY <1>1, <2>1, <2>2, <2>3, PidFacts DEF TypeOK
<1>5. TreeInv
  <2>1. \A p \in UserPids : cpid[p] = <<>>
    BY PidFacts
  <2>2. \A p \in Pids : state[p] # "NULL" => p <= 1
    OBVIOUS
  <2>3. GoneListNobody /\ Fathers /\ ChildListed
    <3>1. \A p \in UserPids \ {1} : state[p] = "NULL"
      BY <2>2, PidFacts
    <3>2. \A p \in UserPids : ToSet(cpid[p]) = {}
      BY <2>1, ToSetEmpty
    <3>3. fpid[1] = 0
      BY PidFacts
    <3> HIDE DEF Init
    <3> QED BY <2>1, <3>1, <3>2, <3>3 DEF GoneListNobody, Fathers, ChildListed
  <2>4. SlotsInUse
    BY <2>2, PidFacts DEF SlotsInUse
  <2> QED BY <2>3, <2>4 DEF TreeInv
<1>6. CpuInv
  BY <1>2, <1>3, PidFacts DEF CpuInv, Slices, CpuOnRunningTask, IdleOnlyWhenNothingRuns
<1>7. LiveHasSignal /\ KillFindsSignal /\ WaitQueueAgrees
  BY PidFacts DEF LiveHasSignal, KillFindsSignal, WaitQueueAgrees
<1> QED BY <1>4, <1>5, <1>6, <1>7 DEF IInv

\* In user mode the running task is a user task that may run.
LEMMA UserTaskRuns ==
    ASSUME ProcAssumption, IInv, halt = "no", current # 0
    PROVE  current \in UserPids /\ state[current] = "RUNNING" /\ current < num_tasks
BY PidFacts DEF IInv, TypeOK, CpuInv, CpuOnRunningTask, TreeInv, SlotsInUse

\* schedule() called with the tasks as they are.
LEMMA ScheduleKeepsIInv ==
    ASSUME ProcAssumption, IInv, halt = "no",
           NEW cnt \in [Pids -> 0 .. PRIORITY_MAX], cnt[0] = 0,
           Schedule(state, priority, cnt),
           pc' \in [Pids -> Returns \cup {"user"}],
           UNCHANGED <<tree, sigs, waitq>>
    PROVE  IInv'
<1> USE DEF IInv
<1>1. /\ counter' \in [Pids -> 0 .. PRIORITY_MAX] /\ counter'[0] = 0
      /\ current' \in Pids /\ state[current'] = "RUNNING"
      /\ halt' \in {"no", "idle"}
      /\ halt' = "idle" => \A p \in UserPids : state[p] # "RUNNING"
  BY ScheduleResult, ProcAssumption DEF TypeOK, TreeInv, CpuInv, SlotsInUse, Slices
<1> USE DEF tree, sigs, waitq
<1>2. TypeOK'
  BY <1>1 DEF TypeOK, Halts
<1>3. TreeInv'
  BY DEF TreeInv, GoneListNobody, SlotsInUse, Fathers, ChildListed
<1>4. CpuInv'
  BY <1>1 DEF CpuInv, Slices, CpuOnRunningTask, IdleOnlyWhenNothingRuns
<1>5. LiveHasSignal' /\ KillFindsSignal' /\ WaitQueueAgrees'
  BY <1>1 DEF LiveHasSignal, KillFindsSignal, WaitQueueAgrees
<1> QED BY <1>2, <1>3, <1>4, <1>5

LEMMA StopKeepsIInv ==
    ASSUME IInv, halt = "no", NEW why \in Halts \ {"idle"}, Stop(why),
           why = "null_signal" => current = 1
    PROVE  IInv'
BY DEF IInv, Stop, tree, sigs, waitq, TypeOK, TreeInv, GoneListNobody, SlotsInUse,
       Fathers, ChildListed, CpuInv, Slices, CpuOnRunningTask,
       IdleOnlyWhenNothingRuns, LiveHasSignal, KillFindsSignal, WaitQueueAgrees

\* Traps that change nothing but the pending bit and what is left to return from.
LEMMA TrapKeepsIInv ==
    ASSUME IInv,
           pc' \in [Pids -> Returns \cup {"user"}],
           pending' \in [Pids -> BOOLEAN],
           UNCHANGED <<halt, current, tree, signal, waitq>>,
           counter' \in [Pids -> 0 .. PRIORITY_MAX], counter'[0] = 0
    PROVE  IInv'
BY DEF IInv, tree, waitq, TypeOK, TreeInv, GoneListNobody, SlotsInUse,
       Fathers, ChildListed, CpuInv, Slices, CpuOnRunningTask,
       IdleOnlyWhenNothingRuns, LiveHasSignal, KillFindsSignal, WaitQueueAgrees

LEMMA TickType ==
    ASSUME ProcAssumption, TypeOK, counter[0] = 0
    PROVE  Tick \in [Pids -> 0 .. PRIORITY_MAX] /\ Tick[0] = 0
<1>1. counter \in [Pids -> 0 .. PRIORITY_MAX] /\ current \in Pids /\ PRIORITY_MAX \in Nat
  BY ProcAssumption DEF TypeOK, ProcAssumption
<1>2. counter[current] # 0 => counter[current] - 1 \in 0 .. PRIORITY_MAX
  BY <1>1
<1> QED BY <1>1, <1>2 DEF Tick

LEMMA BootKeeps == ASSUME ProcAssumption, IInv, Boot PROVE IInv'
BY ScheduleKeepsIInv DEF Boot, IInv, TypeOK, CpuInv, Slices

LEMMA TimerKeeps == ASSUME ProcAssumption, IInv, Timer PROVE IInv'
<1>1. Tick \in [Pids -> 0 .. PRIORITY_MAX] /\ Tick[0] = 0
  BY TickType DEF IInv, CpuInv, Slices
<1>2. pc' \in [Pids -> Returns \cup {"user"}]
  BY DEF Timer, Trap, Returns, IInv, TypeOK
<1>3. CASE counter' = Tick /\ UNCHANGED <<current, halt>>
  BY <1>1, <1>2, <1>3, TrapKeepsIInv DEF Timer, sigs, IInv, TypeOK
<1>4. CASE Schedule(state, priority, Tick)
  BY <1>1, <1>2, <1>4, ScheduleKeepsIInv DEF Timer, InUser
<1> QED BY <1>3, <1>4 DEF Timer

LEMMA OtherTrapKeeps == ASSUME ProcAssumption, IInv, OtherTrap PROVE IInv'
<1>1. pc' \in [Pids -> Returns \cup {"user"}]
  BY DEF OtherTrap, Trap, Returns, IInv, TypeOK
<1> QED BY <1>1, TrapKeepsIInv DEF OtherTrap, sigs, IInv, TypeOK, CpuInv, Slices

LEMMA SignalKeeps ==
    ASSUME ProcAssumption, IInv, SignalNone \/ SigchldNothing PROVE IInv'
<1>1. pc' \in [Pids -> Returns \cup {"user"}]
  BY DEF SignalNone, SigchldNothing, Trap, Returns, IInv, TypeOK
<1>2. pending' \in [Pids -> BOOLEAN]
  BY DEF SignalNone, SigchldNothing, ClearChld, sigs, IInv, TypeOK
<1> QED BY <1>1, <1>2, TrapKeepsIInv
        DEF SignalNone, SigchldNothing, sigs, IInv, TypeOK, CpuInv, Slices

LEMMA ForkPastKeeps ==
    ASSUME ProcAssumption, IInv, ForkPastTable \/ ForkPastCpid PROVE IInv'
BY StopKeepsIInv DEF ForkPastTable, ForkPastCpid, InUser, Halts

LEMMA ExitPastKeeps ==
    ASSUME ProcAssumption, IInv, ExitAdoptsSelf \/ ExitNullChild \/ ExitPastCpid
    PROVE  IInv'
BY StopKeepsIInv DEF ExitAdoptsSelf, ExitNullChild, ExitPastCpid, InUser, Halts

\* The number do_fork gives the child names no task.
LEMMA AvailIsFree ==
    ASSUME ProcAssumption, IInv, NEW c \in UserPids, IsAvailTaskId(c)
    PROVE  /\ state[c] = "NULL" /\ c # 1
           /\ c <= num_tasks
           /\ (c = num_tasks => num_tasks + 1 <= NR_TASKS)
<1>1. TypeOK /\ SlotsInUse
  BY DEF IInv, TreeInv
<1>2. num_tasks \in Nat /\ num_tasks >= 2
  BY <1>1 DEF TypeOK
<1>3. c \in Nat /\ c < NR_TASKS /\ NR_TASKS \in Nat
  BY PidFacts, ProcAssumption DEF ProcAssumption
<1>4. CASE c \in FreeSlots
  BY <1>1, <1>2, <1>3, <1>4 DEF FreeSlots, SlotsInUse
<1>5. CASE c = num_tasks
  BY <1>1, <1>2, <1>3, <1>5, PidFacts, SMTT(30) DEF SlotsInUse, TypeOK, States
<1> QED BY <1>4, <1>5 DEF IsAvailTaskId

LEMMA ForkKeeps == ASSUME ProcAssumption, IInv, Fork PROVE IInv'
<1>1. PICK c \in UserPids, pr \in Priorities : IsAvailTaskId(c) /\ ForkInto(c, pr)
  BY DEF Fork
<1>2. /\ current \in UserPids /\ state[current] = "RUNNING" /\ current < num_tasks
      /\ halt = "no" /\ Len(cpid[current]) < CPID_MAX
  BY UserTaskRuns DEF Fork, InUser
<1>3. /\ state[c] = "NULL" /\ c # 1 /\ c # current /\ c <= num_tasks
      /\ (c = num_tasks => num_tasks + 1 <= NR_TASKS)
  BY <1>1, <1>2, AvailIsFree
<1>4. pr \in 1 .. PRIORITY_MAX
  BY ProcAssumption DEF Priorities, ProcAssumption
<1>5. TypeOK /\ TreeInv /\ CpuInv /\ LiveHasSignal /\ KillFindsSignal /\ WaitQueueAgrees
  BY DEF IInv
<1>6. SignalPage(c) \in UserPids /\ SignalPage(c) # NoPage
  BY <1>2, <1>5, PidFacts DEF SignalPage, TypeOK, NoPage
<1> DEFINE longer == Append(cpid[current], c)
<1>7. /\ longer \in Seq(UserPids)
      /\ Len(longer) <= CPID_MAX
      /\ ToSet(longer) = ToSet(cpid[current]) \cup {c}
  <2>1. cpid[current] \in Seq(UserPids)
    BY <1>2, <1>5, PidFacts DEF TypeOK
  <2>2. longer \in Seq(UserPids) /\ Len(longer) = Len(cpid[current]) + 1
    BY <2>1, AppendProperties
  <2>3. Len(cpid[current]) \in Nat
    BY <2>1, LenProperties
  <2> QED BY <1>2, <2>1, <2>2, <2>3, ToSetAppend, ProcAssumption DEF ProcAssumption
<1>8. /\ state' = [state EXCEPT ![c] = "RUNNING"]
      /\ fpid' = [fpid EXCEPT ![c] = current]
      /\ cpid' = [cpid EXCEPT ![c] = <<>>, ![current] = longer]
      /\ num_tasks' = IF c = num_tasks THEN num_tasks + 1 ELSE num_tasks
      /\ priority' = [priority EXCEPT ![c] = pr]
      /\ counter' = [counter EXCEPT ![c] = 0]
      /\ signal' = [signal EXCEPT ![c] = SignalPage(c)]
      /\ pending' = [pending EXCEPT ![SignalPage(c)] = FALSE]
      /\ valid' = [valid EXCEPT ![c] = FALSE]
      /\ mask' = [mask EXCEPT ![c] = {}]
      /\ pc' = [pc EXCEPT ![c] = "sys", ![current] = "sys"]
      /\ halt' = halt /\ current' = current
  BY <1>1, <1>3 DEF ForkInto, CpidOnFork
<1> HIDE DEF longer
<1>9. /\ cpid' \in [Pids -> Seq(UserPids)]
      /\ \A p \in Pids : Len(cpid'[p]) <= CPID_MAX
      /\ cpid'[c] = <<>> /\ cpid'[current] = longer
      /\ \A p \in Pids \ {c, current} : cpid'[p] = cpid[p]
  <2>1. cpid \in [Pids -> Seq(UserPids)] /\ \A p \in Pids : Len(cpid[p]) <= CPID_MAX
    BY <1>5 DEF TypeOK
  <2>2. c \in Pids /\ current \in Pids
    BY <1>2, PidFacts
  <2>3. /\ cpid'[c] = <<>> /\ cpid'[current] = longer
        /\ \A p \in Pids \ {c, current} : cpid'[p] = cpid[p]
    BY <2>1, <2>2, <1>3, <1>8
  <2>4. Len(<<>>) <= CPID_MAX /\ <<>> \in Seq(UserPids)
    BY ProcAssumption DEF ProcAssumption
  <2>5. cpid' \in [Pids -> Seq(UserPids)]
    BY <2>1, <2>4, <1>7, <1>8
  <2> QED BY <2>1, <2>3, <2>4, <2>5, <1>7
<1>10. ToSet(cpid'[current]) = ToSet(cpid[current]) \cup {c} /\ ToSet(cpid'[c]) = {}
  BY <1>7, <1>9, ToSetEmpty
<1>11. TypeOK'
  <2>1. num_tasks' \in 2 .. NR_TASKS
    BY <1>3, <1>5, <1>8, ProcAssumption DEF TypeOK, ProcAssumption
  <2>2. c \in Pids /\ current \in Pids
    BY <1>2, PidFacts
  <2>3. priority' \in [Pids -> 0 .. PRIORITY_MAX] /\ counter' \in [Pids -> 0 .. PRIORITY_MAX]
    <3>1. pr \in 0 .. PRIORITY_MAX /\ 0 \in 0 .. PRIORITY_MAX
      BY <1>4, ProcAssumption DEF ProcAssumption
    <3> QED BY <3>1, <1>5, <1>8 DEF TypeOK
  <2>4. signal' \in [Pids -> Pids] /\ pending' \in [Pids -> BOOLEAN]
    BY <1>5, <1>6, <1>8, PidFacts DEF TypeOK
  <2>5. /\ state' \in [Pids -> States] /\ fpid' \in [Pids -> Pids]
        /\ valid' \in [Pids -> BOOLEAN] /\ mask' \in [Pids -> SUBSET Pids]
        /\ pc' \in [Pids -> Returns \cup {"user"}]
    BY <1>5, <1>8, <2>2 DEF TypeOK, States, Returns
  <2> QED BY <1>5, <1>8, <1>9, <2>1, <2>3, <2>4, <2>5 DEF TypeOK
<1>12. TreeInv'
  <2>1. GoneListNobody'
    BY <1>2, <1>3, <1>5, <1>8, <1>9, PidFacts DEF TypeOK, TreeInv, GoneListNobody
  <2>2. SlotsInUse'
    <3>1. num_tasks \in Nat /\ num_tasks <= num_tasks' /\ c < num_tasks'
      <4>1. num_tasks \in Nat
        BY <1>5 DEF TypeOK
      <4>2. c \in Nat
        BY PidFacts
      <4> QED BY <4>1, <4>2, <1>3, <1>8
    <3>2. state'[c] = "RUNNING" /\ \A p \in Pids \ {c} : state'[p] = state[p]
      BY <1>5, <1>8, PidFacts DEF TypeOK
    <3>3. \A p \in Pids : state'[p] # "NULL" => p < num_tasks'
      <4> SUFFICES ASSUME NEW p \in Pids, state'[p] # "NULL", p # c PROVE p < num_tasks'
        BY <3>1
      <4>1. p < num_tasks /\ p \in Nat /\ num_tasks' \in Nat
        BY <1>5, <1>8, <3>1, <3>2, PidFacts DEF TreeInv, SlotsInUse
      <4> QED BY <3>1, <4>1
    <3>4. state'[0] = state[0] /\ state'[1] = state[1]
      BY <1>3, <3>2, PidFacts
    <3> QED BY <1>5, <3>3, <3>4 DEF TreeInv, SlotsInUse
  <2>3. Fathers'
    <3>1. fpid'[1] = 0
      BY <1>3, <1>5, <1>8 DEF TreeInv, Fathers, TypeOK
    <3>2. \A p \in UserPids : 1 \notin ToSet(cpid'[p])
      BY <1>2, <1>3, <1>5, <1>9, <1>10, PidFacts DEF TreeInv, Fathers
    <3>3. \A p \in UserPids \ {1} :
            state'[p] # "NULL" => fpid'[p] \in UserPids /\ fpid'[p] # p
      BY <1>2, <1>3, <1>5, <1>8, PidFacts DEF TreeInv, Fathers, TypeOK
    <3> QED BY <3>1, <3>2, <3>3 DEF Fathers
  <2>4. ChildListed'
    <3> SUFFICES ASSUME NEW p \in UserPids \ {1}, state'[p] # "NULL"
                 PROVE  p \in ToSet(cpid'[fpid'[p]])
      BY DEF ChildListed
    <3>1. CASE p = c
      BY <1>5, <1>8, <1>10, <3>1, PidFacts DEF TypeOK
    <3>2. CASE p # c
      <4>1. /\ state[p] # "NULL" /\ fpid'[p] = fpid[p] /\ fpid[p] \in UserPids
            /\ p \in ToSet(cpid[fpid[p]])
        BY <1>5, <1>8, <3>2, PidFacts DEF TypeOK, TreeInv, ChildListed, Fathers
      <4>2. fpid[p] # c
        BY <4>1, <1>3, <1>5, ToSetEmpty DEF TreeInv, GoneListNobody
      <4> QED BY <4>1, <4>2, <1>9, <1>10, PidFacts
    <3> QED BY <3>1, <3>2
  <2> QED BY <2>1, <2>2, <2>3, <2>4 DEF TreeInv
<1>13. CpuInv'
  <2>1. Slices'
    BY <1>3, <1>4, <1>5, <1>8, PidFacts DEF TypeOK, CpuInv, Slices
  <2> QED BY <1>2, <1>3, <1>5, <1>8, <2>1, PidFacts
          DEF TypeOK, CpuInv, CpuOnRunningTask, IdleOnlyWhenNothingRuns
<1>14. LiveHasSignal' /\ KillFindsSignal'
  BY <1>2, <1>5, <1>6, <1>8, PidFacts DEF TypeOK, LiveHasSignal, KillFindsSignal
<1>15. WaitQueueAgrees'
  BY <1>3, <1>5, <1>8, PidFacts DEF TypeOK, WaitQueueAgrees
<1> QED BY <1>11, <1>12, <1>13, <1>14, <1>15 DEF IInv

LEMMA WaitKeeps == ASSUME ProcAssumption, IInv, Wait PROVE IInv'
<1>1. /\ current \in UserPids /\ state[current] = "RUNNING" /\ current < num_tasks
      /\ halt = "no"
  BY UserTaskRuns DEF Wait, InUser
<1>2. TypeOK /\ TreeInv /\ CpuInv /\ LiveHasSignal /\ KillFindsSignal /\ WaitQueueAgrees
  BY DEF IInv
<1>3. PICK w \in 0 .. num_tasks - 1 :
        mask' = [mask EXCEPT ![current] = mask[current] \cup {w}]
  BY DEF Wait
<1>4. /\ state' = [state EXCEPT ![current] = "INTERRUPTIBLE"]
      /\ valid' = [valid EXCEPT ![current] = TRUE]
      /\ pc' = [pc EXCEPT ![current] = "wait"]
      /\ num_tasks' = num_tasks /\ fpid' = fpid /\ cpid' = cpid /\ priority' = priority
      /\ signal' = signal /\ pending' = pending
      /\ Schedule(state', priority, counter)
  BY DEF Wait, Trap, sigs
<1>5. /\ state' \in [Pids -> States] /\ state'[0] = "RUNNING"
      /\ state'[current] = "INTERRUPTIBLE"
      /\ \A p \in Pids \ {current} : state'[p] = state[p]
  BY <1>1, <1>2, <1>4, PidFacts DEF TypeOK, States, TreeInv, SlotsInUse
<1>6. /\ \A p \in Pids : state'[p] # "NULL" => p < num_tasks
      /\ \A p \in UserPids : state'[p] = "RUNNING" => priority[p] >= 1
  BY <1>1, <1>2, <1>5, PidFacts DEF TreeInv, SlotsInUse, CpuInv, Slices
<1>7. /\ counter' \in [Pids -> 0 .. PRIORITY_MAX] /\ counter'[0] = 0
      /\ current' \in Pids /\ state'[current'] = "RUNNING"
      /\ halt' \in {"no", "idle"}
      /\ halt' = "idle" => \A p \in UserPids : state'[p] # "RUNNING"
  <2>1. /\ num_tasks \in 2 .. NR_TASKS
        /\ priority \in [Pids -> 0 .. PRIORITY_MAX]
        /\ counter \in [Pids -> 0 .. PRIORITY_MAX] /\ counter[0] = 0
    BY <1>2 DEF TypeOK, CpuInv, Slices
  <2> QED BY <2>1, <1>1, <1>4, <1>5, <1>6, ScheduleResult, ProcAssumption
<1>8. TypeOK'
  <2>1. w \in Pids
    BY <1>2, PidFacts DEF TypeOK
  <2>2. mask' \in [Pids -> SUBSET Pids]
    BY <1>2, <1>3, <2>1, <1>1, PidFacts DEF TypeOK
  <2>3. valid' \in [Pids -> BOOLEAN] /\ pc' \in [Pids -> Returns \cup {"user"}]
    BY <1>2, <1>4 DEF TypeOK, Returns
  <2> QED BY <1>2, <1>4, <1>5, <1>7, <2>2, <2>3 DEF TypeOK, Halts
<1>9. TreeInv'
  <2>1. GoneListNobody'
    BY <1>2, <1>4, <1>5, PidFacts DEF TreeInv, GoneListNobody
  <2>2. SlotsInUse'
    BY <1>2, <1>4, <1>5, <1>6, PidFacts DEF TreeInv, SlotsInUse
  <2>3. \A p \in UserPids : state'[p] # "NULL" => state[p] # "NULL"
    BY <1>1, <1>5, PidFacts
  <2>4. Fathers' /\ ChildListed'
    BY <1>2, <1>4, <2>3 DEF TreeInv, Fathers, ChildListed
  <2> QED BY <2>1, <2>2, <2>4 DEF TreeInv
<1>10. CpuInv'
  <2>1. Slices'
    BY <1>1, <1>2, <1>4, <1>5, <1>7, PidFacts DEF CpuInv, Slices
  <2> QED BY <1>7, <2>1 DEF CpuInv, CpuOnRunningTask, IdleOnlyWhenNothingRuns
<1>11. LiveHasSignal' /\ KillFindsSignal'
  BY <1>1, <1>2, <1>4, <1>5, <1>7, PidFacts DEF LiveHasSignal, KillFindsSignal
<1>12. WaitQueueAgrees'
  <2>1. /\ valid'[current] = TRUE /\ mask'[current] # {}
        /\ \A p \in Pids \ {current} : valid'[p] = valid[p] /\ mask'[p] = mask[p]
    BY <1>1, <1>2, <1>3, <1>4, PidFacts DEF TypeOK
  <2> QED BY <1>2, <1>5, <2>1 DEF WaitQueueAgrees
<1> QED BY <1>8, <1>9, <1>10, <1>11, <1>12 DEF IInv

\* The father that do_exit signals, after the adoption loop, is a live task: it
\* is init, or it still lists the task that exits.
LEMMA ExitFather ==
    ASSUME ProcAssumption, IInv, halt = "no", current \in UserPids, current # 1,
           state[current] = "RUNNING"
    PROVE  /\ Adopted[current] \in UserPids /\ Adopted[current] # current
           /\ state[Adopted[current]] \in {"RUNNING", "INTERRUPTIBLE"}
<1>1. TypeOK /\ SlotsInUse /\ Fathers /\ ChildListed /\ GoneListNobody
  BY DEF IInv, TreeInv
<1>2. CASE current \in Children
  BY <1>1, <1>2, PidFacts DEF Adopted, SlotsInUse
<1>3. CASE current \notin Children
  <2>1. Adopted[current] = fpid[current]
    BY <1>3, PidFacts DEF Adopted
  <2>2. /\ fpid[current] \in UserPids /\ fpid[current] # current
        /\ current \in ToSet(cpid[fpid[current]])
    BY <1>1 DEF Fathers, ChildListed
  <2>3. state[fpid[current]] \notin {"NULL", "ZOMBIE"}
    BY <1>1, <2>2, ToSetEmpty DEF GoneListNobody
  <2> QED BY <1>1, <2>1, <2>2, <2>3, PidFacts DEF TypeOK, States
<1> QED BY <1>2, <1>3

\* Exit by init has no signal_struct to post SIGCHLD to; exit by another has.
LEMMA ExitNullSignalKeeps ==
    ASSUME ProcAssumption, IInv, ExitNullSignal PROVE IInv'
<1>1. /\ current \in UserPids /\ state[current] = "RUNNING" /\ halt = "no"
  BY UserTaskRuns DEF ExitNullSignal, InUser
<1>2. current = 1
  <2> SUFFICES ASSUME current # 1 PROVE FALSE
    OBVIOUS
  <2> QED BY <1>1, ExitFather DEF ExitNullSignal, IInv, LiveHasSignal
<1> QED BY <1>1, <1>2, StopKeepsIInv DEF ExitNullSignal, Halts

LEMMA ExitKeeps == ASSUME ProcAssumption, IInv, Exit PROVE IInv'
<1>1. /\ current \in UserPids /\ state[current] = "RUNNING" /\ current < num_tasks
      /\ halt = "no"
  BY UserTaskRuns DEF Exit, InUser
<1>2. /\ TypeOK /\ CpuInv /\ LiveHasSignal /\ KillFindsSignal /\ WaitQueueAgrees
      /\ GoneListNobody /\ SlotsInUse /\ Fathers /\ ChildListed
  BY DEF IInv, TreeInv
<1> DEFINE f == Adopted[current]
<1>3. /\ f # current /\ (state[f] # "NULL" => signal[f] # NoPage)
      /\ ExitTo(f)
      /\ Len(cpid[1]) + Len(cpid[current]) <= CPID_MAX
      /\ \A c \in Children : state[c] # "NULL"
  BY DEF Exit, CanAdopt
<1>4. current # 1
  <2> SUFFICES ASSUME current = 1 PROVE FALSE
    OBVIOUS
  <2>1. cpid[1] = <<>>
    BY DEF Exit, CanAdopt
  <2>2. f = 0
    BY <1>2, <2>1, ToSetEmpty, PidFacts DEF Adopted, Children, Fathers
  <2> QED BY <1>2, <1>3, <2>2 DEF SlotsInUse, LiveHasSignal
<1>5. /\ f \in UserPids /\ state[f] \in {"RUNNING", "INTERRUPTIBLE"}
      /\ signal[f] \in UserPids
  <2>1. f \in UserPids /\ state[f] \in {"RUNNING", "INTERRUPTIBLE"}
    BY <1>1, <1>4, ExitFather
  <2> QED BY <2>1, <1>2, PidFacts DEF TypeOK, LiveHasSignal, NoPage
<1> DEFINE longer == cpid[1] \o cpid[current]
           dead == [state EXCEPT ![current] = "ZOMBIE"]
<1>6. /\ state' = IF Wakes(f) THEN [dead EXCEPT ![f] = "RUNNING"] ELSE dead
      /\ priority' = [priority EXCEPT ![current] = 0]
      /\ fpid' = [p \in Pids |-> IF p \in Children THEN 1 ELSE fpid[p]]
      /\ cpid' = [cpid EXCEPT ![1] = longer, ![current] = <<>>]
      /\ signal' = [signal EXCEPT ![current] = NoPage]
      /\ pending' = [pending EXCEPT ![signal[f]] = TRUE]
      /\ valid' = [p \in Pids |-> IF p = current \/ (p = f /\ Wakes(f))
                                  THEN FALSE ELSE valid[p]]
      /\ mask' = IF Wakes(f) THEN [mask EXCEPT ![f] = {}] ELSE mask
      /\ Schedule(state', priority', [counter EXCEPT ![current] = 0])
      /\ num_tasks' = num_tasks /\ pc' = pc
  BY <1>3, <1>5 DEF ExitTo, KillChld, CpidOnExit, ValidOnExit, Adopted
<1>7. ToSet(cpid[current]) = Children /\ Children \subseteq UserPids
  <2>1. cpid[current] \in Seq(UserPids)
    BY <1>1, <1>2, PidFacts DEF TypeOK
  <2> QED BY <2>1, ToSetElements DEF Children
<1>8. /\ longer \in Seq(UserPids)
      /\ Len(longer) <= CPID_MAX
      /\ ToSet(longer) = ToSet(cpid[1]) \cup Children
  <2>1. cpid[current] \in Seq(UserPids) /\ cpid[1] \in Seq(UserPids)
    BY <1>1, <1>2, PidFacts DEF TypeOK
  <2>2. longer \in Seq(UserPids) /\ Len(longer) = Len(cpid[1]) + Len(cpid[current])
    BY <2>1, ConcatProperties
  <2>3. ToSet(longer) = ToSet(cpid[1]) \cup ToSet(cpid[current])
    BY <2>1, ToSetConcat
  <2> QED BY <1>3, <1>7, <2>2, <2>3
<1> HIDE DEF longer, f
<1>9. /\ state' \in [Pids -> States]
      /\ state'[current] = "ZOMBIE"
      /\ state'[f] = IF Wakes(f) THEN "RUNNING" ELSE state[f]
      /\ \A p \in Pids \ {current, f} : state'[p] = state[p]
  <2>1. state \in [Pids -> States] /\ current \in Pids /\ f \in Pids /\ f # current
    BY <1>1, <1>2, <1>3, <1>5, PidFacts DEF TypeOK
  <2>2. CASE Wakes(f)
    BY <1>6, <2>1, <2>2 DEF States
  <2>3. CASE ~Wakes(f)
    BY <1>6, <2>1, <2>3 DEF States
  <2> QED BY <2>2, <2>3
<1>10. \A p \in Pids : state'[p] \in {"NULL", "ZOMBIE"} <=>
                         state[p] \in {"NULL", "ZOMBIE"} \/ p = current
  BY <1>1, <1>5, <1>9, PidFacts
<1>11. \A p \in Pids : state'[p] # "NULL" <=> state[p] # "NULL"
  BY <1>1, <1>5, <1>9, PidFacts
<1>12. /\ cpid' \in [Pids -> Seq(UserPids)]
       /\ \A p \in Pids : Len(cpid'[p]) <= CPID_MAX
       /\ cpid'[current] = <<>> /\ cpid'[1] = longer
       /\ \A p \in Pids \ {1, current} : cpid'[p] = cpid[p]
  <2>1. cpid \in [Pids -> Seq(UserPids)] /\ \A p \in Pids : Len(cpid[p]) <= CPID_MAX
    BY <1>2 DEF TypeOK
  <2>2. 1 \in Pids /\ current \in Pids
    BY <1>1, PidFacts
  <2>3. /\ cpid'[current] = <<>> /\ cpid'[1] = longer
        /\ \A p \in Pids \ {1, current} : cpid'[p] = cpid[p]
    BY <2>1, <2>2, <1>4, <1>6
  <2>4. Len(<<>>) <= CPID_MAX /\ <<>> \in Seq(UserPids)
    BY ProcAssumption DEF ProcAssumption
  <2>5. cpid' \in [Pids -> Seq(UserPids)]
    BY <2>1, <2>4, <1>6, <1>8
  <2> QED BY <2>1, <2>3, <2>4, <2>5, <1>8
<1>13. SlotsInUse'
  <2>1. state'[0] = "RUNNING" /\ state'[1] \in {"RUNNING", "INTERRUPTIBLE"}
    BY <1>1, <1>2, <1>4, <1>5, <1>9, PidFacts DEF SlotsInUse
  <2> QED BY <2>1, <1>2, <1>6, <1>11 DEF SlotsInUse
<1>14. priority' \in [Pids -> 0 .. PRIORITY_MAX]
  <2>1. 0 \in 0 .. PRIORITY_MAX
    BY ProcAssumption DEF ProcAssumption
  <2> QED BY <2>1, <1>2, <1>6 DEF TypeOK
<1>15. \A p \in UserPids : state'[p] \in {"RUNNING", "INTERRUPTIBLE"} => priority'[p] >= 1
  <2> SUFFICES ASSUME NEW p \in UserPids, state'[p] \in {"RUNNING", "INTERRUPTIBLE"}
               PROVE  priority'[p] >= 1
    OBVIOUS
  <2>1. p # current /\ priority'[p] = priority[p]
    BY <1>2, <1>6, <1>9, PidFacts DEF TypeOK
  <2>2. state[p] \in {"RUNNING", "INTERRUPTIBLE"}
    BY <2>1, <1>5, <1>9, PidFacts
  <2> QED BY <2>1, <2>2, <1>2 DEF CpuInv, Slices
<1>16. /\ counter' \in [Pids -> 0 .. PRIORITY_MAX] /\ counter'[0] = 0
       /\ current' \in Pids /\ state'[current'] = "RUNNING"
       /\ halt' \in {"no", "idle"}
       /\ halt' = "idle" => \A p \in UserPids : state'[p] # "RUNNING"
  <2> DEFINE cnt == [counter EXCEPT ![current] = 0]
  <2>1. cnt \in [Pids -> 0 .. PRIORITY_MAX] /\ cnt[0] = 0
    <3>1. 0 \in 0 .. PRIORITY_MAX
      BY ProcAssumption DEF ProcAssumption
    <3> QED BY <3>1, <1>1, <1>2, PidFacts DEF TypeOK, CpuInv, Slices
  <2>2. /\ num_tasks \in 2 .. NR_TASKS /\ state'[0] = "RUNNING"
        /\ \A p \in Pids : state'[p] # "NULL" => p < num_tasks
    BY <1>2, <1>6, <1>13 DEF TypeOK, SlotsInUse
  <2>3. Schedule(state', priority', cnt)
    BY <1>6
  <2> HIDE DEF cnt
  <2> QED BY <2>1, <2>2, <2>3, <1>1, <1>9, <1>14, <1>15, ScheduleResult, ProcAssumption
<1>17. TypeOK'
  <2>1. fpid' \in [Pids -> Pids]
    BY <1>2, <1>6, PidFacts DEF TypeOK
  <2>2. signal' \in [Pids -> Pids] /\ pending' \in [Pids -> BOOLEAN]
    BY <1>2, <1>5, <1>6, PidFacts DEF TypeOK, NoPage
  <2>3. valid' \in [Pids -> BOOLEAN] /\ mask' \in [Pids -> SUBSET Pids]
    BY <1>2, <1>6 DEF TypeOK
  <2> QED BY <1>2, <1>6, <1>9, <1>12, <1>14, <1>16, <2>1, <2>2, <2>3 DEF TypeOK, Halts
<1>18. GoneListNobody'
  BY <1>2, <1>4, <1>10, <1>12, PidFacts DEF GoneListNobody, SlotsInUse
<1>19. Fathers'
  <2>1. 1 \notin Children
    BY <1>1, <1>2, <1>7 DEF Fathers
  <2>2. \A p \in UserPids : 1 \notin ToSet(cpid'[p])
    BY <1>2, <1>8, <1>12, <2>1, ToSetEmpty, PidFacts DEF Fathers
  <2>3. fpid'[1] = 0
    BY <1>2, <1>6, <2>1, PidFacts DEF Fathers
  <2>4. \A p \in UserPids \ {1} :
          state'[p] # "NULL" => fpid'[p] \in UserPids /\ fpid'[p] # p
    BY <1>2, <1>6, <1>11, PidFacts DEF Fathers
  <2> QED BY <2>2, <2>3, <2>4 DEF Fathers
<1>20. ChildListed'
  <2> SUFFICES ASSUME NEW p \in UserPids \ {1}, state'[p] # "NULL"
               PROVE  p \in ToSet(cpid'[fpid'[p]])
    BY DEF ChildListed
  <2>1. CASE p \in Children
    BY <1>6, <1>8, <1>12, <2>1, PidFacts
  <2>2. CASE p \notin Children
    <3>1. fpid'[p] = fpid[p] /\ fpid[p] \in UserPids /\ p \in ToSet(cpid[fpid[p]])
      BY <1>2, <1>6, <1>11, <2>2, PidFacts DEF Fathers, ChildListed
    <3>2. fpid[p] # current
      BY <1>7, <2>2, <3>1
    <3> QED BY <1>8, <1>12, <3>1, <3>2, PidFacts
  <2> QED BY <2>1, <2>2
<1>21. CpuInv'
  BY <1>15, <1>16 DEF CpuInv, Slices, CpuOnRunningTask, IdleOnlyWhenNothingRuns
<1>22. LiveHasSignal' /\ KillFindsSignal'
  <2>1. signal'[0] = NoPage
    BY <1>1, <1>2, <1>6, PidFacts DEF TypeOK, LiveHasSignal
  <2>2. \A p \in UserPids : state'[p] \in {"RUNNING", "INTERRUPTIBLE"} => signal'[p] # NoPage
    BY <1>2, <1>5, <1>6, <1>9, PidFacts DEF TypeOK, LiveHasSignal
  <2> QED BY <2>1, <2>2, <1>16 DEF LiveHasSignal, KillFindsSignal
<1>23. WaitQueueAgrees'
  <2> SUFFICES ASSUME NEW p \in Pids
               PROVE  /\ valid'[p] <=> state'[p] = "INTERRUPTIBLE"
                      /\ valid'[p] <=> mask'[p] # {}
    BY DEF WaitQueueAgrees
  <2>1. CASE p = current
    <3>1. ~valid[p] /\ mask[p] = {}
      BY <1>1, <1>2, <2>1, PidFacts DEF WaitQueueAgrees
    <3>2. mask'[p] = mask[p]
      BY <1>2, <1>3, <1>6, <2>1 DEF TypeOK
    <3> QED BY <1>6, <1>9, <2>1, <3>1, <3>2
  <2>2. CASE p = f
    <3>1. p \in Pids /\ p # current
      BY <1>3, <2>2 DEF f
    <3>2. CASE Wakes(f)
      <4>1. mask'[p] = {}
        BY <1>2, <1>6, <2>2, <3>2 DEF TypeOK
      <4> QED BY <1>6, <1>9, <2>2, <3>1, <3>2, <4>1
    <3>3. CASE ~Wakes(f)
      BY <1>2, <1>6, <1>9, <2>2, <3>1, <3>3 DEF WaitQueueAgrees
    <3> QED BY <3>2, <3>3
  <2>3. CASE p # current /\ p # f
    <3>1. mask'[p] = mask[p] /\ valid'[p] = valid[p] /\ state'[p] = state[p]
      BY <1>2, <1>6, <1>9, <2>3 DEF TypeOK
    <3> QED BY <1>2, <3>1 DEF WaitQueueAgrees
  <2> QED BY <2>1, <2>2, <2>3
<1> QED BY <1>13, <1>17, <1>18, <1>19, <1>20, <1>21, <1>22, <1>23 DEF IInv, TreeInv

LEMMA ReapKeeps == ASSUME ProcAssumption, IInv, SigchldReap PROVE IInv'
<1>1. /\ current \in UserPids /\ state[current] = "RUNNING" /\ current < num_tasks
      /\ halt = "no"
  BY UserTaskRuns DEF SigchldReap, InReturn
<1>2. /\ TypeOK /\ CpuInv /\ LiveHasSignal /\ KillFindsSignal /\ WaitQueueAgrees
      /\ GoneListNobody /\ SlotsInUse /\ Fathers /\ ChildListed
  BY DEF IInv, TreeInv
<1>3. PICK z \in UserPids : state[z] = "ZOMBIE" /\ Reap(z)
  <2>1. PICK i \in 1 .. Len(cpid[current]) : FirstZombie(i) /\ Reap(cpid[current][i])
    BY DEF SigchldReap
  <2>2. cpid[current][i] \in UserPids
    <3>1. cpid[current] \in Seq(UserPids)
      BY <1>1, <1>2, PidFacts DEF TypeOK
    <3> QED BY <3>1, ElementOfSeq
  <2> QED BY <2>1, <2>2 DEF FirstZombie
<1>4. z # 1 /\ z # current /\ z \in Pids
  BY <1>1, <1>2, <1>3, PidFacts DEF SlotsInUse
<1>5. /\ state' = [state EXCEPT ![z] = "NULL"]
      /\ fpid' = [fpid EXCEPT ![z] = 0]
      /\ pc' = [pc EXCEPT ![z] = "user", ![current] = "user"]
      /\ Schedule(state', priority, counter)
      /\ num_tasks' = num_tasks /\ cpid' = cpid /\ priority' = priority
      /\ signal' = signal /\ valid' = valid /\ mask' = mask
      /\ pending' = [pending EXCEPT ![signal[current]] = FALSE]
  BY <1>3 DEF Reap, SigchldReap, ClearChld, waitq
<1>6. /\ state' \in [Pids -> States] /\ state'[z] = "NULL"
      /\ \A p \in Pids \ {z} : state'[p] = state[p]
  BY <1>2, <1>4, <1>5 DEF TypeOK, States
<1>7. SlotsInUse'
  BY <1>2, <1>3, <1>4, <1>5, <1>6, PidFacts DEF SlotsInUse
<1>8. /\ counter' \in [Pids -> 0 .. PRIORITY_MAX] /\ counter'[0] = 0
      /\ current' \in Pids /\ state'[current'] = "RUNNING"
      /\ halt' \in {"no", "idle"}
      /\ halt' = "idle" => \A p \in UserPids : state'[p] # "RUNNING"
  <2>1. /\ num_tasks \in 2 .. NR_TASKS
        /\ priority \in [Pids -> 0 .. PRIORITY_MAX]
        /\ counter \in [Pids -> 0 .. PRIORITY_MAX] /\ counter[0] = 0
    BY <1>2 DEF TypeOK, CpuInv, Slices
  <2>2. \A p \in UserPids : state'[p] = "RUNNING" => priority[p] >= 1
    BY <1>2, <1>6, PidFacts DEF CpuInv, Slices
  <2>3. state'[0] = "RUNNING" /\ \A p \in Pids : state'[p] # "NULL" => p < num_tasks
    BY <1>5, <1>7 DEF SlotsInUse
  <2> QED BY <2>1, <2>2, <2>3, <1>1, <1>5, <1>6, ScheduleResult, ProcAssumption
<1>9. TypeOK'
  <2>1. pc' \in [Pids -> Returns \cup {"user"}] /\ pending' \in [Pids -> BOOLEAN]
    BY <1>2, <1>5 DEF TypeOK
  <2>2. fpid' \in [Pids -> Pids]
    BY <1>2, <1>5, PidFacts DEF TypeOK
  <2> QED BY <1>2, <1>5, <1>6, <1>8, <2>1, <2>2 DEF TypeOK, Halts
<1>10. GoneListNobody'
  BY <1>2, <1>3, <1>5, <1>6, PidFacts DEF GoneListNobody
<1>11. Fathers' /\ ChildListed'
  <2>1. \A p \in UserPids \ {1} : state'[p] # "NULL" => state[p] # "NULL" /\ fpid'[p] = fpid[p]
    BY <1>2, <1>5, <1>6, PidFacts DEF TypeOK
  <2>2. fpid'[1] = fpid[1]
    BY <1>2, <1>4, <1>5, PidFacts DEF TypeOK
  <2> QED BY <1>2, <1>5, <2>1, <2>2 DEF Fathers, ChildListed
<1>12. CpuInv'
  <2>1. Slices'
    BY <1>2, <1>5, <1>6, <1>8, PidFacts DEF CpuInv, Slices
  <2> QED BY <1>8, <2>1 DEF CpuInv, CpuOnRunningTask, IdleOnlyWhenNothingRuns
<1>13. LiveHasSignal' /\ KillFindsSignal'
  BY <1>2, <1>5, <1>6, <1>8, PidFacts DEF LiveHasSignal, KillFindsSignal
<1>14. WaitQueueAgrees'
  BY <1>2, <1>3, <1>5, <1>6 DEF WaitQueueAgrees
<1> QED BY <1>7, <1>9, <1>10, <1>11, <1>12, <1>13, <1>14 DEF IInv, TreeInv

LEMMA StutterKeeps == ASSUME IInv, UNCHANGED vars PROVE IInv'
BY DEF vars, IInv, TypeOK, TreeInv, GoneListNobody, SlotsInUse, Fathers, ChildListed,
       CpuInv, Slices, CpuOnRunningTask, IdleOnlyWhenNothingRuns, LiveHasSignal,
       KillFindsSignal, WaitQueueAgrees

LEMMA StepIInv == ASSUME ProcAssumption PROVE IInv /\ [Next]_vars => IInv'
<1> SUFFICES ASSUME IInv, [Next]_vars PROVE IInv'
  OBVIOUS
<1>1. CASE Boot
  BY <1>1, BootKeeps
<1>2. CASE Timer
  BY <1>2, TimerKeeps
<1>3. CASE OtherTrap
  BY <1>3, OtherTrapKeeps
<1>4. CASE Fork
  BY <1>4, ForkKeeps
<1>5. CASE ForkPastTable \/ ForkPastCpid
  BY <1>5, ForkPastKeeps
<1>6. CASE Wait
  BY <1>6, WaitKeeps
<1>7. CASE Exit
  BY <1>7, ExitKeeps
<1>8. CASE ExitAdoptsSelf \/ ExitNullChild \/ ExitPastCpid
  BY <1>8, ExitPastKeeps
<1>9. CASE ExitNullSignal
  BY <1>9, ExitNullSignalKeeps
<1>10. CASE SignalNone \/ SigchldNothing
  BY <1>10, SignalKeeps
<1>11. CASE SigchldReap
  BY <1>11, ReapKeeps
<1>12. CASE UNCHANGED vars
  BY <1>12, StutterKeeps
<1> QED BY <1>1, <1>2, <1>3, <1>4, <1>5, <1>6, <1>7, <1>8, <1>9, <1>10, <1>11, <1>12
        DEF Next

-----------------------------------------------------------------------------
(* The theorems.                                                           *)

\* The strengthened invariant holds throughout every behaviour of the kernel.
THEOREM InvariantHolds == Spec => []IInv
<1>1. Init => IInv
  BY InitIInv, ProcAssumption
<1>2. IInv /\ [Next]_vars => IInv'
  BY StepIInv, ProcAssumption
<1> QED BY <1>1, <1>2, PTL DEF Spec

\* Every variable keeps its type: in particular the counters stay within a time
\* slice and num_tasks, the children lists and the pids within their arrays.
THEOREM TypeCorrect == Spec => []TypeOK
<1>1. IInv => TypeOK
  BY DEF IInv
<1> QED BY <1>1, InvariantHolds, PTL

\* do_exit leaves no task behind whose father is dead or gone.
THEOREM FathersLive == Spec => []ParentAlive
<1>1. IInv => ParentAlive
  <2> SUFFICES ASSUME IInv, NEW p \in UserPids \ {1}, state[p] # "NULL"
               PROVE  /\ fpid[p] \in UserPids
                      /\ state[fpid[p]] \in {"RUNNING", "INTERRUPTIBLE"}
    BY DEF ParentAlive
  <2>1. fpid[p] \in UserPids /\ p \in ToSet(cpid[fpid[p]])
    BY DEF IInv, TreeInv, Fathers, ChildListed
  <2>2. state[fpid[p]] \notin {"NULL", "ZOMBIE"}
    BY <2>1, ToSetEmpty DEF IInv, TreeInv, GoneListNobody
  <2> QED BY <2>1, <2>2, PidFacts, ProcAssumption DEF IInv, TypeOK, States
<1> QED BY <1>1, InvariantHolds, PTL

\* fpid and cpid[] describe the same tree.
THEOREM ChildrenListed == Spec => []ChildListed
<1>1. IInv => ChildListed
  BY DEF IInv, TreeInv
<1> QED BY <1>1, InvariantHolds, PTL

\* schedule() never gives the CPU to a task that is asleep, dead or absent, and
\* gives it up only when no task can run.
THEOREM SchedulerSafe == Spec => [](CpuOnRunningTask /\ IdleOnlyWhenNothingRuns)
<1>1. IInv => CpuOnRunningTask /\ IdleOnlyWhenNothingRuns
  BY DEF IInv, CpuInv
<1> QED BY <1>1, InvariantHolds, PTL

\* Posting SIGCHLD fails for lack of a signal_struct only when init exits.
THEOREM KillSafe == Spec => []KillFindsSignal
<1>1. IInv => KillFindsSignal
  BY DEF IInv
<1> QED BY <1>1, InvariantHolds, PTL

\* The wait queue names exactly the tasks that sleep.
THEOREM WaitQueueSafe == Spec => []WaitQueueAgrees
<1>1. IInv => WaitQueueAgrees
  BY DEF IInv
<1> QED BY <1>1, InvariantHolds, PTL

-----------------------------------------------------------------------------
(* What a step does to the tree.                                           *)

All == Live \cup Dead

\* A fork adds a task under the running one.
GrowsBy(c) ==
    /\ current \in Live /\ c \in UserPids \ {1} /\ c \notin All
    /\ Live' = Live \cup {c} /\ Dead' = Dead
    /\ fpid' = [fpid EXCEPT ![c] = current]

\* An exit kills the running task and hands what it lists to init.
LosesCurrent ==
    /\ current \in Live \ {1}
    /\ Live' = Live \ {current} /\ Dead' = Dead \cup {current}
    /\ fpid' = [p \in Pids |-> IF p \in Children THEN 1 ELSE fpid[p]]

\* A dead task is freed.
Frees(z) ==
    /\ z \in Dead
    /\ Live' = Live /\ Dead' = Dead \ {z}
    /\ fpid' = [fpid EXCEPT ![z] = 0]

SameTree == Live' = Live /\ Dead' = Dead /\ fpid' = fpid

LEMMA TreeStep ==
    ASSUME ProcAssumption, IInv, [Next]_vars
    PROVE  \/ \E c \in UserPids : GrowsBy(c)
           \/ LosesCurrent
           \/ \E z \in UserPids : Frees(z)
           \/ SameTree
<1>0. TypeOK /\ TreeInv
  BY DEF IInv
<1>1. CASE Fork
  <2>1. PICK c \in UserPids, pr \in Priorities : IsAvailTaskId(c) /\ ForkInto(c, pr)
    BY <1>1 DEF Fork
  <2>2. current \in UserPids /\ state[current] = "RUNNING"
    BY <1>1, UserTaskRuns DEF Fork, InUser
  <2>3. state[c] = "NULL" /\ c # 1
    BY <2>1, AvailIsFree
  <2>4. state' = [state EXCEPT ![c] = "RUNNING"] /\ fpid' = [fpid EXCEPT ![c] = current]
    BY <2>1 DEF ForkInto
  <2>5. state'[c] = "RUNNING" /\ \A p \in UserPids \ {c} : state'[p] = state[p]
    BY <1>0, <2>4, PidFacts DEF TypeOK
  <2>6. GrowsBy(c)
    BY <2>2, <2>3, <2>4, <2>5 DEF GrowsBy, Live, Dead, All
  <2> QED BY <2>6
<1>2. CASE Exit
  <2> DEFINE f == Adopted[current]
  <2>1. /\ current \in UserPids /\ state[current] = "RUNNING" /\ halt = "no"
        /\ f # current /\ ExitTo(f) /\ (state[f] # "NULL" => signal[f] # NoPage)
        /\ (current = 1 => cpid[1] = <<>>)
    BY <1>2, UserTaskRuns DEF Exit, InUser, CanAdopt
  <2>2. current # 1
    <3> SUFFICES ASSUME current = 1 PROVE FALSE
      OBVIOUS
    <3>1. f = 0
      BY <1>0, <2>1, ToSetEmpty, PidFacts DEF Adopted, Children, TreeInv, Fathers
    <3> QED BY <1>0, <2>1, <3>1 DEF TreeInv, SlotsInUse, IInv, LiveHasSignal
  <2>3. f \in UserPids /\ state[f] \in {"RUNNING", "INTERRUPTIBLE"}
    BY <2>1, <2>2, ExitFather
  <2> DEFINE gone == [state EXCEPT ![current] = "ZOMBIE"]
  <2>4. /\ state' = IF Wakes(f) THEN [gone EXCEPT ![f] = "RUNNING"] ELSE gone
        /\ fpid' = [p \in Pids |-> IF p \in Children THEN 1 ELSE fpid[p]]
    BY <2>1 DEF ExitTo, Adopted
  <2> HIDE DEF f
  <2>5. /\ state'[current] = "ZOMBIE"
        /\ state'[f] \in {"RUNNING", "INTERRUPTIBLE"}
        /\ \A p \in UserPids \ {current, f} : state'[p] = state[p]
    <3>1. state \in [Pids -> States] /\ current \in Pids /\ f \in Pids
      BY <1>0, <2>1, <2>3, PidFacts DEF TypeOK
    <3>2. CASE Wakes(f)
      BY <2>1, <2>3, <2>4, <3>1, <3>2, PidFacts
    <3>3. CASE ~Wakes(f)
      BY <2>1, <2>3, <2>4, <3>1, <3>3, PidFacts
    <3> QED BY <3>2, <3>3
  <2>6. LosesCurrent
    BY <2>1, <2>2, <2>3, <2>4, <2>5 DEF LosesCurrent, Live, Dead
  <2> QED BY <2>6
<1>3. CASE SigchldReap
  <2>1. current \in UserPids
    BY <1>3, UserTaskRuns DEF SigchldReap, InReturn
  <2>2. PICK i \in 1 .. Len(cpid[current]) : FirstZombie(i) /\ Reap(cpid[current][i])
    BY <1>3 DEF SigchldReap
  <2> DEFINE z == cpid[current][i]
  <2>3. z \in UserPids
    <3>1. cpid[current] \in Seq(UserPids)
      BY <1>0, <2>1, PidFacts DEF TypeOK
    <3> QED BY <3>1, ElementOfSeq
  <2>4. /\ state[z] = "ZOMBIE" /\ state' = [state EXCEPT ![z] = "NULL"]
        /\ fpid' = [fpid EXCEPT ![z] = 0]
    BY <2>2 DEF FirstZombie, Reap
  <2> HIDE DEF z
  <2>5. state'[z] = "NULL" /\ \A p \in UserPids \ {z} : state'[p] = state[p]
    BY <1>0, <2>3, <2>4, PidFacts DEF TypeOK
  <2>6. Frees(z)
    BY <2>3, <2>4, <2>5 DEF Frees, Live, Dead
  <2> QED BY <2>3, <2>6
<1>4. CASE Wait
  <2>1. current \in UserPids /\ state[current] = "RUNNING"
    BY <1>4, UserTaskRuns DEF Wait, InUser
  <2>2. state' = [state EXCEPT ![current] = "INTERRUPTIBLE"] /\ fpid' = fpid
    BY <1>4 DEF Wait
  <2>3. state'[current] = "INTERRUPTIBLE" /\ \A p \in UserPids \ {current} : state'[p] = state[p]
    BY <1>0, <2>1, <2>2, PidFacts DEF TypeOK
  <2>4. SameTree
    BY <2>1, <2>2, <2>3 DEF SameTree, Live, Dead
  <2> QED BY <2>4
<1>5. ASSUME state' = state, fpid' = fpid PROVE SameTree
  BY <1>5 DEF SameTree, Live, Dead
<1>6. CASE Boot \/ Timer \/ OtherTrap \/ SignalNone \/ SigchldNothing \/ UNCHANGED vars
  BY <1>5, <1>6 DEF Boot, Timer, OtherTrap, SignalNone, SigchldNothing, tree, vars
<1>7. CASE \/ ForkPastTable \/ ForkPastCpid \/ ExitAdoptsSelf \/ ExitNullChild
           \/ ExitPastCpid \/ ExitNullSignal
  BY <1>5, <1>7 DEF ForkPastTable, ForkPastCpid, ExitAdoptsSelf, ExitNullChild,
                    ExitPastCpid, ExitNullSignal, Stop, tree
<1> QED BY <1>1, <1>2, <1>3, <1>4, <1>6, <1>7 DEF Next

\* Every task listed as live or dead but init has a live father, other than itself.
LEMMA TreeFacts ==
    ASSUME ProcAssumption, IInv
    PROVE  /\ 1 \in Live /\ Live \cap Dead = {} /\ All \subseteq UserPids
           /\ \A p \in UserPids : p \in All <=> state[p] # "NULL"
           /\ \A p \in All \ {1} : fpid[p] \in Live /\ fpid[p] # p
           /\ \A p \in All \ {1} : p \in ToSet(cpid[fpid[p]])
           /\ \A p \in UserPids : 1 \notin ToSet(cpid[p])
           /\ fpid \in [Pids -> Pids] /\ UserPids \subseteq Pids
<1>1. TypeOK /\ SlotsInUse /\ Fathers /\ ChildListed /\ GoneListNobody
  BY DEF IInv, TreeInv
<1>2. \A p \in UserPids : p \in All <=> state[p] # "NULL"
  BY <1>1, PidFacts DEF TypeOK, States, All, Live, Dead
<1>3. 1 \in Live /\ Live \cap Dead = {} /\ All \subseteq UserPids
  BY <1>1, PidFacts DEF SlotsInUse, Live, Dead, All
<1>4. ASSUME NEW p \in All \ {1}
      PROVE  /\ fpid[p] \in Live /\ fpid[p] # p
             /\ p \in ToSet(cpid[fpid[p]])
  <2>1. /\ fpid[p] \in UserPids /\ fpid[p] # p
        /\ p \in ToSet(cpid[fpid[p]])
    BY <1>1, <1>2, <1>3 DEF Fathers, ChildListed
  <2>2. state[fpid[p]] \notin {"NULL", "ZOMBIE"}
    BY <1>1, <2>1, ToSetEmpty DEF GoneListNobody
  <2> QED BY <1>1, <2>1, <2>2, PidFacts DEF Live, TypeOK, States
<1> QED BY <1>1, <1>2, <1>3, <1>4, PidFacts DEF Fathers, TypeOK

-----------------------------------------------------------------------------
(* Every task descends from init.                                          *)

LEMMA RootedStep ==
    ASSUME ProcAssumption, IInv, IInv', Rooted, [Next]_vars PROVE Rooted'
<1> SUFFICES ASSUME NEW S \in SUBSET (UserPids \ {1}), S # {},
                    \A p \in S : state'[p] # "NULL"
             PROVE  \E p \in S : fpid'[p] \notin S
  BY DEF Rooted
<1>1. S \subseteq All' /\ S \subseteq UserPids /\ 1 \notin S
  <2>1. state' \in [Pids -> States]
    BY DEF IInv, TypeOK
  <2> QED BY <2>1, PidFacts DEF States, All, Live, Dead
<1>2. ASSUME NEW T \in SUBSET S, T # {}, T \subseteq All
      PROVE  \E p \in T : fpid[p] \notin T
  BY <1>1, <1>2, TreeFacts DEF Rooted
<1>3. ASSUME NEW c \in UserPids, GrowsBy(c) PROVE \E p \in S : fpid'[p] \notin S
  <2>1. /\ fpid'[c] = current /\ \A p \in UserPids \ {c} : fpid'[p] = fpid[p]
        /\ current # c /\ c \notin All /\ All' = All \cup {c}
    BY <1>3, TreeFacts DEF GrowsBy, All
  <2>2. CASE S = {c}
    BY <2>1, <2>2
  <2>3. CASE S # {c}
    <3>1. S \ {c} # {} /\ S \ {c} \subseteq All
      BY <1>1, <2>1, <2>3
    <3>2. PICK p \in S \ {c} : fpid[p] \notin S \ {c}
      BY <3>1, <1>2
    <3>3. fpid[p] # c
      BY <1>1, <2>1, <3>1, TreeFacts DEF All
    <3> QED BY <1>1, <2>1, <3>2, <3>3
  <2> QED BY <2>2, <2>3
<1>4. ASSUME LosesCurrent PROVE \E p \in S : fpid'[p] \notin S
  <2>1. S \subseteq All
    BY <1>1, <1>4 DEF LosesCurrent, All
  <2>2. PICK p \in S : fpid[p] \notin S
    BY <1>2, <2>1
  <2> QED BY <1>1, <1>4, <2>2, TreeFacts DEF LosesCurrent
<1>5. ASSUME NEW z \in UserPids, Frees(z) PROVE \E p \in S : fpid'[p] \notin S
  <2>1. S \subseteq All /\ z \notin S
    BY <1>1, <1>5, TreeFacts DEF Frees, All
  <2>2. PICK p \in S : fpid[p] \notin S
    BY <1>2, <2>1
  <2> QED BY <1>1, <1>5, <2>1, <2>2, TreeFacts DEF Frees
<1>6. ASSUME SameTree PROVE \E p \in S : fpid'[p] \notin S
  BY <1>1, <1>2, <1>6 DEF SameTree, All
<1> QED BY <1>3, <1>4, <1>5, <1>6, TreeStep

\* No set of tasks that leaves out init is closed under fatherhood.
THEOREM AllDescendFromInit == Spec => []Rooted
<1>1. Init => Rooted
  <2> SUFFICES ASSUME Init, NEW S \in SUBSET (UserPids \ {1}), S # {},
                      \A p \in S : state[p] # "NULL"
               PROVE  FALSE
    BY DEF Rooted
  <2>1. \A p \in UserPids \ {1} : state[p] = "NULL"
    BY PidFacts, ProcAssumption DEF Init
  <2> QED BY <2>1
<1>2. IInv /\ IInv' /\ Rooted /\ [Next]_vars => Rooted'
  BY RootedStep, ProcAssumption
<1> QED BY <1>1, <1>2, InvariantHolds, PTL DEF Spec

\* A dead task is reaped or stays dead.
THEOREM DeadNeverReturn == Spec => DeadStayDead
<1>1. ASSUME IInv, [Next]_vars, NEW p \in Pids, state[p] = "ZOMBIE"
      PROVE  state'[p] \in {"ZOMBIE", "NULL"}
  <2>1. p \in Dead /\ p \in UserPids
    BY <1>1, PidFacts, ProcAssumption DEF IInv, TreeInv, SlotsInUse, Dead
  <2>2. p \in Dead' \/ ~(p \in Live')
    <3>1. ASSUME NEW c \in UserPids, GrowsBy(c) PROVE p \in Dead'
      BY <2>1, <3>1 DEF GrowsBy
    <3>2. ASSUME LosesCurrent PROVE p \in Dead'
      BY <2>1, <3>2 DEF LosesCurrent
    <3>3. ASSUME NEW z \in UserPids, Frees(z) PROVE ~(p \in Live')
      BY <1>1, <2>1, <3>3, TreeFacts, ProcAssumption DEF Frees
    <3>4. ASSUME SameTree PROVE p \in Dead'
      BY <2>1, <3>4 DEF SameTree
    <3> QED BY <1>1, <3>1, <3>2, <3>3, <3>4, TreeStep, ProcAssumption
  <2>3. state' \in [Pids -> States]
    BY <1>1, StepIInv, ProcAssumption DEF IInv, TypeOK
  <2> QED BY <2>1, <2>2, <2>3, PidFacts, ProcAssumption DEF Dead, Live, States
<1>2. IInv /\ [Next]_vars =>
        [\A p \in Pids : state[p] = "ZOMBIE" => state'[p] \in {"ZOMBIE", "NULL"}]_vars
  BY <1>1
<1> QED BY <1>2, InvariantHolds, PTL DEF Spec, DeadStayDead

-----------------------------------------------------------------------------
(* An exit wakes the father that sleeps on it.                             *)

\* A task never lists itself among its children, so the adoption loop of
\* do_exit leaves the father of the exiting task what it was.
NotOwnChild == \A p \in UserPids : p \notin ToSet(cpid[p])

\* Only fork and exit write a list of children.
LEMMA NotOwnChildStep ==
    ASSUME ProcAssumption, IInv, NotOwnChild, [Next]_vars PROVE NotOwnChild'
<1>0. TypeOK
  BY DEF IInv
<1> SUFFICES ASSUME NEW p \in UserPids PROVE p \notin ToSet(cpid'[p])
  BY DEF NotOwnChild
<1>1. cpid \in [Pids -> Seq(UserPids)] /\ p \in Pids /\ 1 \in Pids
  BY <1>0, PidFacts DEF TypeOK
<1>2. ASSUME cpid' = cpid PROVE p \notin ToSet(cpid'[p])
  BY <1>2 DEF NotOwnChild
<1>3. CASE Fork
  <2>1. PICK c \in UserPids, pr \in Priorities : IsAvailTaskId(c) /\ ForkInto(c, pr)
    BY <1>3 DEF Fork
  <2>2. current \in UserPids /\ state[current] = "RUNNING"
    BY <1>3, UserTaskRuns DEF Fork, InUser
  <2>3. state[c] = "NULL" /\ c # current
    BY <2>1, <2>2, AvailIsFree
  <2>4. cpid' = [cpid EXCEPT ![c] = <<>>, ![current] = Append(cpid[current], c)]
    BY <1>1, <2>1, <2>2, <2>3 DEF ForkInto, CpidOnFork
  <2>5. c \in Pids /\ current \in Pids
    BY <2>2, PidFacts
  <2>6. CASE p = current
    <3>1. cpid[current] \in Seq(UserPids)
      BY <1>1, <2>5
    <3>2. ToSet(Append(cpid[current], c)) = ToSet(cpid[current]) \cup {c}
      BY <3>1, ToSetAppend
    <3>3. cpid'[current] = Append(cpid[current], c)
      BY <1>1, <2>3, <2>4, <2>5
    <3> QED BY <2>3, <2>6, <3>2, <3>3 DEF NotOwnChild
  <2>7. CASE p = c
    <3>1. cpid'[c] = <<>>
      BY <1>1, <2>3, <2>4, <2>5
    <3> QED BY <2>7, <3>1, ToSetEmpty
  <2>8. CASE p # c /\ p # current
    <3>1. cpid'[p] = cpid[p]
      BY <1>1, <2>4, <2>5, <2>8
    <3> QED BY <3>1 DEF NotOwnChild
  <2> QED BY <2>6, <2>7, <2>8
<1>4. CASE Exit
  <2>1. current \in UserPids /\ cpid' = CpidOnExit
    BY <1>4, UserTaskRuns DEF Exit, InUser, ExitTo
  <2>2. current \in Pids
    BY <2>1, PidFacts
  <2>3. cpid' = [cpid EXCEPT ![1] = cpid[1] \o cpid[current], ![current] = <<>>]
    BY <1>1, <2>1 DEF CpidOnExit
  <2>4. CASE p = current
    <3>1. cpid'[current] = <<>>
      BY <1>1, <2>2, <2>3
    <3> QED BY <2>4, <3>1, ToSetEmpty
  <2>5. CASE p = 1 /\ current # 1
    <3>1. cpid'[1] = cpid[1] \o cpid[current]
      BY <1>1, <2>2, <2>3, <2>5
    <3>2. ToSet(cpid[1] \o cpid[current]) = ToSet(cpid[1]) \cup ToSet(cpid[current])
      <4>1. cpid[1] \in Seq(UserPids) /\ cpid[current] \in Seq(UserPids)
        BY <1>1, <2>2
      <4> QED BY <4>1, ToSetConcat
    <3>3. 1 \notin ToSet(cpid[1]) /\ 1 \notin ToSet(cpid[current])
      BY <2>1, PidFacts, TreeFacts
    <3> QED BY <2>5, <3>1, <3>2, <3>3
  <2>6. CASE p # 1 /\ p # current
    <3>1. cpid'[p] = cpid[p]
      BY <1>1, <2>2, <2>3, <2>6
    <3> QED BY <3>1 DEF NotOwnChild
  <2> QED BY <2>4, <2>5, <2>6
<1>5. CASE SigchldReap
  <2>1. cpid' = cpid
    BY <1>5 DEF SigchldReap, Reap
  <2> QED BY <2>1, <1>2
<1>6. CASE Wait
  BY <1>2, <1>6 DEF Wait
<1>7. CASE Boot \/ Timer \/ OtherTrap \/ SignalNone \/ SigchldNothing \/ UNCHANGED vars
  BY <1>2, <1>7 DEF Boot, Timer, OtherTrap, SignalNone, SigchldNothing, tree, vars
<1>8. CASE \/ ForkPastTable \/ ForkPastCpid \/ ExitAdoptsSelf \/ ExitNullChild
           \/ ExitPastCpid \/ ExitNullSignal
  BY <1>2, <1>8 DEF ForkPastTable, ForkPastCpid, ExitAdoptsSelf, ExitNullChild,
                    ExitPastCpid, ExitNullSignal, Stop, tree
<1> QED BY <1>3, <1>4, <1>5, <1>6, <1>7, <1>8 DEF Next

LEMMA NobodyIsItsOwnChild == Spec => []NotOwnChild
<1>1. Init => NotOwnChild
  <2> SUFFICES ASSUME Init, NEW p \in UserPids PROVE p \notin ToSet(cpid[p])
    BY DEF NotOwnChild
  <2>1. cpid[p] = <<>>
    BY PidFacts, ProcAssumption DEF Init
  <2> QED BY <2>1, ToSetEmpty
<1>2. IInv /\ NotOwnChild /\ [Next]_vars => NotOwnChild'
  BY NotOwnChildStep, ProcAssumption
<1> QED BY <1>1, <1>2, InvariantHolds, PTL DEF Spec

\* A running task becomes a zombie in no step but its own exit.
LEMMA OnlyExitKills ==
    ASSUME ProcAssumption, IInv, [Next]_vars, NEW c \in UserPids,
           state[c] = "RUNNING", state'[c] = "ZOMBIE"
    PROVE  Exit /\ c = current
<1>0. TypeOK /\ c \in Pids /\ state \in [Pids -> States]
  BY PidFacts DEF IInv, TypeOK
<1>1. ASSUME state' = state PROVE FALSE
  BY <1>1
<1>2. ~Fork
  <2> SUFFICES ASSUME Fork PROVE FALSE
    OBVIOUS
  <2>1. PICK n \in UserPids : state' = [state EXCEPT ![n] = "RUNNING"]
    BY DEF Fork, ForkInto
  <2> QED BY <1>0, <2>1
<1>3. ~SigchldReap
  <2> SUFFICES ASSUME SigchldReap PROVE FALSE
    OBVIOUS
  <2>1. PICK i \in 1 .. Len(cpid[current]) : Reap(cpid[current][i])
    BY DEF SigchldReap
  <2>2. state' = [state EXCEPT ![cpid[current][i]] = "NULL"]
    BY <2>1 DEF Reap
  <2> QED BY <1>0, <2>2
<1>4. ~Wait
  BY <1>0 DEF Wait
<1>5. ~(Boot \/ Timer \/ OtherTrap \/ SignalNone \/ SigchldNothing \/ UNCHANGED vars)
  BY <1>1 DEF Boot, Timer, OtherTrap, SignalNone, SigchldNothing, tree, vars
<1>6. ~(\/ ForkPastTable \/ ForkPastCpid \/ ExitAdoptsSelf \/ ExitNullChild
        \/ ExitPastCpid \/ ExitNullSignal)
  BY <1>1 DEF ForkPastTable, ForkPastCpid, ExitAdoptsSelf, ExitNullChild,
              ExitPastCpid, ExitNullSignal, Stop, tree
<1>7. Exit
  BY <1>2, <1>3, <1>4, <1>5, <1>6 DEF Next
<1>8. /\ \/ state' = [state EXCEPT ![current] = "ZOMBIE"]
         \/ state' = [[state EXCEPT ![current] = "ZOMBIE"]
                         EXCEPT ![Adopted[current]] = "RUNNING"]
  BY <1>7 DEF Exit, ExitTo
<1> QED BY <1>0, <1>7, <1>8

\* A task that sleeps on a live child of its own is runnable once that child
\* has exited: do_exit looks the father up after the adoption loop has run.
THEOREM ExitWakes == Spec => ExitWakesWaiter
<1>1. ASSUME IInv, NotOwnChild, [Next]_vars, NEW p \in UserPids, NEW c \in UserPids,
             valid[p], c \in mask[p], fpid[c] = p,
             state[c] = "RUNNING", state'[c] = "ZOMBIE"
      PROVE  state'[p] = "RUNNING"
  <2>1. Exit /\ c = current
    BY <1>1, OnlyExitKills, ProcAssumption
  <2>2. current \notin Children
    BY <1>1, <2>1 DEF NotOwnChild, Children
  <2>3. Adopted[current] = p
    BY <1>1, <2>1, <2>2, PidFacts, ProcAssumption DEF Adopted
  <2>4. Wakes(p) /\ ExitTo(p)
    BY <1>1, <2>1, <2>3 DEF Wakes, Exit
  <2>5. state' = [[state EXCEPT ![current] = "ZOMBIE"] EXCEPT ![p] = "RUNNING"]
    BY <2>4 DEF ExitTo
  <2>6. state \in [Pids -> States] /\ p \in Pids
    BY <1>1, PidFacts, ProcAssumption DEF IInv, TypeOK
  <2> QED BY <2>5, <2>6
<1>2. IInv /\ NotOwnChild /\ [Next]_vars =>
        [\A p, c \in UserPids :
           /\ valid[p] /\ c \in mask[p] /\ fpid[c] = p
           /\ state[c] = "RUNNING" /\ state'[c] = "ZOMBIE"
           => state'[p] = "RUNNING"]_vars
  BY <1>1
<1> QED BY <1>2, InvariantHolds, NobodyIsItsOwnChild, PTL DEF Spec, ExitWakesWaiter

-----------------------------------------------------------------------------
(* Proc implements ProcTree.                                               *)

LEMMA InitTree == ASSUME ProcAssumption, Init PROVE Tree!Init
<1>1. Live = {1} /\ Dead = {}
  BY PidFacts DEF Init, Live, Dead
<1> QED BY <1>1 DEF Tree!Init

LEMMA StepTree ==
    ASSUME ProcAssumption, IInv, [Next]_vars PROVE [Tree!Next]_(Tree!tvars)
<1> DEFINE father == [p \in (Live \cup Dead) \ {1} |-> fpid[p]]
<1>1. ASSUME NEW c \in UserPids, GrowsBy(c) PROVE Tree!Next
  <2>1. /\ current \in Live /\ c # 1 /\ c \notin Live \cup Dead
        /\ Live' = Live \cup {c} /\ Dead' = Dead
        /\ fpid' = [fpid EXCEPT ![c] = current]
    BY <1>1 DEF GrowsBy, All
  <2>2. father' = [q \in DOMAIN father \cup {c} |-> IF q = c THEN current ELSE father[q]]
    <3>1. fpid \in [Pids -> Pids] /\ Live \cup Dead \subseteq Pids /\ c \in Pids
      BY TreeFacts DEF All
    <3>2. father' = [p \in ((Live \cup Dead) \ {1}) \cup {c} |-> fpid'[p]]
      BY <2>1
    <3>3. \A p \in ((Live \cup Dead) \ {1}) \cup {c} :
             fpid'[p] = IF p = c THEN current ELSE father[p]
      BY <2>1, <3>1
    <3> QED BY <3>2, <3>3
  <2>3. Tree!Spawn(current, c)
    BY <2>1, <2>2 DEF Tree!Spawn
  <2>4. current \in UserPids
    BY <2>1 DEF Live
  <2> QED BY <2>3, <2>4 DEF Tree!Next
<1>2. ASSUME LosesCurrent PROVE Tree!Next
  <2>1. /\ current \in Live \ {1}
        /\ Live' = Live \ {current} /\ Dead' = Dead \cup {current}
        /\ fpid' = [p \in Pids |-> IF p \in Children THEN 1 ELSE fpid[p]]
    BY <1>2 DEF LosesCurrent
  <2>2. Live \cup Dead \subseteq Pids /\ (Live \cup Dead)' = Live \cup Dead
    BY <2>1, TreeFacts DEF All
  <2> PICK handed \in SUBSET UserPids : handed = Children \cap UserPids
    OBVIOUS
  <2>3. father' = [q \in DOMAIN father |-> IF q \in handed THEN 1 ELSE father[q]]
    <3>1. father' = [p \in (Live \cup Dead) \ {1} |-> fpid'[p]]
      BY <2>2
    <3>2. \A p \in (Live \cup Dead) \ {1} :
             fpid'[p] = IF p \in handed THEN 1 ELSE father[p]
      BY <2>1, <2>2, TreeFacts DEF All
    <3> QED BY <3>1, <3>2
  <2>4. \A q \in DOMAIN father : father[q] = current => q \in handed
    BY TreeFacts DEF Children, All
  <2>5. Tree!Die(current, handed)
    BY <2>1, <2>3, <2>4 DEF Tree!Die
  <2>6. current \in UserPids
    BY <2>1 DEF Live
  <2> QED BY <2>5, <2>6 DEF Tree!Next
<1>3. ASSUME NEW z \in UserPids, Frees(z) PROVE Tree!Next
  <2>1. /\ z \in Dead /\ Live' = Live /\ Dead' = Dead \ {z}
        /\ fpid' = [fpid EXCEPT ![z] = 0]
    BY <1>3 DEF Frees
  <2>2. father' = [q \in DOMAIN father \ {z} |-> father[q]]
    <3>1. (Live \cup Dead)' = (Live \cup Dead) \ {z}
      BY <2>1, TreeFacts
    <3>2. \A p \in ((Live \cup Dead) \ {1}) \ {z} : fpid'[p] = fpid[p]
      BY <2>1, TreeFacts DEF All
    <3> QED BY <3>1, <3>2
  <2>3. Tree!Reap(z)
    BY <2>1, <2>2 DEF Tree!Reap, Restrict, Tree!Restrict
  <2> QED BY <2>3 DEF Tree!Next
<1>4. ASSUME SameTree PROVE UNCHANGED Tree!tvars
  BY <1>4 DEF SameTree, Tree!tvars
<1> QED BY <1>1, <1>2, <1>3, <1>4, TreeStep

\* The task table, the children lists and the wait queue implement the tree of
\* processes: no fork, exit or reaping gives a process a dead father, forgets a
\* dead one or frees a live one.
THEOREM ProcImplementsTree == Spec => TreeSpec
<1>1. Init => Tree!Init
  BY InitTree, ProcAssumption
<1>2. IInv /\ [Next]_vars => [Tree!Next]_(Tree!tvars)
  BY StepTree, ProcAssumption
<1> QED BY <1>1, <1>2, InvariantHolds, PTL DEF Spec, TreeSpec, Tree!Spec

=============================================================================
