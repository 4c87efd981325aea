-------------------------------- MODULE Proc --------------------------------
(***************************************************************************)
(* The process core of the kernel: the task table, the priority scheduler, *)
(* fork, exit with adoption, waitpid with its wait queue, and SIGCHLD with *)
(* the reaping it does on the way back to user mode                        *)
(* (arch/riscv/kernel/proc.c, signal.c, the timer and ecall paths of       *)
(* trap.c, the return path of entry.S).                                    *)
(*                                                                         *)
(* The machine has one hart and the kernel runs with interrupts off, so a  *)
(* handler is atomic up to the point where it calls schedule().  A task is *)
(* suspended only inside __switch_to; pc says what is left for it to do    *)
(* when it is resumed: run signal_handler on the frame of the trap it came *)
(* by, or go straight back to user mode.                                   *)
(***************************************************************************)
EXTENDS Integers, Sequences, SequencesExt

CONSTANTS
    NR_TASKS,       \* length of task[] and wait_queue[]: idle and the user tasks
    PRIORITY_MIN,
    PRIORITY_MAX,   \* bounds of randint in task_init and do_fork
    CPID_MAX        \* entries of the page that holds cpid[]

ASSUME ProcAssumption ==
    /\ NR_TASKS \in Nat /\ NR_TASKS >= 2
    /\ PRIORITY_MIN \in Nat /\ PRIORITY_MAX \in Nat
    /\ 1 <= PRIORITY_MIN /\ PRIORITY_MIN <= PRIORITY_MAX
    /\ CPID_MAX \in Nat /\ CPID_MAX >= 1

Pids     == 0 .. NR_TASKS - 1
UserPids == 1 .. NR_TASKS - 1
Priorities == PRIORITY_MIN .. PRIORITY_MAX

NoPage == 0     \* a NULL signal pointer; a page is named by the pid it was allocated for

States == {"NULL", "RUNNING", "INTERRUPTIBLE", "ZOMBIE"}

\* The trap whose frame a suspended or trapped task still has to return from.
\* On "wait" and "sys" a0 holds the result of a system call, on "intr" (timer
\* interrupt, page fault) it holds the interrupted program's own value.
Returns == {"intr", "sys", "wait"}

\* "no": the machine runs.  "idle": the CPU was given to task 0, which has no
\* page table and interrupts off.  The others are the memory errors the process
\* code can commit; what the machine does afterwards is undefined, so it stops.
Halts == {"no", "idle", "task_table", "cpid_page", "null_child", "adopt_self",
          "null_signal"}

VARIABLES
    halt,       \* whether and why the machine has stopped
    current,    \* pid of the running task
    num_tasks,  \* slots of task[] handed out so far
    state,      \* task[p]->state, "NULL" when task[p] is NULL
    fpid,       \* task[p]->fpid
    cpid,       \* task[p]->cpid[0 .. child_cnt - 1]
    priority,   \* task[p]->priority
    counter,    \* task[p]->counter
    signal,     \* task[p]->signal
    pending,    \* SIGCHLD bit of the signal_struct in a page
    valid,      \* wait_queue[p].valid
    mask,       \* wait_queue[p].mask, as a set of pids (NR_TASKS is 9: none is
                \* shifted out of an int)
    pc          \* "user", or the trap p is returning from

vars == <<halt, current, num_tasks, state, fpid, cpid, priority, counter,
          signal, pending, valid, mask, pc>>

tree  == <<num_tasks, state, fpid, cpid, priority>>
waitq == <<valid, mask>>
sigs  == <<signal, pending>>

TypeOK ==
    /\ halt \in Halts
    /\ current \in Pids
    /\ num_tasks \in 2 .. NR_TASKS
    /\ state \in [Pids -> States]
    /\ fpid \in [Pids -> Pids]
    /\ cpid \in [Pids -> Seq(UserPids)]
    /\ \A p \in Pids : Len(cpid[p]) <= CPID_MAX
    /\ priority \in [Pids -> 0 .. PRIORITY_MAX]
    /\ counter \in [Pids -> 0 .. PRIORITY_MAX]
    /\ signal \in [Pids -> Pids]
    /\ pending \in [Pids -> BOOLEAN]
    /\ valid \in [Pids -> BOOLEAN]
    /\ mask \in [Pids -> SUBSET Pids]
    /\ pc \in [Pids -> Returns \cup {"user"}]

-----------------------------------------------------------------------------
(* task_init: idle and task 1, which runs the embedded user program.  A list *)
(* of children ends at the first 0 of its page; task_init clears the page of *)
(* idle (proc.c:126) and not that of task 1, which is fresh memory at boot   *)
(* and taken to hold zeroes.                                                 *)

Init ==
    /\ halt = "no"
    /\ current = 0
    /\ num_tasks = 2
    /\ state = [p \in Pids |-> IF p <= 1 THEN "RUNNING" ELSE "NULL"]
    /\ fpid = [p \in Pids |-> 0]
    /\ cpid = [p \in Pids |-> IF p = 0 THEN <<1>> ELSE <<>>]
    /\ \E pr \in Priorities :
         priority = [p \in Pids |-> IF p = 1 THEN pr ELSE 0]
    /\ counter = [p \in Pids |-> 0]
    /\ signal = [p \in Pids |-> IF p = 1 THEN 1 ELSE NoPage]
    /\ pending = [p \in Pids |-> FALSE]
    /\ valid = [p \in Pids |-> FALSE]
    /\ mask = [p \in Pids |-> {}]
    /\ pc = [p \in Pids |-> "user"]

-----------------------------------------------------------------------------
(* schedule().                                                             *)

\* Fault: a task with one tick left is passed over.
RunnableOffByOne(st, cnt) ==
    {p \in 1 .. num_tasks - 1 : st[p] = "RUNNING" /\ cnt[p] > cnt[0] + 1}

\* Fault: the state of a task is not looked at.
RunnableAnyState(st, cnt) ==
    {p \in 1 .. num_tasks - 1 : st[p] # "NULL" /\ cnt[p] > cnt[0]}

Runnable(st, cnt) ==
    {p \in 1 .. num_tasks - 1 : st[p] = "RUNNING" /\ cnt[p] > cnt[0]}

\* get_max_cnt_pid: the first pid with the largest counter, 0 if there is none.
IsMaxCntPid(p, st, cnt) ==
    \/ p = 0 /\ Runnable(st, cnt) = {}
    \/ /\ p \in Runnable(st, cnt)
       /\ \A q \in Runnable(st, cnt) :
            cnt[q] < cnt[p] \/ (cnt[q] = cnt[p] /\ p <= q)

Refill(st, pr, cnt) ==
    [p \in Pids |-> IF p \in 1 .. num_tasks - 1 /\ st[p] # "NULL"
                    THEN pr[p] ELSE cnt[p]]

\* switch_to: the CPU is given to p, whether or not it is the current task.
SwitchTo(p) ==
    /\ current' = p
    /\ halt' = IF p = 0 THEN "idle" ELSE halt

\* st, pr and cnt: states, priorities and counters when schedule() is called.
Schedule(st, pr, cnt) ==
    \E p \in Pids :
       /\ \/ /\ p # 0
             /\ IsMaxCntPid(p, st, cnt)
             /\ counter' = cnt
          \/ /\ IsMaxCntPid(0, st, cnt)
             /\ IsMaxCntPid(p, st, Refill(st, pr, cnt))
             /\ counter' = Refill(st, pr, cnt)
       /\ SwitchTo(p)

-----------------------------------------------------------------------------
(* Traps.  A trap is taken in user mode only.                              *)

InUser   == halt = "no" /\ current # 0 /\ pc[current] = "user"
InReturn == halt = "no" /\ current # 0 /\ pc[current] # "user"

Trap(r) == pc' = [pc EXCEPT ![current] = r]

\* start_kernel: task 0 calls schedule() once and is never chosen again.
Boot ==
    /\ halt = "no" /\ current = 0
    /\ Schedule(state, priority, counter)
    /\ UNCHANGED <<tree, sigs, waitq, pc>>

\* The timer interrupt: do_timer.
\* Fault: the last tick is never taken off.
TickStops == IF counter[current] <= 1 THEN counter
             ELSE [counter EXCEPT ![current] = @ - 1]

Tick == IF counter[current] = 0 THEN counter
        ELSE [counter EXCEPT ![current] = @ - 1]

Timer ==
    /\ InUser
    /\ \/ /\ Tick[current] # 0
          /\ counter' = Tick
          /\ UNCHANGED <<current, halt>>
       \/ /\ Tick[current] = 0
          /\ Schedule(state, priority, Tick)
    /\ Trap("intr")
    /\ UNCHANGED <<tree, sigs, waitq>>

\* Page faults, and the system calls that leave the process state alone
\* (getpid, files, mmap, a rejected waitpid, a failed execve).
OtherTrap ==
    /\ InUser
    /\ \E r \in {"intr", "sys"} : Trap(r)
    /\ UNCHANGED <<halt, current, tree, counter, sigs, waitq>>

-----------------------------------------------------------------------------
(* fork.                                                                   *)

\* get_avail_task_id: the first free slot below num_tasks, else a new one.
\* Fault: the slot of a task that has exited but is not reaped counts as free.
FreeSlotsDead == {p \in 1 .. num_tasks - 1 : state[p] \in {"NULL", "ZOMBIE"}}

FreeSlots == {p \in 1 .. num_tasks - 1 : state[p] = "NULL"}

IsAvailTaskId(c) ==
    \/ c \in FreeSlots /\ \A q \in FreeSlots : c <= q
    \/ FreeSlots = {} /\ c = num_tasks

\* signal_init(c) after the memcpy of the whole parent: the pointer that was
\* copied is not NULL, so no page is allocated and the parent's is used.
SignalPage(c) == IF signal[current] = NoPage THEN c ELSE signal[current]

CpidOnFork(c) == [cpid EXCEPT ![c] = <<>>, ![current] = Append(@, c)]

ForkInto(c, pr) ==
    /\ num_tasks' = IF c = num_tasks THEN num_tasks + 1 ELSE num_tasks
    /\ state' = [state EXCEPT ![c] = "RUNNING"]
    /\ fpid' = [fpid EXCEPT ![c] = current]
    /\ cpid' = CpidOnFork(c)
    /\ priority' = [priority EXCEPT ![c] = pr]
    /\ counter' = [counter EXCEPT ![c] = 0]
    /\ signal' = [signal EXCEPT ![c] = SignalPage(c)]
    /\ pending' = [pending EXCEPT ![SignalPage(c)] = FALSE]
    /\ valid' = [valid EXCEPT ![c] = FALSE]
    /\ mask' = [mask EXCEPT ![c] = {}]
    /\ pc' = [pc EXCEPT ![c] = "sys", ![current] = "sys"]
    /\ UNCHANGED <<halt, current>>

Stop(why) ==
    /\ halt' = why
    /\ UNCHANGED <<current, tree, counter, sigs, waitq, pc>>

\* The slot past the end of task[]: get_avail_task_id has no bound.
ForkPastTable == InUser /\ IsAvailTaskId(NR_TASKS) /\ Stop("task_table")

\* The entry past the end of the page of cpid: do_fork has no bound either.
ForkPastCpid ==
    /\ InUser
    /\ ~IsAvailTaskId(NR_TASKS)
    /\ Len(cpid[current]) = CPID_MAX
    /\ Stop("cpid_page")

Fork ==
    /\ InUser
    /\ Len(cpid[current]) < CPID_MAX
    /\ \E c \in UserPids, pr \in Priorities : IsAvailTaskId(c) /\ ForkInto(c, pr)

-----------------------------------------------------------------------------
(* waitpid and the wait queue.                                             *)

\* sys_waitpid admits every pid below num_tasks, do_wait sleeps on it
\* whatever its state and whoever's child it is.
Wait ==
    /\ InUser
    /\ \E w \in 0 .. num_tasks - 1 :
         mask' = [mask EXCEPT ![current] = @ \cup {w}]
    /\ valid' = [valid EXCEPT ![current] = TRUE]
    /\ state' = [state EXCEPT ![current] = "INTERRUPTIBLE"]
    /\ Trap("wait")
    /\ Schedule(state', priority, counter)
    /\ UNCHANGED <<num_tasks, fpid, cpid, priority, sigs>>

-----------------------------------------------------------------------------
(* exit.                                                                   *)

Children == ToSet(cpid[current])

\* The father's pid after the adoption loop.
\* Fault: the loop stops one entry short.
AdoptedAllButLast ==
    [p \in Pids |-> IF p \in ToSet(Front(cpid[current])) THEN 1 ELSE fpid[p]]

Adopted == [p \in Pids |-> IF p \in Children THEN 1 ELSE fpid[p]]

\* Task 1 appends to the array it is scanning and never reaches its end.
ExitAdoptsSelf ==
    InUser /\ current = 1 /\ cpid[1] # <<>> /\ Stop("adopt_self")

\* An entry of cpid[] whose task has been reaped is a NULL task.
ExitNullChild ==
    /\ InUser /\ current # 1
    /\ \E c \in Children : state[c] = "NULL"
    /\ Stop("null_child")

CanAdopt ==
    /\ current = 1 => cpid[1] = <<>>
    /\ \A c \in Children : state[c] # "NULL"

ExitPastCpid ==
    /\ InUser /\ CanAdopt
    /\ Len(cpid[1]) + Len(cpid[current]) > CPID_MAX
    /\ Stop("cpid_page")

\* do_kill(fpid, SIGCHLD) on a task without a signal_struct (idle has none).
ExitNullSignal ==
    /\ InUser /\ CanAdopt
    /\ Len(cpid[1]) + Len(cpid[current]) <= CPID_MAX
    /\ LET f == Adopted[current] IN
         state[f] # "NULL" /\ (f = current \/ signal[f] = NoPage)
    /\ Stop("null_signal")

\* do_kill(f, SIGCHLD).
KillChld(f) ==
    pending' = IF state[f] = "NULL" THEN pending
               ELSE [pending EXCEPT ![signal[f]] = TRUE]

\* do_exit wakes f when f sleeps in do_wait on the exiting task.
\* Fault: the entry of the exiting task is looked at instead of the father's.
WakesSelf(f) == valid[current] /\ current \in mask[current]

Wakes(f) == valid[f] /\ current \in mask[f]

\* wake_up_process and the reset of the exiting task's entry.
\* Fault: the woken task's entry stays valid.
ValidOnExitKept(f) == [valid EXCEPT ![current] = FALSE]

ValidOnExit(f) ==
    [p \in Pids |-> IF p = current \/ (p = f /\ Wakes(f)) THEN FALSE ELSE valid[p]]

\* Fault: init is not told of the children it adopts.
CpidOnExitForgotten == [cpid EXCEPT ![current] = <<>>]

CpidOnExit == [cpid EXCEPT ![1] = @ \o cpid[current], ![current] = <<>>]

ExitTo(f) ==
    LET dead == [state EXCEPT ![current] = "ZOMBIE"] IN
    /\ state' = IF Wakes(f) THEN [dead EXCEPT ![f] = "RUNNING"] ELSE dead
    /\ priority' = [priority EXCEPT ![current] = 0]
    /\ fpid' = Adopted
    /\ cpid' = CpidOnExit
    /\ signal' = [signal EXCEPT ![current] = NoPage]
    /\ KillChld(f)
    /\ valid' = ValidOnExit(f)
    /\ mask' = IF Wakes(f) THEN [mask EXCEPT ![f] = {}] ELSE mask
    /\ Schedule(state', priority', [counter EXCEPT ![current] = 0])
    /\ UNCHANGED <<num_tasks, pc>>

Exit ==
    /\ InUser /\ CanAdopt
    /\ Len(cpid[1]) + Len(cpid[current]) <= CPID_MAX
    /\ LET f == Adopted[current] IN
         /\ f # current
         /\ state[f] # "NULL" => signal[f] # NoPage
         /\ ExitTo(f)

-----------------------------------------------------------------------------
(* signal_handler, on the way back to user mode.  Only SIGCHLD is ever     *)
(* sent, so the other handlers are unreachable.                            *)

ChldPending == pending[signal[current]]

ClearChld == pending' = [pending EXCEPT ![signal[current]] = FALSE]

SignalNone ==
    /\ InReturn /\ ~ChldPending
    /\ Trap("user")
    /\ UNCHANGED <<halt, current, tree, counter, sigs, waitq>>

SigchldNothing ==
    /\ InReturn /\ ChldPending
    /\ \A c \in Children : state[c] # "ZOMBIE"
    /\ ClearChld
    /\ Trap("user")
    /\ UNCHANGED <<halt, current, tree, counter, signal, waitq>>

\* The first zombie child is freed, its pid and exit code are stored in a0 and
\* a1 of the frame, and the CPU is given away; the handler runs to its end
\* before the task is next in user mode.
\* Fault: the first child in the list is taken, dead or not.
FirstChild(i) ==
    LET c == cpid[current] IN
    state[c[i]] # "NULL" /\ \A j \in 1 .. i - 1 : state[c[j]] = "NULL"

FirstZombie(i) ==
    LET c == cpid[current] IN
    state[c[i]] = "ZOMBIE" /\ \A j \in 1 .. i - 1 : state[c[j]] # "ZOMBIE"

Reap(z) ==
    /\ state' = [state EXCEPT ![z] = "NULL"]
    /\ fpid' = [fpid EXCEPT ![z] = 0]
    /\ pc' = [pc EXCEPT ![z] = "user", ![current] = "user"]
    /\ Schedule(state', priority, counter)
    /\ UNCHANGED <<num_tasks, cpid, priority, signal, waitq>>

SigchldReap ==
    /\ InReturn /\ ChldPending
    /\ ClearChld
    /\ \E i \in 1 .. Len(cpid[current]) :
         FirstZombie(i) /\ Reap(cpid[current][i])

-----------------------------------------------------------------------------

Next ==
    \/ Boot \/ Timer \/ OtherTrap
    \/ Fork \/ ForkPastTable \/ ForkPastCpid
    \/ Wait
    \/ Exit \/ ExitAdoptsSelf \/ ExitNullChild \/ ExitPastCpid \/ ExitNullSignal
    \/ SignalNone \/ SigchldNothing \/ SigchldReap

Spec == Init /\ [][Next]_vars

\* The kernel's own steps are taken as long as the machine runs.  The timer is
\* armed again in every timer interrupt and an interrupt that is due is taken
\* before the next instruction in user mode: a program that keeps returning to
\* user mode is interrupted however many traps of its own it takes in between.
Kernel == Boot \/ SignalNone \/ SigchldNothing \/ SigchldReap

FairSpec == Spec /\ WF_vars(Kernel) /\ SF_vars(Timer)

-----------------------------------------------------------------------------
(* Safety.                                                                 *)

\* The father of every task but init is a live task, so that a dead task has
\* someone to reap it and do_exit has someone to signal: exit hands all of its
\* children to init before it dies, whatever cpid[] has become by then.
ParentAlive ==
    \A p \in UserPids \ {1} :
        state[p] # "NULL" =>
            /\ fpid[p] \in UserPids
            /\ state[fpid[p]] \in {"RUNNING", "INTERRUPTIBLE"}

\* The two halves of the tree agree: a task is in cpid[] of the task that its
\* fpid names (the converse is false, reaping leaves stale entries behind).
ChildListed ==
    \A p \in UserPids \ {1} : state[p] # "NULL" => p \in ToSet(cpid[fpid[p]])

\* No set of tasks without init is closed under fpid: every task descends from
\* init, through reuse of slots, adoption and stale entries.
Rooted ==
    \A S \in SUBSET (UserPids \ {1}) :
        S # {} /\ (\A p \in S : state[p] # "NULL") => \E p \in S : fpid[p] \notin S

\* Only a task that may run has the CPU: one that sleeps or has exited is never
\* chosen, though a refill gives a counter to those that sleep as well.
CpuOnRunningTask == halt # "idle" => state[current] = "RUNNING"

\* schedule() gives up the CPU for good only when no task can run: after one
\* refill every runnable task has a counter the search can see.
IdleOnlyWhenNothingRuns ==
    halt = "idle" => \A p \in UserPids : state[p] # "RUNNING"

\* do_exit finds the father's signal_struct, which the father itself clears on
\* its exit; only init, whose father is idle, does not.
KillFindsSignal == halt = "null_signal" => current = 1

\* The wait queue and the task states agree: whoever sleeps can be found by the
\* exit that is to wake it, and nobody else is.
WaitQueueAgrees ==
    \A p \in Pids :
        /\ valid[p] <=> state[p] = "INTERRUPTIBLE"
        /\ valid[p] <=> mask[p] # {}

-----------------------------------------------------------------------------
(* What a step may not do.                                                 *)

\* A task that has exited is reaped or stays as it is: it is not woken, chosen,
\* or overwritten by a fork.
DeadStayDead ==
    [][\A p \in Pids : state[p] = "ZOMBIE" => state'[p] \in {"ZOMBIE", "NULL"}]_vars

\* A task that sleeps on a live child of its own is runnable once that child has
\* exited, also when the child itself has had children adopted meanwhile.
ExitWakesWaiter ==
    [][\A p, c \in UserPids :
         /\ valid[p] /\ c \in mask[p] /\ fpid[c] = p
         /\ state[c] = "RUNNING" /\ state'[c] = "ZOMBIE"
         => state'[p] = "RUNNING"]_vars

-----------------------------------------------------------------------------
(* Liveness.                                                               *)

\* A task that may run gets the CPU, whatever the others fork, wait for or trap
\* on, unless the machine stops.
StarvationFree ==
    \A p \in UserPids : state[p] = "RUNNING" ~> current = p \/ halt # "no"

-----------------------------------------------------------------------------
(* The abstract process tree: the tasks that live, those that are dead and *)
(* not yet reaped, and their fathers.                                      *)

Live == {p \in UserPids : state[p] \in {"RUNNING", "INTERRUPTIBLE"}}
Dead == {p \in UserPids : state[p] = "ZOMBIE"}

Tree == INSTANCE ProcTree WITH
            Proc <- UserPids, Root <- 1, live <- Live, dead <- Dead,
            father <- [p \in (Live \cup Dead) \ {1} |-> fpid[p]]

\* The task table, the children lists and the wait queue implement the tree: no
\* fork, exit or reaping gives a process a dead father, forgets a dead process,
\* or reaps a live one.

TreeSpec == Tree!Spec

-----------------------------------------------------------------------------
(* What the repository says of the process code and the code does not do.  *)

\* The shell waits for the child it has forked, and the child has exited or is
\* gone: nobody is left to wake it.
NoSleepOnDeadChild ==
    \A p \in UserPids, c \in UserPids :
        valid[p] /\ c \in mask[p] => state[c] \notin {"ZOMBIE", "NULL"}

\* The registers restored after an interrupt are those that were saved: the
\* handler that stores the reaped pid and exit code in a0 and a1 of the frame
\* runs for waitpid only.
InterruptPreservesRegs == [][SigchldReap => pc[current] # "intr"]_vars
=============================================================================
