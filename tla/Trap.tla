-------------------------------- MODULE Trap --------------------------------
(***************************************************************************)
(* Traps and context switches (entry.S; trap_handler in trap.c;            *)
(* switch_to, do_fork, do_execve in proc.c; signal_handler in signal.c):   *)
(* which registers are where while programs are interrupted, call the      *)
(* kernel, fault inside a call, give the CPU away, fork and exit.          *)
(*                                                                         *)
(* The registers are sp, three groups (t: ra, gp, tp, t0-t6, a2-a7; s:     *)
(* s0-s11; a: a0, a1), sepc, sscratch and the bit SPP of sstatus.  An      *)
(* address is a space and an offset; the stack of a task is a space that   *)
(* is counted in cells down from the end of its page, a trap frame or the  *)
(* frame of a C function each.  A value is a token of the code it belongs  *)
(* to.  sepc is kept only where it is read again: _traps saves it at once  *)
(* and sret follows its restoring.  The next task is any that may run      *)
(* (Proc shows which).                                                     *)
(***************************************************************************)
EXTENDS Naturals, Sequences

CONSTANTS
    Tasks, First,   \* user tasks, and task 1
    Idle,
    Values,         \* what programs keep in their registers
    Start,          \* the value of the entry points of programs
    Behind,         \* the address behind an ecall
    User,           \* the space of user addresses
    Junk,           \* what nobody reads
    Nested,         \* the values of a handler that interrupts the kernel
    Result, Zero,   \* what a system call returns, and 0
    DEPTH           \* cells in a stack

\* Places in the kernel's code.
Labels == {"timer", "ecall", "fault", "signal", "leave", "schedule", "return",
           "__dummy", "syscall", "call", "finish", "lost"}

\* A page of stack holds what a call needs that faults in its second function.
ASSUME TrapAssumption ==
    /\ First \in Tasks /\ Start \in Values
    /\ Idle \notin Tasks /\ User \notin Tasks \cup {Idle}
    /\ Labels \cap (Values \cup {Behind}) = {}
    /\ DEPTH \in Nat /\ DEPTH >= 6

VARIABLES
    hart,       \* the registers; pc is a label, or an address of a program
    current,
    stack,      \* the cells of a stack, the one at the end of the page first
    thread,     \* task[p]->thread
    state,
    pending,    \* SIGCHLD in the signal_struct that all tasks share
    program,    \* history: the registers that each program should have
    frames      \* history: the cells that each task has still to return
                \* through, with their addresses

vars == <<hart, current, stack, thread, state, pending, program, frames>>

UserPc == Values \cup {Behind}
Null == <<User, Zero>>

\* The values of the kernel's code that runs for p.
KernelOf(p) == p

Registers(h) == [pc |-> h.pc, sp |-> h.sp, t |-> h.t, s |-> h.s, a |-> h.a]
Blank == [pc |-> Junk, sp |-> Null, t |-> Junk, s |-> Junk, a |-> Junk]

\* The frame of a C function: where it returns to, and the argument it keeps.
Call(label, arg) == [Blank EXCEPT !.pc = label, !.sp = arg]

-----------------------------------------------------------------------------
(* Stacks.  What has been popped is nobody's and is blanked.  Places in the *)
(* memory of a program are not told apart, and what is there is not kept.  *)

Down(addr) == IF addr[1] = User THEN addr ELSE <<addr[1], addr[2] + 1>>
Up(addr) == IF addr[1] = User THEN addr ELSE <<addr[1], addr[2] - 1>>

IsCell(addr) == addr[1] \in Tasks /\ addr[2] \in 1 .. DEPTH

At(addr) == IF IsCell(addr) THEN stack[addr[1]][addr[2]] ELSE Blank

\* stk with cell at addr.
Stored(stk, addr, cell) ==
    IF IsCell(addr) THEN [stk EXCEPT ![addr[1]][addr[2]] = cell] ELSE stk

Top == At(hart.sp)

Pushed(fs, addr, cell) == Append(fs, [at |-> addr, cell |-> cell])

EmptyStack == [d \in 1 .. DEPTH |-> Blank]

\* The C function whose frame is on top calls another, or a label of its own.
Calls(label, cell) ==
    /\ stack' = Stored(stack, Down(hart.sp), cell)
    /\ frames' = [frames EXCEPT ![current] = Pushed(@, Down(hart.sp), cell)]
    /\ hart' = [hart EXCEPT !.pc = label, !.sp = Down(@)]

Pops(p) == [frames EXCEPT ![p] = SubSeq(@, 1, Len(@) - 1)]

\* A C function returns.
Return ==
    /\ hart.pc \in {"return", "call"}
    /\ stack' = Stored(stack, hart.sp, Blank)
    /\ frames' = Pops(current)
    /\ hart' = [hart EXCEPT !.pc = Top.pc, !.sp = Up(@)]
    /\ UNCHANGED <<current, thread, state, pending, program>>

-----------------------------------------------------------------------------
(* _traps and the way back.                                                *)

InUser == hart.pc \in UserPc

\* csrrw, bne, csrr: the stack that sscratch names, or the one in use.
TrapStack(code) == IF hart.sscratch # Null THEN hart.sscratch ELSE code.sp

\* Fault: sscratch keeps the stack pointer of the interrupted code.
SscratchKept(code) == code.sp

\* What tells a trap in the kernel from one in a program.
SscratchInKernel(code) == Null

\* Code with these registers is interrupted.  trap_handler is called with the
\* frame, and calls the handler of the cause.
Enter(code, cause) ==
    LET frame == Down(TrapStack(code))
        call == Call("signal", frame)
        values == IF InUser THEN KernelOf(current) ELSE Nested
    IN  /\ stack' = Stored(Stored(stack, frame, code), Down(frame), call)
        /\ frames' = [frames EXCEPT ![current] =
                        Pushed(Pushed(@, frame, code), Down(frame), call)]
        /\ hart' = [hart EXCEPT !.spp = hart.mode, !.mode = "S", !.pc = cause,
                                !.sp = Down(frame), !.sscratch = SscratchInKernel(code),
                                !.t = values, !.s = values, !.a = values]
    /\ UNCHANGED <<current, thread, state, pending>>

\* The program has run on to v.
UserTrap(v, cause) ==
    /\ InUser
    /\ LET code == [pc |-> v, sp |-> <<User, v>>, t |-> v, s |-> v, a |-> v] IN
         /\ Enter(code, cause)
         /\ program' = [program EXCEPT ![current] = code]

\* A system call touches a page that is not there, or that it has to copy.
\* Interrupts are off.
NestedFault ==
    /\ hart.pc = "call"
    /\ Enter(Registers(hart), "fault")
    /\ UNCHANGED program

\* sret.
Sret(h, pc) == [h EXCEPT !.mode = h.spp, !.spp = "U", !.pc = pc]

\* From the frame that sp points at to the code that was interrupted.  When this
\* is the kernel, sscratch keeps its stack pointer, and a second fault of the
\* call puts its frame there.
Leave ==
    /\ hart.pc = "leave"
    /\ stack' = Stored(stack, hart.sp, Blank)
    /\ frames' = Pops(current)
    /\ hart' = Sret([hart EXCEPT !.t = Top.t, !.s = Top.s, !.a = Top.a,
                                 !.sp = Top.sp, !.sscratch = Up(hart.sp)],
                    Top.pc)
    /\ UNCHANGED <<current, thread, state, pending, program>>

-----------------------------------------------------------------------------
(* The scheduler.                                                          *)

Runnable == {p \in Tasks : state[p] = "running"}

\* What __switch_to saves of the task that gives the CPU away.
Context == [ra |-> "return", sp |-> hart.sp, s |-> hart.s, sepc |-> hart.sepc,
            spp |-> hart.spp, sscratch |-> hart.sscratch]

\* The registers after a context is loaded; the other ones are those of whoever
\* ran before.
Loaded(c) ==
    [hart EXCEPT !.pc = c.ra, !.sp = c.sp, !.s = c.s, !.sepc = c.sepc, !.spp = c.spp,
                 !.sscratch = c.sscratch]

\* The context with which task_init and do_execve start a program; it keeps
\* the s registers that are given.
Fresh(p, s) ==
    [ra |-> "__dummy", sp |-> <<p, 0>>, s |-> s, sepc |-> Start, spp |-> "U",
     sscratch |-> <<User, Start>>]

\* What is left of a context that has been loaded; the fields that fork does not
\* copy are read no more.
Used(c) == [c EXCEPT !.ra = Junk, !.sp = Null, !.s = Junk, !.sepc = Junk]

\* Fault: s0 to s11 are left as they are.
SwitchedButS(q) == [Loaded(thread[q]) EXCEPT !.s = hart.s, !.t = Junk, !.a = Junk]

Switched(q) == [Loaded(thread[q]) EXCEPT !.t = Junk, !.a = Junk]

ScheduleSame ==
    /\ hart.pc = "schedule" /\ current \in Runnable
    /\ hart' = [hart EXCEPT !.pc = "return"]
    /\ UNCHANGED <<current, stack, thread, state, pending, program, frames>>

Schedule(q) ==
    /\ hart.pc = "schedule"
    /\ q \in Runnable \ {current}
    /\ thread' = [thread EXCEPT ![current] = Context, ![q] = Used(@)]
    /\ hart' = Switched(q)
    /\ current' = q
    /\ UNCHANGED <<stack, state, pending, program, frames>>

\* To a program that has never run, or runs anew.
Dummy ==
    /\ hart.pc = "__dummy"
    /\ hart' = Sret([hart EXCEPT !.sp = hart.sscratch, !.sscratch = hart.sp, !.sepc = Junk],
                    hart.sepc)
    /\ UNCHANGED <<current, stack, thread, state, pending, program, frames>>

-----------------------------------------------------------------------------
(* signal_handler, on the way back from every trap.                        *)

\* What cpid[] of the caller names: any dead task may be there, its own child
\* or not, for cpid[] keeps stale entries (Proc has it exactly).
Zombies == {q \in Tasks : state[q] = "zombie"}

\* No SIGCHLD, or none of the dead tasks in cpid[].
SignalNone ==
    /\ hart.pc = "signal"
    /\ pending' = FALSE
    /\ hart' = [hart EXCEPT !.pc = "leave"]
    /\ UNCHANGED <<current, stack, thread, state, program, frames>>

\* The page of q is given back.
Free(q) ==
    /\ state' = [state EXCEPT ![q] = "null"]
    /\ thread' = [thread EXCEPT ![q] = Fresh(q, Junk)]

\* The child's pid and exit code are written into the frame.
Reaped(f) == [f EXCEPT !.a = Result]

\* sigchld_handler frees the child and calls schedule.
SignalReap(q) ==
    /\ hart.pc = "signal"
    /\ pending /\ q \in Zombies
    /\ Top.pc \in UserPc
    /\ pending' = FALSE
    /\ Free(q)
    /\ stack' = Stored(Stored(stack, hart.sp, Reaped(Top)), Down(hart.sp), Call("leave", Null))
    /\ LET fs == frames[current] IN
         frames' = [frames EXCEPT ![current] =
                      Pushed([fs EXCEPT ![Len(fs)].cell = Reaped(@)],
                             Down(hart.sp), Call("leave", Null))]
    /\ program' = [program EXCEPT ![current] = Reaped(@)]
    /\ hart' = [hart EXCEPT !.pc = "schedule", !.sp = Down(@)]
    /\ UNCHANGED current

\* The frame is that of a system call that has faulted, and a0 and a1 of the
\* kernel's own code are overwritten: what it does then is not defined.
SignalReapNested(q) ==
    /\ hart.pc = "signal"
    /\ pending /\ q \in Zombies
    /\ Top.pc \notin UserPc
    /\ pending' = FALSE
    /\ Free(q)
    /\ hart' = [hart EXCEPT !.pc = "lost"]
    /\ UNCHANGED <<current, stack, program, frames>>

-----------------------------------------------------------------------------
(* The handlers.                                                           *)

\* A timer interrupt with time left, and a page fault.
Handled ==
    /\ hart.pc \in {"timer", "fault"}
    /\ hart' = [hart EXCEPT !.pc = "return"]
    /\ UNCHANGED <<current, stack, thread, state, pending, program, frames>>

\* The slice is used up.
TimerSchedules ==
    /\ hart.pc = "timer"
    /\ Calls("schedule", Call("return", Null))
    /\ UNCHANGED <<current, thread, state, pending, program>>

\* regs in the handlers, an argument of trap_handler.
regs == Top.sp

\* The frame at regs becomes f, and so should the program's registers.
WriteFrame(f) ==
    /\ stack' = Stored(stack, regs, f)
    /\ frames' = [frames EXCEPT ![current][1].cell = f]
    /\ program' = [program EXCEPT ![current] = f]

\* regs->sepc += 4.
Ecall ==
    /\ hart.pc = "ecall"
    /\ WriteFrame([At(regs) EXCEPT !.pc = Behind])
    /\ hart' = [hart EXCEPT !.pc = "syscall"]
    /\ UNCHANGED <<current, thread, state, pending>>

\* A call that reads or writes user memory, in a function of its own or in one
\* that this function calls first.
Touch ==
    /\ hart.pc = "syscall"
    /\ Calls("call", Call("finish", Null))
    /\ UNCHANGED <<current, thread, state, pending, program>>

TouchDeeper ==
    /\ hart.pc = "syscall"
    /\ LET outer == Call("finish", Null)
           inner == Call("call", Null)
           sp == Down(Down(hart.sp))
       IN  /\ stack' = Stored(Stored(stack, Down(hart.sp), outer), sp, inner)
           /\ frames' = [frames EXCEPT ![current] =
                           Pushed(Pushed(@, Down(hart.sp), outer), sp, inner)]
           /\ hart' = [hart EXCEPT !.pc = "call", !.sp = sp]
    /\ UNCHANGED <<current, thread, state, pending, program>>

\* regs->x[RISCV_REG_A0] = ret.
Finish ==
    /\ hart.pc = "finish"
    /\ WriteFrame([At(regs) EXCEPT !.a = Result])
    /\ hart' = [hart EXCEPT !.pc = "return"]
    /\ UNCHANGED <<current, thread, state, pending>>

\* do_wait.  Who wakes the task is Proc's subject.
Wait ==
    /\ hart.pc = "syscall"
    /\ Calls("schedule", Call("finish", Null))
    /\ UNCHANGED <<current, thread, state, pending, program>>

\* regs + delta: the same place in the child's page.
RegsOfChild(c) == <<c, regs[2]>>

\* memcpy copies the page, with the stack in it and the context that was saved
\* when the father last gave the CPU away.
Fork(c) ==
    /\ hart.pc = "syscall"
    /\ state[c] = "null"
    /\ LET child == [At(regs) EXCEPT !.a = Zero] IN
         /\ stack' = Stored([stack EXCEPT ![c] = stack[current]], RegsOfChild(c), child)
         /\ thread' = [thread EXCEPT ![c] =
                         [thread[current] EXCEPT !.ra = "signal", !.sp = RegsOfChild(c),
                                                 !.sepc = At(regs).pc]]
         /\ frames' = [frames EXCEPT ![c] = Pushed(<<>>, RegsOfChild(c), child)]
         /\ program' = [program EXCEPT ![c] = child]
    /\ state' = [state EXCEPT ![c] = "running"]
    /\ pending' = FALSE
    /\ hart' = [hart EXCEPT !.pc = "finish"]
    /\ UNCHANGED current

\* After the path and the file have been read: the stack is abandoned.
Execve ==
    /\ hart.pc = "finish"
    /\ thread' = [thread EXCEPT ![current] = Used(Fresh(current, Zero))]
    /\ hart' = Loaded(Fresh(current, Zero))
    /\ program' = [program EXCEPT ![current] =
                     [pc |-> Start, sp |-> <<User, Start>>, t |-> hart.t, s |-> Zero,
                      a |-> hart.a]]
    /\ frames' = [frames EXCEPT ![current] = <<>>]
    /\ stack' = [stack EXCEPT ![current] = EmptyStack]
    /\ UNCHANGED <<current, state, pending>>

\* Task 1 cannot exit (Proc).  The stack is used by the schedule that follows,
\* and never returned through.
Exit ==
    /\ hart.pc = "syscall"
    /\ current # First
    /\ state' = [state EXCEPT ![current] = "zombie"]
    /\ pending' = TRUE
    /\ hart' = [hart EXCEPT !.pc = "schedule"]
    /\ stack' = [stack EXCEPT ![current] = EmptyStack]
    /\ frames' = [frames EXCEPT ![current] = <<>>]
    /\ program' = [program EXCEPT ![current] = Blank]
    /\ UNCHANGED <<current, thread>>

-----------------------------------------------------------------------------

\* start_kernel calls schedule on the boot stack.
Init ==
    /\ hart = [mode |-> "S", spp |-> "U", pc |-> "schedule", sp |-> <<Idle, 0>>,
               sscratch |-> Null, sepc |-> Junk, t |-> Junk, s |-> Junk, a |-> Junk]
    /\ current = Idle
    /\ stack = [p \in Tasks |-> EmptyStack]
    /\ thread = [p \in Tasks \cup {Idle} |-> Fresh(p, Junk)]
    /\ state = [p \in Tasks |-> IF p = First THEN "running" ELSE "null"]
    /\ pending = FALSE
    /\ program = [p \in Tasks |->
                    IF p = First THEN [Blank EXCEPT !.pc = Start, !.sp = <<User, Start>>]
                    ELSE Blank]
    /\ frames = [p \in Tasks |-> <<>>]

Next ==
    \/ \E v \in Values, cause \in {"timer", "ecall", "fault"} : UserTrap(v, cause)
    \/ NestedFault \/ Return \/ Leave \/ Dummy
    \/ ScheduleSame \/ \E q \in Tasks : Schedule(q)
    \/ SignalNone \/ \E q \in Tasks : SignalReap(q) \/ SignalReapNested(q)
    \/ Handled \/ TimerSchedules \/ Ecall \/ Touch \/ TouchDeeper \/ Finish
    \/ Wait \/ \E c \in Tasks : Fork(c)
    \/ Execve \/ Exit

Spec == Init /\ [][Next]_vars

-----------------------------------------------------------------------------

\* Where the stack pointer of p should be.
Depth(p) == IF frames[p] = <<>> THEN <<p, 0>> ELSE frames[p][Len(frames[p])].at

\* Every stack holds the frames that its task has still to return through, and
\* nothing has been written over them: nested traps go below them, the child
\* of fork uses its own copy, and a program runs with its stack empty and
\* ready in sscratch.
StacksHold ==
    /\ \A p \in Runnable :
         /\ \A d \in 1 .. Len(frames[p]) :
              frames[p][d].at[1] = p /\ At(frames[p][d].at) = frames[p][d].cell
         /\ p # current => thread[p].sp = Depth(p)
    /\ InUser => hart.sscratch = <<current, 0>> /\ frames[current] = <<>>
    /\ current \in Runnable /\ ~InUser => hart.sp = Depth(current)

\* A program goes on in user mode with the registers that it was interrupted
\* with, but for the result of a call; the kernel goes on after a page fault
\* or a switch with those of its own code.
ResumesAsItWas ==
    /\ InUser => hart.mode = "U" /\ Registers(hart) = program[current]
    /\ hart.pc \in {"ecall", "syscall", "call", "finish"} =>
         hart.mode = "S" /\ hart.s = KernelOf(current)
    /\ hart.pc = "call" => hart.t = KernelOf(current) /\ hart.a = KernelOf(current)
=============================================================================
