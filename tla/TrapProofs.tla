----------------------------- MODULE TrapProofs -----------------------------
(***************************************************************************)
(* Proofs about Trap, for any tasks and any values in registers: every     *)
(* kernel stack holds what its task has still to return through, and who   *)
(* is interrupted goes on with his own registers.                          *)
(***************************************************************************)
EXTENDS Trap, SequenceTheorems, TLAPS

-----------------------------------------------------------------------------
(* Types.                                                                  *)

Tokens == UserPc \cup Tasks \cup {Junk, Nested, Result, Zero}
Addrs == ((Tasks \cup {Idle}) \X Nat) \cup ({User} \X (UserPc \cup {Zero}))

Cells == [pc : Labels \cup UserPc \cup {Junk}, sp : Addrs,
          t : Tokens, s : Tokens, a : Tokens]
Entries == [at : Addrs, cell : Cells]
Stacks == [Tasks -> [1 .. DEPTH -> Cells]]
Modes == {"U", "S"}

Harts == [mode : Modes, spp : Modes, pc : Labels \cup UserPc, sp : Addrs,
          sscratch : Addrs, sepc : UserPc \cup {Junk}, t : Tokens, s : Tokens, a : Tokens]

Contexts == [ra : Labels \cup {Junk}, sp : Addrs, s : Tokens, sepc : UserPc \cup {Junk},
             spp : {"U"}, sscratch : Addrs]

\* A context is saved where sret would lead to a program.
TypeOK ==
    /\ hart \in Harts
    /\ current \in Tasks \cup {Idle}
    /\ stack \in Stacks
    /\ thread \in [Tasks \cup {Idle} -> Contexts]
    /\ state \in [Tasks -> {"running", "zombie", "null"}]
    /\ pending \in BOOLEAN
    /\ program \in [Tasks -> Cells]
    /\ frames \in [Tasks -> Seq(Entries)]

-----------------------------------------------------------------------------
(* The stacks that a task can have: what it has still to return through.   *)

\* The program has been interrupted, with registers f.
Interrupted(p, f) == Pushed(<<>>, <<p, 1>>, f)

\* trap_handler has called the handler of the cause.
Serving(p, f) == Pushed(Interrupted(p, f), <<p, 2>>, Call("signal", <<p, 1>>))

\* The handler has called a function, which returns to label.
Within(p, f, label) == Pushed(Serving(p, f), <<p, 3>>, Call(label, Null))

\* And this one another.
Deeper(p, f) == Pushed(Within(p, f, "finish"), <<p, 4>>, Call("call", Null))

\* sigchld_handler has called schedule.
Reaping(p, f) == Pushed(Interrupted(p, f), <<p, 2>>, Call("leave", Null))

\* Cell n was on top when the system call faulted, and its registers are cell d.
Faults == {<<3, 4>>, <<3, 5>>, <<4, 5>>}

Calling(p, f, n) == IF n = 3 THEN Within(p, f, "finish") ELSE Deeper(p, f)

KernelCell(p, n) ==
    [pc |-> "call", sp |-> <<p, n>>, t |-> KernelOf(p), s |-> KernelOf(p),
     a |-> KernelOf(p)]

Faulted(p, f, n, d) == Pushed(Calling(p, f, n), <<p, d>>, KernelCell(p, n))

Nesting(p, f, n, d) ==
    Pushed(Faulted(p, f, n, d), <<p, d + 1>>, Call("signal", <<p, d>>))

\* fs are frames of p, one below the other, and stk holds them.
Held(p, fs, stk) ==
    /\ \A d \in 1 .. Len(fs) :
         \E n \in 1 .. DEPTH : fs[d].at = <<p, n>> /\ stk[p][n] = fs[d].cell
    /\ \A c, d \in 1 .. Len(fs) : c < d => fs[c].at[2] < fs[d].at[2]

-----------------------------------------------------------------------------
(* Where the hart is.                                                      *)

OwnS(p) == hart.s = KernelOf(p)
OwnAll(p) == OwnS(p) /\ hart.t = KernelOf(p) /\ hart.a = KernelOf(p)

InProgram(p) ==
    /\ hart.pc \in UserPc /\ hart.mode = "U"
    /\ frames[p] = <<>> /\ hart.sscratch = <<p, 0>>
    /\ Registers(hart) = program[p]

AtStart(p) ==
    /\ hart.pc = "__dummy" /\ frames[p] = <<>> /\ hart.sp = <<p, 0>>
    /\ program[p] = [pc |-> hart.sepc, sp |-> hart.sscratch,
                     t |-> hart.t, s |-> hart.s, a |-> hart.a]

InHandler(p) ==
    /\ frames[p] = Serving(p, program[p]) /\ hart.sp = <<p, 2>>
    /\ \/ hart.pc \in {"timer", "fault", "return"}
       \/ hart.pc \in {"ecall", "syscall"} /\ OwnAll(p) /\ hart.sscratch = Null
       \/ hart.pc = "finish" /\ OwnS(p)

InSchedule(p) ==
    /\ hart.pc \in {"schedule", "return"}
    /\ \/ frames[p] = Within(p, program[p], "return") /\ hart.sp = <<p, 3>>
       \/ frames[p] = Within(p, program[p], "finish") /\ hart.sp = <<p, 3>> /\ OwnS(p)
       \/ frames[p] = Reaping(p, program[p]) /\ hart.sp = <<p, 2>>

InCall(p) ==
    /\ hart.pc = "call" /\ OwnAll(p)
    /\ \/ /\ frames[p] = Within(p, program[p], "finish") /\ hart.sp = <<p, 3>>
          /\ hart.sscratch \in {Null, <<p, 3>>, <<p, 4>>}
       \/ /\ frames[p] = Deeper(p, program[p]) /\ hart.sp = <<p, 4>>
          /\ hart.sscratch \in {Null, <<p, 4>>}

OnTheWayBack(p) ==
    hart.pc \in {"signal", "leave"} /\ frames[p] = Interrupted(p, program[p]) /\ hart.sp = <<p, 1>>

InNested(p) ==
    \E x \in Faults :
        \/ /\ hart.pc \in {"fault", "return"}
           /\ frames[p] = Nesting(p, program[p], x[1], x[2]) /\ hart.sp = <<p, x[2] + 1>>
        \/ /\ hart.pc \in {"signal", "leave", "lost"}
           /\ frames[p] = Faulted(p, program[p], x[1], x[2]) /\ hart.sp = <<p, x[2]>>

\* The hart, when it runs for p.
Running(p) ==
    \/ InProgram(p)
    \/ /\ hart.mode = "S" /\ hart.spp = "U"
       /\ AtStart(p) \/ InHandler(p) \/ InSchedule(p) \/ InCall(p) \/ OnTheWayBack(p)
    \/ hart.mode = "S" /\ hart.spp = "S" /\ InNested(p)

\* What a task that has given the CPU away, or never had it, goes on with.
Waiting(p) ==
    LET c == thread[p] IN
    \/ /\ c.ra = "__dummy" /\ c.sp = <<p, 0>> /\ frames[p] = <<>>
       /\ program[p] = [pc |-> c.sepc, sp |-> c.sscratch, t |-> Junk, s |-> c.s, a |-> Junk]
    \/ c.ra = "signal" /\ c.sp = <<p, 1>> /\ frames[p] = Interrupted(p, program[p])
    \/ /\ c.ra = "return"
       /\ \/ frames[p] = Within(p, program[p], "return") /\ c.sp = <<p, 3>>
          \/ frames[p] = Within(p, program[p], "finish") /\ c.sp = <<p, 3>> /\ c.s = KernelOf(p)
          \/ frames[p] = Reaping(p, program[p]) /\ c.sp = <<p, 2>>

\* Who cannot run any more, or never could, is about to give the CPU away.
Places ==
    /\ IF current \in Runnable THEN Running(current)
       ELSE hart.pc = "schedule" /\ hart.mode = "S" /\ hart.spp = "U"
    /\ \A p \in Runnable \ {current} : Waiting(p)

\* Cells are where they are said to be, and the programs are programs.
Backed ==
    \A p \in Runnable : Held(p, frames[p], stack) /\ program[p].pc \in UserPc

IInv == TypeOK /\ Places /\ Backed

-----------------------------------------------------------------------------
(* Sequences of frames, and stacks that hold them.                         *)

\* gs is fs with one frame more.
Extends(gs, fs, at, cell) ==
    /\ gs \in Seq(Entries) /\ gs # <<>> /\ Len(gs) = Len(fs) + 1
    /\ \A d \in 1 .. Len(fs) : gs[d] = fs[d]
    /\ gs[Len(gs)] = [at |-> at, cell |-> cell]
    /\ SubSeq(gs, 1, Len(gs) - 1) = fs

LEMMA PushedExtends ==
    ASSUME NEW fs \in Seq(Entries), NEW at \in Addrs, NEW cell \in Cells
    PROVE  Extends(Pushed(fs, at, cell), fs, at, cell)
<1> DEFINE e == [at |-> at, cell |-> cell]
           gs == Append(fs, e)
<1>1. e \in Entries
  BY DEF Entries
<1> HIDE DEF e
<1>2. /\ gs \in Seq(Entries) /\ gs # <<>> /\ Len(gs) = Len(fs) + 1
      /\ \A d \in 1 .. Len(fs) : gs[d] = fs[d]
      /\ gs[Len(fs) + 1] = e
  BY <1>1, AppendProperties
<1> HIDE DEF gs
<1>3. Len(fs) \in Nat
  BY LenProperties
<1>4. SubSeq(gs, 1, Len(fs)) = fs
  <2>1. \A i \in 1 .. Len(fs) : gs[i] \in Entries
    BY <1>2, <1>3, ElementOfSeq
  <2>2. /\ SubSeq(gs, 1, Len(fs)) \in Seq(Entries)
        /\ Len(SubSeq(gs, 1, Len(fs))) = Len(fs)
        /\ \A i \in 1 .. Len(fs) : SubSeq(gs, 1, Len(fs))[i] = gs[i]
    BY <1>3, <2>1, SubSeqProperties
  <2> QED BY <1>2, <2>2, SeqEqual
<1>5. Pushed(fs, at, cell) = gs
  BY DEF Pushed, gs, e
<1>6. Len(gs) - 1 = Len(fs)
  BY <1>2, <1>3
<1>7. gs[Len(gs)] = e
  BY <1>2
<1> QED BY <1>2, <1>4, <1>5, <1>6, <1>7 DEF Extends, e

\* Where the stack pointer is under the frames fs of p.
Tip(p, fs) == IF fs = <<>> THEN <<p, 0>> ELSE fs[Len(fs)].at

LEMMA CellAddr ==
    ASSUME TrapAssumption, NEW p \in Tasks, NEW n \in 1 .. DEPTH
    PROVE  IsCell(<<p, n>>) /\ <<p, n>> \in Addrs
BY DEF TrapAssumption, IsCell, Addrs

LEMMA BlankCell == Blank \in Cells
BY DEF Blank, Cells, Tokens, Null, Addrs

\* stk2 is stk with cell at n in the stack of p.
Writes(stk2, stk, p, n, cell) ==
    /\ stk2 \in Stacks /\ stk2[p][n] = cell
    /\ \A m \in 1 .. DEPTH : m # n => stk2[p][m] = stk[p][m]
    /\ \A q \in Tasks : q # p => stk2[q] = stk[q]

LEMMA StoredWrites ==
    ASSUME TrapAssumption, NEW stk \in Stacks, NEW p \in Tasks, NEW n \in 1 .. DEPTH,
           NEW cell \in Cells
    PROVE  Writes(Stored(stk, <<p, n>>, cell), stk, p, n, cell)
<1> DEFINE stk2 == [stk EXCEPT ![p][n] = cell]
<1>1. Stored(stk, <<p, n>>, cell) = stk2
  BY CellAddr DEF Stored
<1>2. stk2 \in Stacks
  BY DEF Stacks
<1>3. /\ stk2[p][n] = cell
      /\ \A m \in 1 .. DEPTH : m # n => stk2[p][m] = stk[p][m]
      /\ \A q \in Tasks : q # p => stk2[q] = stk[q]
  BY DEF Stacks
<1> HIDE DEF stk2
<1> QED BY <1>1, <1>2, <1>3 DEF Writes

LEMMA HeldPush ==
    ASSUME NEW p, NEW fs \in Seq(Entries), NEW gs, NEW stk, NEW stk2, NEW m \in Nat,
           NEW n \in 1 .. DEPTH, NEW cell,
           Held(p, fs, stk), Tip(p, fs) = <<p, m>>, m < n,
           Extends(gs, fs, <<p, n>>, cell), Writes(stk2, stk, p, n, cell)
    PROVE  Held(p, gs, stk2) /\ Tip(p, gs) = <<p, n>>
<1>1. /\ gs \in Seq(Entries) /\ gs # <<>> /\ Len(gs) = Len(fs) + 1
      /\ \A d \in 1 .. Len(fs) : gs[d] = fs[d]
      /\ gs[Len(gs)] = [at |-> <<p, n>>, cell |-> cell]
  BY DEF Extends
<1>2. /\ stk2[p][n] = cell
      /\ \A k \in 1 .. DEPTH : k # n => stk2[p][k] = stk[p][k]
  BY DEF Writes
<1>3. Len(fs) \in Nat
  BY LenProperties
<1>4. ASSUME NEW d \in 1 .. Len(fs)
      PROVE  \E k \in 1 .. DEPTH :
                fs[d].at = <<p, k>> /\ stk[p][k] = fs[d].cell /\ k < n
  <2>1. PICK k \in 1 .. DEPTH : fs[d].at = <<p, k>> /\ stk[p][k] = fs[d].cell
    BY DEF Held
  <2>2. fs # <<>> /\ fs[Len(fs)].at = <<p, m>>
    BY <1>3 DEF Tip
  <2>3. d = Len(fs) \/ fs[d].at[2] < fs[Len(fs)].at[2]
    BY <1>3 DEF Held
  <2>4. k <= m
    BY <2>1, <2>2, <2>3
  <2> QED BY <2>1, <2>4
<1>5. ASSUME NEW d \in 1 .. Len(gs)
      PROVE  \E k \in 1 .. DEPTH : gs[d].at = <<p, k>> /\ stk2[p][k] = gs[d].cell
  <2>1. CASE d \in 1 .. Len(fs)
    <3>1. PICK k \in 1 .. DEPTH :
             fs[d].at = <<p, k>> /\ stk[p][k] = fs[d].cell /\ k < n
      BY <1>4, <2>1
    <3>2. stk2[p][k] = stk[p][k]
      BY <1>2, <3>1
    <3> QED BY <1>1, <2>1, <3>1, <3>2
  <2>2. CASE d = Len(gs)
    BY <1>1, <1>2, <2>2
  <2> QED BY <1>1, <1>3, <2>1, <2>2
<1>6. ASSUME NEW c \in 1 .. Len(gs), NEW d \in 1 .. Len(gs), c < d
      PROVE  gs[c].at[2] < gs[d].at[2]
  <2>1. c \in 1 .. Len(fs)
    BY <1>1, <1>3, <1>6
  <2>2. CASE d \in 1 .. Len(fs)
    <3>1. fs[c].at[2] < fs[d].at[2]
      BY <1>6, <2>1, <2>2 DEF Held
    <3> QED BY <1>1, <2>1, <2>2, <3>1
  <2>3. CASE d = Len(gs)
    <3>1. PICK k \in 1 .. DEPTH : fs[c].at = <<p, k>> /\ k < n
      BY <1>4, <2>1
    <3> QED BY <1>1, <2>1, <2>3, <3>1
  <2> QED BY <1>1, <1>3, <2>2, <2>3
<1>7. Tip(p, gs) = <<p, n>>
  BY <1>1 DEF Tip
<1> QED BY <1>5, <1>6, <1>7 DEF Held

LEMMA HeldPop ==
    ASSUME NEW p, NEW fs \in Seq(Entries), NEW gs, NEW stk, NEW stk2,
           NEW n \in 1 .. DEPTH, NEW cell, NEW blank,
           Held(p, gs, stk), Extends(gs, fs, <<p, n>>, cell),
           Writes(stk2, stk, p, n, blank)
    PROVE  stk[p][n] = cell /\ Held(p, fs, stk2)
<1>1. /\ Len(gs) = Len(fs) + 1
      /\ \A d \in 1 .. Len(fs) : gs[d] = fs[d]
      /\ gs[Len(gs)] = [at |-> <<p, n>>, cell |-> cell]
  BY DEF Extends
<1>2. \A k \in 1 .. DEPTH : k # n => stk2[p][k] = stk[p][k]
  BY DEF Writes
<1>3. Len(fs) \in Nat
  BY LenProperties
<1>4. stk[p][n] = cell
  BY <1>1, <1>3, SMTT(30) DEF Held
<1>5. ASSUME NEW d \in 1 .. Len(fs)
      PROVE  \E k \in 1 .. DEPTH : fs[d].at = <<p, k>> /\ stk2[p][k] = fs[d].cell
  <2>1. d \in 1 .. Len(gs) /\ d < Len(gs) /\ Len(gs) \in 1 .. Len(gs)
    BY <1>1, <1>3
  <2>2. PICK k \in 1 .. DEPTH : gs[d].at = <<p, k>> /\ stk[p][k] = gs[d].cell
    BY <2>1 DEF Held
  <2>3. gs[d].at[2] < gs[Len(gs)].at[2]
    BY <2>1 DEF Held
  <2>4. k # n
    BY <1>1, <2>2, <2>3
  <2> QED BY <1>1, <1>2, <2>2, <2>4
<1>6. ASSUME NEW c \in 1 .. Len(fs), NEW d \in 1 .. Len(fs), c < d
      PROVE  fs[c].at[2] < fs[d].at[2]
  BY <1>1, <1>3, <1>6 DEF Held
<1> QED BY <1>4, <1>5, <1>6 DEF Held

\* The stacks of others do not matter.
LEMMA HeldElsewhere ==
    ASSUME NEW p, NEW fs, NEW stk, NEW stk2, stk2[p] = stk[p], Held(p, fs, stk)
    PROVE  Held(p, fs, stk2)
BY DEF Held

LEMMA ExtendsTip ==
    ASSUME NEW p, NEW gs, NEW fs, NEW at, NEW cell, Extends(gs, fs, at, cell)
    PROVE  Tip(p, gs) = at
BY DEF Extends, Tip

LEMMA CallCell ==
    ASSUME NEW label \in Labels, NEW arg \in Addrs
    PROVE  /\ Call(label, arg) \in Cells
           /\ Call(label, arg).pc = label /\ Call(label, arg).sp = arg
BY BlankCell DEF Call, Blank, Cells

LEMMA NullAddr == Null \in Addrs
BY DEF Null, Addrs

LEMMA PlaceAddr ==
    ASSUME NEW p \in Tasks, NEW n \in Nat
    PROVE  <<p, n>> \in Addrs
BY DEF Addrs

\* The stacks that a task can have are put together frame by frame.
LEMMA Chain ==
    ASSUME NEW p \in Tasks, NEW f \in Cells
    PROVE  /\ <<>> \in Seq(Entries)
           /\ Extends(Interrupted(p, f), <<>>, <<p, 1>>, f)
           /\ Extends(Serving(p, f), Interrupted(p, f), <<p, 2>>, Call("signal", <<p, 1>>))
           /\ \A label \in Labels :
                Extends(Within(p, f, label), Serving(p, f), <<p, 3>>, Call(label, Null))
           /\ Extends(Deeper(p, f), Within(p, f, "finish"), <<p, 4>>, Call("call", Null))
           /\ Extends(Reaping(p, f), Interrupted(p, f), <<p, 2>>, Call("leave", Null))
<1>1. <<p, 1>> \in Addrs /\ <<p, 2>> \in Addrs /\ <<p, 3>> \in Addrs /\ <<p, 4>> \in Addrs
  BY PlaceAddr
<1>2. /\ "signal" \in Labels /\ "leave" \in Labels /\ "call" \in Labels
      /\ "finish" \in Labels
  BY DEF Labels
<1>3. <<>> \in Seq(Entries)
  BY EmptySeq
<1>4. Extends(Interrupted(p, f), <<>>, <<p, 1>>, f)
  BY <1>1, <1>3, PushedExtends DEF Interrupted
<1>5. Interrupted(p, f) \in Seq(Entries)
  BY <1>4 DEF Extends
<1>6. Extends(Serving(p, f), Interrupted(p, f), <<p, 2>>, Call("signal", <<p, 1>>))
  <2>1. Call("signal", <<p, 1>>) \in Cells
    BY <1>1, <1>2, CallCell
  <2> QED BY <1>1, <1>5, <2>1, PushedExtends DEF Serving
<1>7. Serving(p, f) \in Seq(Entries)
  BY <1>6 DEF Extends
<1>8. ASSUME NEW label \in Labels
      PROVE  Extends(Within(p, f, label), Serving(p, f), <<p, 3>>, Call(label, Null))
  <2>1. Call(label, Null) \in Cells
    BY NullAddr, CallCell
  <2> QED BY <1>1, <1>7, <2>1, PushedExtends DEF Within
<1>9. Within(p, f, "finish") \in Seq(Entries)
  BY <1>2, <1>8 DEF Extends
<1>10. Extends(Deeper(p, f), Within(p, f, "finish"), <<p, 4>>, Call("call", Null))
  <2>1. Call("call", Null) \in Cells
    BY <1>2, NullAddr, CallCell
  <2> QED BY <1>1, <1>9, <2>1, PushedExtends DEF Deeper
<1>11. Extends(Reaping(p, f), Interrupted(p, f), <<p, 2>>, Call("leave", Null))
  <2>1. Call("leave", Null) \in Cells
    BY <1>2, NullAddr, CallCell
  <2> QED BY <1>1, <1>5, <2>1, PushedExtends DEF Reaping
<1> QED BY <1>3, <1>4, <1>6, <1>8, <1>10, <1>11

LEMMA FaultChain ==
    ASSUME NEW p \in Tasks, NEW f \in Cells, NEW x \in Faults
    PROVE  /\ Calling(p, f, x[1]) \in Seq(Entries)
           /\ Tip(p, Calling(p, f, x[1])) = <<p, x[1]>>
           /\ KernelCell(p, x[1]) \in Cells
           /\ Extends(Faulted(p, f, x[1], x[2]), Calling(p, f, x[1]), <<p, x[2]>>,
                      KernelCell(p, x[1]))
           /\ Extends(Nesting(p, f, x[1], x[2]), Faulted(p, f, x[1], x[2]),
                      <<p, x[2] + 1>>, Call("signal", <<p, x[2]>>))
<1> DEFINE n == x[1]
           d == x[2]
<1>1. n \in {3, 4} /\ d \in {4, 5}
  BY DEF Faults
<1> HIDE DEF n, d
<1>2. <<p, n>> \in Addrs /\ <<p, d>> \in Addrs /\ <<p, d + 1>> \in Addrs
  BY <1>1, PlaceAddr
<1>3. Calling(p, f, n) \in Seq(Entries) /\ Tip(p, Calling(p, f, n)) = <<p, n>>
  <2>1. "finish" \in Labels
    BY DEF Labels
  <2>2. /\ Extends(Within(p, f, "finish"), Serving(p, f), <<p, 3>>, Call("finish", Null))
        /\ Extends(Deeper(p, f), Within(p, f, "finish"), <<p, 4>>, Call("call", Null))
    BY <2>1, Chain
  <2>3. Within(p, f, "finish") \in Seq(Entries) /\ Deeper(p, f) \in Seq(Entries)
    BY <2>2 DEF Extends
  <2>4. Tip(p, Within(p, f, "finish")) = <<p, 3>> /\ Tip(p, Deeper(p, f)) = <<p, 4>>
    BY <2>2, ExtendsTip
  <2> QED BY <1>1, <2>3, <2>4 DEF Calling
<1>4. KernelCell(p, n) \in Cells
  BY <1>2 DEF KernelCell, KernelOf, Cells, Tokens, Labels
<1>5. Extends(Faulted(p, f, n, d), Calling(p, f, n), <<p, d>>, KernelCell(p, n))
  BY <1>2, <1>3, <1>4, PushedExtends DEF Faulted
<1>6. Faulted(p, f, n, d) \in Seq(Entries)
  BY <1>5 DEF Extends
<1>7. Call("signal", <<p, d>>) \in Cells
  BY <1>2, CallCell DEF Labels
<1>8. Extends(Nesting(p, f, n, d), Faulted(p, f, n, d), <<p, d + 1>>,
              Call("signal", <<p, d>>))
  BY <1>2, <1>6, <1>7, PushedExtends DEF Nesting
<1> QED BY <1>3, <1>4, <1>5, <1>8 DEF n, d

-----------------------------------------------------------------------------
(* Steps of the task that runs.                                            *)

LEMMA LabelsApart ==
    ASSUME TrapAssumption
    PROVE  \A label \in Labels : label \notin UserPc
BY DEF TrapAssumption, UserPc

\* Everywhere but in schedule, the hart runs for a task that may run.
LEMMA RunsFor ==
    ASSUME IInv, hart.pc # "schedule"
    PROVE  /\ current \in Tasks /\ current \in Runnable /\ Running(current)
           /\ program[current] \in Cells /\ program[current].pc \in UserPc
           /\ frames[current] \in Seq(Entries)
           /\ Held(current, frames[current], stack)
           /\ KernelOf(current) = current
<1>1. current \in Runnable /\ Running(current)
  BY DEF IInv, Places
<1> QED BY <1>1 DEF IInv, TypeOK, Backed, Runnable, KernelOf

\* Only what belongs to p, who runs, has changed.
LEMMA OneRuns ==
    ASSUME IInv, TypeOK', NEW p \in Runnable, p = current, p = current',
           Runnable' = Runnable,
           \A q \in Runnable : q # p =>
               /\ stack'[q] = stack[q] /\ thread'[q] = thread[q]
               /\ frames'[q] = frames[q] /\ program'[q] = program[q],
           Running(p)', Held(p, frames'[p], stack'), program'[p].pc \in UserPc
    PROVE  IInv'
<1>1. ASSUME NEW q \in Runnable, q # p
      PROVE  /\ Waiting(q)' /\ Held(q, frames'[q], stack')
             /\ program'[q].pc \in UserPc
  <2>1. Waiting(q) /\ Held(q, frames[q], stack) /\ program[q].pc \in UserPc
    BY <1>1 DEF IInv, Places, Backed
  <2>2. Waiting(q)'
    BY <1>1, <2>1 DEF Waiting
  <2> QED BY <1>1, <2>1, <2>2, HeldElsewhere
<1>2. Places'
  BY <1>1 DEF Places
<1>3. Backed'
  BY <1>1 DEF Backed
<1> QED BY <1>2, <1>3 DEF IInv

\* The frames of p become gs and his stack what stk2 says.
LEMMA FramesOfOne ==
    ASSUME TypeOK, NEW p \in Tasks, NEW gs \in Seq(Entries),
           frames' = [frames EXCEPT ![p] = gs]
    PROVE  /\ frames' \in [Tasks -> Seq(Entries)] /\ frames'[p] = gs
           /\ \A q \in Tasks : q # p => frames'[q] = frames[q]
BY DEF TypeOK

\* p calls a function, or is about to return from one he has called.
LEMMA CallHolds ==
    ASSUME TrapAssumption, IInv, NEW p \in Tasks, NEW m \in 0 .. DEPTH - 1, NEW label \in Labels,
           p = current, Held(p, frames[p], stack), Tip(p, frames[p]) = <<p, m>>,
           hart.sp = <<p, m>>,
           NEW pc \in Labels, Calls(pc, Call(label, Null))
    PROVE  /\ stack' \in Stacks /\ frames' \in [Tasks -> Seq(Entries)]
           /\ hart' = [hart EXCEPT !.pc = pc, !.sp = <<p, m + 1>>]
           /\ frames'[p] = Pushed(frames[p], <<p, m + 1>>, Call(label, Null))
           /\ Held(p, frames'[p], stack')
           /\ \A q \in Tasks : q # p => stack'[q] = stack[q] /\ frames'[q] = frames[q]
<1> DEFINE cell == Call(label, Null)
           gs == Pushed(frames[p], <<p, m + 1>>, cell)
<1>1. Down(hart.sp) = <<p, m + 1>>
  BY DEF Down, TrapAssumption
<1>2. /\ stack' = Stored(stack, <<p, m + 1>>, cell)
      /\ frames' = [frames EXCEPT ![p] = gs]
      /\ hart' = [hart EXCEPT !.pc = pc, !.sp = <<p, m + 1>>]
  BY <1>1 DEF Calls, IInv, TypeOK
<1>3. m \in Nat /\ m + 1 \in 1 .. DEPTH /\ m < m + 1
  BY DEF TrapAssumption
<1>4. cell \in Cells /\ <<p, m + 1>> \in Addrs /\ frames[p] \in Seq(Entries) /\ stack \in Stacks
  BY <1>3, NullAddr, CallCell, CellAddr DEF IInv, TypeOK
<1> HIDE DEF cell
<1>5. Extends(gs, frames[p], <<p, m + 1>>, cell)
  BY <1>4, PushedExtends
<1>6. Writes(stack', stack, p, m + 1, cell)
  BY <1>2, <1>3, <1>4, StoredWrites
<1> HIDE DEF gs
<1>7. Held(p, gs, stack')
  BY <1>3, <1>4, <1>5, <1>6, HeldPush
<1>8. gs \in Seq(Entries)
  BY <1>5 DEF Extends
<1>9. /\ frames' \in [Tasks -> Seq(Entries)] /\ frames'[p] = gs
      /\ \A q \in Tasks : q # p => frames'[q] = frames[q]
  BY <1>2, <1>8, FramesOfOne DEF IInv
<1> QED BY <1>2, <1>6, <1>7, <1>9 DEF Writes, gs, cell

\* The frames of p become fs, and his stack holds them.
Becomes(p, fs) ==
    /\ stack' \in Stacks /\ frames' \in [Tasks -> Seq(Entries)]
    /\ frames'[p] = fs /\ Held(p, fs, stack')
    /\ \A q \in Tasks : q # p => stack'[q] = stack[q] /\ frames'[q] = frames[q]

\* p takes his frame from cell n, and is under fs again.
LEMMA PopHolds ==
    ASSUME TrapAssumption, IInv, NEW p \in Tasks, NEW n \in 1 .. DEPTH,
           NEW fs \in Seq(Entries), NEW cell \in Cells,
           p = current, Held(p, frames[p], stack), hart.sp = <<p, n>>,
           Extends(frames[p], fs, <<p, n>>, cell),
           stack' = Stored(stack, hart.sp, Blank), frames' = Pops(current)
    PROVE  Top = cell /\ Up(hart.sp) = <<p, n - 1>> /\ Becomes(p, fs)
<1>1. Writes(stack', stack, p, n, Blank)
  BY BlankCell, StoredWrites DEF IInv, TypeOK
<1>2. stack[p][n] = cell /\ Held(p, fs, stack')
  BY <1>1, HeldPop
<1>3. Top = stack[p][n]
  BY CellAddr DEF Top, At
<1>4. frames' = [frames EXCEPT ![p] = fs]
  BY DEF Pops, Extends, IInv, TypeOK
<1>5. /\ frames' \in [Tasks -> Seq(Entries)] /\ frames'[p] = fs
      /\ \A q \in Tasks : q # p => frames'[q] = frames[q]
  BY <1>4, FramesOfOne DEF IInv
<1>6. Up(hart.sp) = <<p, n - 1>>
  BY DEF Up, TrapAssumption
<1> QED BY <1>1, <1>2, <1>3, <1>5, <1>6 DEF Writes, Becomes

\* p takes cell from place n and goes on under fs; when this is a place that p can
\* be in, all is well.
Returns(p, n, fs, cell) ==
    /\ hart' = [hart EXCEPT !.pc = cell.pc, !.sp = <<p, n - 1>>]
    /\ frames'[p] = fs /\ program' = program
    /\ Running(p)' => IInv'

LEMMA ReturnTo ==
    ASSUME TrapAssumption, IInv, Return, NEW p \in Runnable, NEW n \in 1 .. DEPTH,
           NEW fs \in Seq(Entries), NEW cell \in Cells, cell.pc \in Labels,
           p = current, hart.sp = <<p, n>>, Extends(frames[p], fs, <<p, n>>, cell)
    PROVE  Returns(p, n, fs, cell)
<1>1. /\ stack' = Stored(stack, hart.sp, Blank) /\ frames' = Pops(current)
      /\ UNCHANGED <<current, thread, state, pending, program>>
  BY DEF Return
<1>2. p \in Tasks /\ Held(p, frames[p], stack) /\ program[p].pc \in UserPc
  BY DEF IInv, Backed, Runnable
<1>3. Top = cell /\ Up(hart.sp) = <<p, n - 1>> /\ Becomes(p, fs)
  BY <1>1, <1>2, PopHolds
<1>4. hart' = [hart EXCEPT !.pc = cell.pc, !.sp = <<p, n - 1>>]
  <2>1. hart' = [hart EXCEPT !.pc = Top.pc, !.sp = Up(hart.sp)]
    BY DEF Return
  <2> QED BY <1>3, <2>1
<1>5. TypeOK'
  <2>1. <<p, n - 1>> \in Addrs
    BY <1>2, PlaceAddr
  <2>2. hart' \in Harts
    BY <1>4, <2>1 DEF IInv, TypeOK, Harts
  <2> QED BY <1>1, <1>3, <2>2 DEF IInv, TypeOK, Becomes
<1>6. Runnable' = Runnable /\ Runnable \subseteq Tasks
  BY <1>1 DEF Runnable
<1>7. Running(p)' => IInv'
  BY <1>1, <1>2, <1>3, <1>5, <1>6, OneRuns DEF Becomes
<1> QED BY <1>1, <1>3, <1>4, <1>7 DEF Returns, Becomes

LEMMA SmallDepth == ASSUME TrapAssumption PROVE 1 .. 6 \subseteq 1 .. DEPTH
BY DEF TrapAssumption

LEMMA ReturnIInv == ASSUME TrapAssumption, IInv, Return PROVE IInv'
<1>1. hart.pc \in {"return", "call"} /\ hart.pc \notin UserPc
  BY LabelsApart DEF Return, Labels
<1>2. PICK p \in Runnable : p = current
  BY <1>1, RunsFor
<1>3. /\ p \in Tasks /\ Running(p) /\ program[p] \in Cells /\ hart \in Harts
  BY <1>1, <1>2, RunsFor DEF IInv, TypeOK
<1> DEFINE f == program[p]
<1>4. /\ Extends(Interrupted(p, f), <<>>, <<p, 1>>, f)
      /\ Extends(Serving(p, f), Interrupted(p, f), <<p, 2>>, Call("signal", <<p, 1>>))
      /\ \A label \in Labels :
           Extends(Within(p, f, label), Serving(p, f), <<p, 3>>, Call(label, Null))
      /\ Extends(Deeper(p, f), Within(p, f, "finish"), <<p, 4>>, Call("call", Null))
      /\ Extends(Reaping(p, f), Interrupted(p, f), <<p, 2>>, Call("leave", Null))
  BY <1>3, Chain
<1>5. /\ Interrupted(p, f) \in Seq(Entries) /\ Serving(p, f) \in Seq(Entries)
      /\ Within(p, f, "finish") \in Seq(Entries)
  BY <1>4 DEF Extends, Labels
<1>6. /\ "signal" \in Labels /\ "return" \in Labels /\ "finish" \in Labels
      /\ "call" \in Labels /\ "leave" \in Labels
      /\ 2 \in 1 .. DEPTH /\ 3 \in 1 .. DEPTH /\ 4 \in 1 .. DEPTH
      /\ <<p, 1>> \in Addrs /\ Null \in Addrs
  BY <1>3, SmallDepth, NullAddr, PlaceAddr DEF Labels
<1>7. /\ Call("return", Null) \in Cells /\ Call("return", Null).pc = "return"
      /\ Call("finish", Null) \in Cells /\ Call("finish", Null).pc = "finish"
      /\ Call("call", Null) \in Cells /\ Call("call", Null).pc = "call"
      /\ Call("leave", Null) \in Cells /\ Call("leave", Null).pc = "leave"
  BY <1>6, CallCell
<1>8. CASE InHandler(p) /\ hart.spp = "U" /\ hart.mode = "S"
  <2>1. frames[p] = Serving(p, f) /\ hart.sp = <<p, 2>>
    BY <1>8 DEF InHandler
  <2>2. Call("signal", <<p, 1>>) \in Cells /\ Call("signal", <<p, 1>>).pc = "signal"
    BY <1>6, CallCell
  <2>3. Returns(p, 2, Interrupted(p, f), Call("signal", <<p, 1>>))
    BY <1>2, <1>4, <1>5, <1>6, <2>1, <2>2, ReturnTo
  <2>4. OnTheWayBack(p)' /\ hart'.mode = "S" /\ hart'.spp = "U"
    <3>1. /\ hart'.pc = "signal" /\ hart'.sp = <<p, 1>>
          /\ hart'.mode = "S" /\ hart'.spp = "U"
      BY <1>3, <1>8, <2>2, <2>3 DEF Returns, Harts
    <3>2. frames'[p] = Interrupted(p, program'[p])
      BY <2>3 DEF Returns
    <3> QED BY <3>1, <3>2 DEF OnTheWayBack
  <2> QED BY <2>3, <2>4 DEF Returns, Running
<1>9. CASE InSchedule(p) /\ hart.spp = "U" /\ hart.mode = "S"
  <2>1. CASE frames[p] = Within(p, f, "return") /\ hart.sp = <<p, 3>>
    <3>1. Returns(p, 3, Serving(p, f), Call("return", Null))
      BY <1>2, <1>4, <1>5, <1>6, <1>7, <2>1, ReturnTo
    <3>2. InHandler(p)' /\ hart'.mode = "S" /\ hart'.spp = "U"
      BY <1>3, <1>7, <1>9, <3>1 DEF Returns, InHandler, Harts
    <3> QED BY <3>1, <3>2 DEF Returns, Running
  <2>2. CASE frames[p] = Within(p, f, "finish") /\ hart.sp = <<p, 3>> /\ OwnS(p)
    <3>1. Returns(p, 3, Serving(p, f), Call("finish", Null))
      BY <1>2, <1>4, <1>5, <1>6, <1>7, <2>2, ReturnTo
    <3>2. InHandler(p)' /\ hart'.mode = "S" /\ hart'.spp = "U"
      BY <1>3, <1>7, <1>9, <2>2, <3>1 DEF Returns, InHandler, OwnS, Harts, KernelOf
    <3> QED BY <3>1, <3>2 DEF Returns, Running
  <2>3. CASE frames[p] = Reaping(p, f) /\ hart.sp = <<p, 2>>
    <3>1. Returns(p, 2, Interrupted(p, f), Call("leave", Null))
      BY <1>2, <1>4, <1>5, <1>6, <1>7, <2>3, ReturnTo
    <3>2. OnTheWayBack(p)' /\ hart'.mode = "S" /\ hart'.spp = "U"
      BY <1>3, <1>7, <1>9, <3>1 DEF Returns, OnTheWayBack, Harts
    <3> QED BY <3>1, <3>2 DEF Returns, Running
  <2> QED BY <1>9, <2>1, <2>2, <2>3 DEF InSchedule
<1>10. CASE InCall(p) /\ hart.spp = "U" /\ hart.mode = "S"
  <2>1. CASE frames[p] = Within(p, f, "finish") /\ hart.sp = <<p, 3>>
    <3>1. Returns(p, 3, Serving(p, f), Call("finish", Null))
      BY <1>2, <1>4, <1>5, <1>6, <1>7, <2>1, ReturnTo
    <3>2. InHandler(p)' /\ hart'.mode = "S" /\ hart'.spp = "U"
      BY <1>3, <1>7, <1>10, <3>1 DEF Returns, InHandler, InCall, OwnS, OwnAll, Harts, KernelOf
    <3> QED BY <3>1, <3>2 DEF Returns, Running
  <2>2. CASE /\ frames[p] = Deeper(p, f) /\ hart.sp = <<p, 4>>
             /\ hart.sscratch \in {Null, <<p, 4>>}
    <3>1. Returns(p, 4, Within(p, f, "finish"), Call("call", Null))
      BY <1>2, <1>4, <1>5, <1>6, <1>7, <2>2, ReturnTo
    <3>2. InCall(p)' /\ hart'.mode = "S" /\ hart'.spp = "U"
      BY <1>3, <1>7, <1>10, <2>2, <3>1 DEF Returns, InCall, OwnS, OwnAll, Harts, KernelOf, Null
    <3> QED BY <3>1, <3>2 DEF Returns, Running
  <2> QED BY <1>10, <2>1, <2>2 DEF InCall
<1>11. CASE InNested(p) /\ hart.spp = "S" /\ hart.mode = "S"
  <2>1. PICK x \in Faults : /\ frames[p] = Nesting(p, f, x[1], x[2])
                            /\ hart.sp = <<p, x[2] + 1>>
    <3>1. hart.pc \notin {"signal", "leave", "lost"}
      BY <1>1
    <3> QED BY <1>11, <3>1 DEF InNested
  <2>2. /\ Extends(Nesting(p, f, x[1], x[2]), Faulted(p, f, x[1], x[2]),
                   <<p, x[2] + 1>>, Call("signal", <<p, x[2]>>))
        /\ Faulted(p, f, x[1], x[2]) \in Seq(Entries)
    <3>1. /\ Extends(Faulted(p, f, x[1], x[2]), Calling(p, f, x[1]), <<p, x[2]>>,
                     KernelCell(p, x[1]))
          /\ Extends(Nesting(p, f, x[1], x[2]), Faulted(p, f, x[1], x[2]),
                     <<p, x[2] + 1>>, Call("signal", <<p, x[2]>>))
      BY <1>3, FaultChain
    <3> QED BY <3>1 DEF Extends
  <2>3. PICK d \in {4, 5} : d = x[2]
    BY DEF Faults
  <2>4. Call("signal", <<p, d>>) \in Cells /\ Call("signal", <<p, d>>).pc = "signal"
    <3>1. <<p, d>> \in Addrs
      BY <1>3, PlaceAddr
    <3> QED BY <1>6, <3>1, CallCell
  <2>5. d + 1 \in 1 .. DEPTH /\ d + 1 - 1 = d
    BY SmallDepth
  <2>6. Returns(p, d + 1, Faulted(p, f, x[1], x[2]), Call("signal", <<p, d>>))
    BY <1>2, <1>6, <2>1, <2>2, <2>3, <2>4, <2>5, ReturnTo
  <2>7. InNested(p)' /\ hart'.mode = "S" /\ hart'.spp = "S"
    BY <1>3, <1>11, <2>3, <2>4, <2>5, <2>6 DEF Returns, InNested, Harts
  <2> QED BY <2>6, <2>7 DEF Returns, Running
<1>12. ~InProgram(p) /\ ~AtStart(p) /\ ~OnTheWayBack(p)
  BY <1>1 DEF InProgram, AtStart, OnTheWayBack
<1> QED BY <1>3, <1>8, <1>9, <1>10, <1>11, <1>12 DEF Running

\* Two frames are put under fs.
LEMMA PushTwo ==
    ASSUME TrapAssumption, TypeOK, NEW p \in Tasks, NEW m \in Nat, NEW k \in 1 .. DEPTH,
           m < k, k + 1 \in 1 .. DEPTH, NEW code \in Cells, NEW call \in Cells,
           NEW fs0 \in Seq(Entries), Held(p, fs0, stack), Tip(p, fs0) = <<p, m>>,
           stack' = Stored(Stored(stack, <<p, k>>, code), <<p, k + 1>>, call),
           frames' = [frames EXCEPT ![p] =
                        Pushed(Pushed(fs0, <<p, k>>, code), <<p, k + 1>>, call)]
    PROVE  Becomes(p, Pushed(Pushed(fs0, <<p, k>>, code), <<p, k + 1>>, call))
<1> DEFINE fs == Pushed(fs0, <<p, k>>, code)
           gs == Pushed(fs, <<p, k + 1>>, call)
           stk == Stored(stack, <<p, k>>, code)
<1>1. stack' = Stored(stk, <<p, k + 1>>, call) /\ frames' = [frames EXCEPT ![p] = gs]
  OBVIOUS
<1>2. <<p, k>> \in Addrs /\ <<p, k + 1>> \in Addrs
  BY CellAddr
<1>3. Extends(fs, fs0, <<p, k>>, code)
  BY <1>2, PushedExtends
<1> HIDE DEF fs
<1>4. fs \in Seq(Entries)
  BY <1>3 DEF Extends
<1>5. Extends(gs, fs, <<p, k + 1>>, call)
  BY <1>2, <1>4, PushedExtends
<1> HIDE DEF gs
<1>6. Writes(stk, stack, p, k, code)
  BY StoredWrites DEF TypeOK
<1> HIDE DEF stk
<1>7. stk \in Stacks
  BY <1>6 DEF Writes
<1>8. Writes(stack', stk, p, k + 1, call)
  BY <1>1, <1>7, StoredWrites
<1>9. Held(p, fs, stk) /\ Tip(p, fs) = <<p, k>>
  <2>1. m \in Nat /\ k \in 1 .. DEPTH /\ m < k
    OBVIOUS
  <2>2. Held(p, fs0, stack) /\ Tip(p, fs0) = <<p, m>>
    OBVIOUS
  <2> QED BY <1>3, <1>6, <2>1, <2>2, HeldPush
<1>10. Held(p, gs, stack')
  <2>1. k \in Nat /\ k < k + 1
    OBVIOUS
  <2> QED BY <1>4, <1>5, <1>8, <1>9, <2>1, HeldPush
<1>11. gs \in Seq(Entries)
  BY <1>5 DEF Extends
<1>12. /\ frames' \in [Tasks -> Seq(Entries)] /\ frames'[p] = gs
       /\ \A q \in Tasks : q # p => frames'[q] = frames[q]
  BY <1>1, <1>11, FramesOfOne
<1>13. /\ stack' \in Stacks
       /\ \A q \in Tasks : q # p => stack'[q] = stack[q]
  BY <1>6, <1>8 DEF Writes
<1>14. Becomes(p, gs)
  BY <1>10, <1>12, <1>13 DEF Becomes
<1> QED BY <1>14 DEF gs, fs

\* A trap puts two frames under those of p.
LEMMA EnterHolds ==
    ASSUME TrapAssumption, TypeOK, NEW p \in Tasks, NEW m \in Nat, NEW k \in 1 .. DEPTH,
           m < k, k + 1 \in 1 .. DEPTH, NEW code \in Cells, NEW cause,
           p = current, Held(p, frames[p], stack), Tip(p, frames[p]) = <<p, m>>,
           Down(TrapStack(code)) = <<p, k>>, Enter(code, cause)
    PROVE  Becomes(p, Pushed(Pushed(frames[p], <<p, k>>, code),
                             <<p, k + 1>>, Call("signal", <<p, k>>)))
<1>1. Down(<<p, k>>) = <<p, k + 1>>
  BY DEF Down, TrapAssumption
<1>2. /\ stack' = Stored(Stored(stack, <<p, k>>, code), <<p, k + 1>>, Call("signal", <<p, k>>))
      /\ frames' = [frames EXCEPT ![p] =
                      Pushed(Pushed(frames[p], <<p, k>>, code),
                             <<p, k + 1>>, Call("signal", <<p, k>>))]
  BY <1>1 DEF Enter, TypeOK
<1>3. Call("signal", <<p, k>>) \in Cells /\ frames[p] \in Seq(Entries)
  BY CellAddr, CallCell DEF Labels, TypeOK
<1> QED BY <1>2, <1>3, PushTwo

LEMMA UserTrapIInv ==
    ASSUME TrapAssumption, IInv, NEW v \in Values, NEW cause \in {"timer", "ecall", "fault"},
           UserTrap(v, cause)
    PROVE  IInv'
<1>1. hart.pc \in UserPc /\ hart.pc \notin Labels
  BY LabelsApart DEF UserTrap, InUser
<1>2. PICK p \in Runnable : p = current
  BY <1>1, RunsFor DEF Labels
<1>3. /\ p \in Tasks /\ Running(p) /\ hart \in Harts /\ TypeOK
      /\ Held(p, frames[p], stack) /\ KernelOf(p) = p
  BY <1>1, <1>2, RunsFor DEF IInv, TypeOK, Labels
<1>4. InProgram(p)
  BY <1>1, <1>3 DEF Running, AtStart, InHandler, InSchedule, InCall, OnTheWayBack, InNested,
                    Labels
<1>5. PICK code \in Cells :
         /\ code = [pc |-> v, sp |-> <<User, v>>, t |-> v, s |-> v, a |-> v]
         /\ code.pc \in UserPc
  <2>1. v \in UserPc /\ v \in Tokens /\ <<User, v>> \in Addrs
    BY DEF Tokens, Addrs, UserPc
  <2>2. [pc |-> v, sp |-> <<User, v>>, t |-> v, s |-> v, a |-> v] \in Cells
    BY <2>1 DEF Cells
  <2> QED BY <2>1, <2>2
<1>6. Enter(code, cause) /\ program' = [program EXCEPT ![p] = code]
  BY <1>2, <1>5 DEF UserTrap
<1>7. Down(TrapStack(code)) = <<p, 1>>
  BY <1>3, <1>4 DEF InProgram, TrapStack, Null, Down, TrapAssumption
<1>8. frames[p] = <<>> /\ Tip(p, frames[p]) = <<p, 0>>
  BY <1>4 DEF InProgram, Tip
<1>9. Becomes(p, Serving(p, code))
  <2>1. 1 \in 1 .. DEPTH /\ 1 + 1 \in 1 .. DEPTH /\ 0 < 1 /\ 0 \in Nat /\ 1 + 1 = 2
    BY SmallDepth
  <2>2. Becomes(p, Pushed(Pushed(frames[p], <<p, 1>>, code),
                          <<p, 1 + 1>>, Call("signal", <<p, 1>>)))
    BY <1>2, <1>3, <1>6, <1>7, <1>8, <2>1, EnterHolds
  <2> QED BY <1>8, <2>1, <2>2 DEF Serving, Interrupted
<1>10. /\ hart' \in Harts
       /\ hart'.pc = cause /\ hart'.sp = <<p, 2>> /\ hart'.sscratch = Null
       /\ hart'.mode = "S" /\ hart'.spp = "U"
       /\ hart'.s = p /\ hart'.t = p /\ hart'.a = p
  <2>1. hart' = [hart EXCEPT !.spp = "U", !.mode = "S", !.pc = cause, !.sp = <<p, 2>>,
                             !.sscratch = Null, !.t = p, !.s = p, !.a = p]
    <3>1. Down(<<p, 1>>) = <<p, 2>>
      BY <1>3 DEF Down, TrapAssumption
    <3>2. InUser /\ hart.mode = "U"
      BY <1>1, <1>4 DEF InUser, InProgram
    <3> QED BY <1>2, <1>3, <1>6, <1>7, <3>1, <3>2 DEF Enter, SscratchInKernel
  <2>2. cause \in Labels /\ <<p, 2>> \in Addrs /\ Null \in Addrs /\ p \in Tokens
    BY <1>3, NullAddr, PlaceAddr DEF Labels, Tokens
  <2> QED BY <1>3, <2>1, <2>2 DEF Harts, Modes
<1>11. /\ program' \in [Tasks -> Cells] /\ program'[p] = code
       /\ \A q \in Tasks : q # p => program'[q] = program[q]
  BY <1>3, <1>5, <1>6 DEF TypeOK
<1>12. UNCHANGED <<current, thread, state, pending>>
  BY <1>6 DEF Enter
<1>13. TypeOK'
  BY <1>3, <1>9, <1>10, <1>11, <1>12 DEF TypeOK, Becomes
<1>14. Running(p)'
  <2>1. InHandler(p)'
    BY <1>3, <1>9, <1>10, <1>11 DEF InHandler, OwnAll, OwnS, Becomes
  <2> QED BY <1>10, <2>1 DEF Running
<1>15. Runnable' = Runnable /\ Runnable \subseteq Tasks
  BY <1>12 DEF Runnable
<1> QED BY <1>2, <1>5, <1>9, <1>11, <1>12, <1>13, <1>14, <1>15, OneRuns DEF Becomes

\* Only the hart has changed.
LEMMA StayIInv ==
    ASSUME IInv, NEW p \in Runnable, p = current, hart' \in Harts, pending' \in BOOLEAN,
           UNCHANGED <<current, stack, thread, state, program, frames>>, Running(p)'
    PROVE  IInv'
<1>1. TypeOK'
  BY DEF IInv, TypeOK
<1>2. Runnable' = Runnable
  BY DEF Runnable
<1>3. Held(p, frames'[p], stack') /\ program'[p].pc \in UserPc
  BY DEF IInv, Backed
<1> QED BY <1>1, <1>2, <1>3, OneRuns

\* The hart has changed, and the stack of who runs.
LEMMA MoveIInv ==
    ASSUME IInv, NEW p \in Runnable, p = current, NEW fs, Becomes(p, fs), hart' \in Harts,
           UNCHANGED <<current, thread, state, pending, program>>, Running(p)'
    PROVE  IInv'
<1>1. TypeOK'
  BY DEF IInv, TypeOK, Becomes
<1>2. Runnable' = Runnable /\ Runnable \subseteq Tasks
  BY DEF Runnable
<1>3. program'[p].pc \in UserPc
  BY DEF IInv, Backed
<1>4. \A q \in Runnable : q # p =>
        /\ stack'[q] = stack[q] /\ thread'[q] = thread[q]
        /\ frames'[q] = frames[q] /\ program'[q] = program[q]
  BY <1>2 DEF Becomes
<1>5. Held(p, frames'[p], stack')
  BY DEF Becomes
<1> QED BY <1>1, <1>2, <1>3, <1>4, <1>5, OneRuns

LEMMA NestedFaultIInv == ASSUME TrapAssumption, IInv, NestedFault PROVE IInv'
<1>1. hart.pc = "call" /\ hart.pc \notin UserPc
  BY LabelsApart DEF NestedFault, Labels
<1>2. PICK p \in Runnable : p = current
  BY <1>1, RunsFor
<1>3. /\ p \in Tasks /\ Running(p) /\ hart \in Harts /\ TypeOK /\ program[p] \in Cells
      /\ Held(p, frames[p], stack) /\ KernelOf(p) = p
  BY <1>1, <1>2, RunsFor DEF IInv, TypeOK
<1> DEFINE f == program[p]
<1>4. InCall(p) /\ hart.mode = "S" /\ hart.spp = "U"
  BY <1>1, <1>3 DEF Running, InProgram, AtStart, InHandler, InSchedule, OnTheWayBack, InNested
<1>5. PICK x \in Faults :
         /\ frames[p] = Calling(p, f, x[1]) /\ hart.sp = <<p, x[1]>>
         /\ Down(TrapStack(Registers(hart))) = <<p, x[2]>>
  <2>1. Registers(hart).sp = hart.sp
    BY DEF Registers
  <2>2. \A n \in Nat : Down(<<p, n>>) = <<p, n + 1>> /\ <<p, n>> # Null
    BY <1>3 DEF Down, Null, TrapAssumption
  <2>3. <<3, 4>> \in Faults /\ <<3, 5>> \in Faults /\ <<4, 5>> \in Faults
    BY DEF Faults
  <2>4. CASE frames[p] = Within(p, f, "finish") /\ hart.sp = <<p, 3>>
    <3>1. CASE hart.sscratch \in {Null, <<p, 3>>}
      <4>1. TrapStack(Registers(hart)) = <<p, 3>>
        BY <2>1, <2>4, <3>1 DEF TrapStack
      <4>2. frames[p] = Calling(p, f, 3)
        BY <2>4 DEF Calling
      <4> QED BY <2>2, <2>3, <2>4, <4>1, <4>2
    <3>2. CASE hart.sscratch = <<p, 4>>
      <4>1. TrapStack(Registers(hart)) = <<p, 4>>
        BY <2>2, <3>2 DEF TrapStack
      <4>2. frames[p] = Calling(p, f, 3)
        BY <2>4 DEF Calling
      <4> QED BY <2>2, <2>3, <2>4, <4>1, <4>2
    <3>3. hart.sscratch \in {Null, <<p, 3>>, <<p, 4>>}
      BY <1>4 DEF InCall
    <3> QED BY <3>1, <3>2, <3>3
  <2>5. CASE /\ frames[p] = Deeper(p, f) /\ hart.sp = <<p, 4>>
             /\ hart.sscratch \in {Null, <<p, 4>>}
    <3>1. TrapStack(Registers(hart)) = <<p, 4>>
      BY <2>1, <2>5 DEF TrapStack
    <3>2. frames[p] = Calling(p, f, 4)
      BY <2>5 DEF Calling
    <3> QED BY <2>2, <2>3, <2>5, <3>1, <3>2
  <2> QED BY <1>4, <2>4, <2>5 DEF InCall
<1>6. PICK n \in {3, 4}, d \in {4, 5} : n = x[1] /\ d = x[2] /\ n < d
  BY DEF Faults
<1>7. Registers(hart) = KernelCell(p, n) /\ KernelCell(p, n) \in Cells
  <2>1. KernelCell(p, n) \in Cells
    BY <1>3, <1>6, FaultChain
  <2> QED BY <1>1, <1>3, <1>4, <1>5, <1>6, <2>1
          DEF Registers, KernelCell, InCall, OwnAll, OwnS
<1>8. Enter(KernelCell(p, n), "fault") /\ program' = program
  BY <1>7 DEF NestedFault
<1>9. Becomes(p, Nesting(p, f, n, d))
  <2>1. /\ n \in Nat /\ d \in 1 .. DEPTH /\ d + 1 \in 1 .. DEPTH /\ n < d
    BY <1>6, SmallDepth
  <2>2. Tip(p, frames[p]) = <<p, n>>
    <3>1. Tip(p, Calling(p, f, x[1])) = <<p, x[1]>>
      BY <1>3, FaultChain
    <3>2. frames[p] = Calling(p, f, x[1]) /\ n = x[1]
      BY <1>5, <1>6
    <3> QED BY <3>1, <3>2
  <2>3. Down(TrapStack(KernelCell(p, n))) = <<p, d>>
    BY <1>5, <1>6, <1>7
  <2>4. Becomes(p, Pushed(Pushed(frames[p], <<p, d>>, KernelCell(p, n)),
                          <<p, d + 1>>, Call("signal", <<p, d>>)))
    BY <1>2, <1>3, <1>7, <1>8, <2>1, <2>2, <2>3, EnterHolds
  <2> QED BY <1>5, <1>6, <2>4 DEF Nesting, Faulted
<1>10. /\ hart' \in Harts /\ hart'.pc = "fault" /\ hart'.sp = <<p, d + 1>>
       /\ hart'.mode = "S" /\ hart'.spp = "S"
  <2>1. hart' = [hart EXCEPT !.spp = "S", !.mode = "S", !.pc = "fault", !.sp = <<p, d + 1>>,
                             !.sscratch = Null, !.t = Nested, !.s = Nested, !.a = Nested]
    <3>1. Down(<<p, d>>) = <<p, d + 1>>
      BY <1>3, <1>6 DEF Down, TrapAssumption
    <3>2. ~InUser /\ hart.mode = "S"
      BY <1>1, <1>4 DEF InUser
    <3>3. Down(TrapStack(KernelCell(p, n))) = <<p, d>>
      BY <1>5, <1>6, <1>7
    <3> QED BY <1>8, <3>1, <3>2, <3>3 DEF Enter, SscratchInKernel
  <2>2. "fault" \in Labels /\ <<p, d + 1>> \in Addrs /\ Null \in Addrs /\ Nested \in Tokens
    BY <1>3, <1>6, NullAddr, PlaceAddr DEF Labels, Tokens
  <2> QED BY <1>3, <2>1, <2>2 DEF Harts, Modes
<1>11. Running(p)'
  <2>1. InNested(p)'
    BY <1>6, <1>8, <1>9, <1>10 DEF InNested, Becomes
  <2> QED BY <1>10, <2>1 DEF Running
<1> QED BY <1>2, <1>8, <1>9, <1>10, <1>11, MoveIInv DEF Enter

LEMMA LeaveIInv == ASSUME TrapAssumption, IInv, Leave PROVE IInv'
<1>1. hart.pc = "leave" /\ hart.pc \notin UserPc
  BY LabelsApart DEF Leave, Labels
<1>2. PICK p \in Runnable : p = current
  BY <1>1, RunsFor
<1>3. /\ p \in Tasks /\ Running(p) /\ hart \in Harts /\ program[p] \in Cells
      /\ program[p].pc \in UserPc /\ Held(p, frames[p], stack) /\ KernelOf(p) = p
  BY <1>1, <1>2, RunsFor DEF IInv, TypeOK
<1> DEFINE f == program[p]
<1>4. /\ stack' = Stored(stack, hart.sp, Blank) /\ frames' = Pops(current)
      /\ UNCHANGED <<current, thread, state, pending, program>>
  BY DEF Leave
<1>5. ASSUME NEW cell \in Cells, NEW n \in Nat, Top = cell, Up(hart.sp) = <<p, n>>,
             cell.pc \in Labels \cup UserPc
      PROVE  /\ hart' \in Harts
             /\ hart'.mode = hart.spp /\ hart'.spp = "U" /\ hart'.sscratch = <<p, n>>
             /\ Registers(hart') = cell
  <2>1. hart' = [hart EXCEPT !.mode = hart.spp, !.spp = "U", !.pc = cell.pc, !.sp = cell.sp,
                             !.sscratch = <<p, n>>, !.t = cell.t, !.s = cell.s, !.a = cell.a]
    BY <1>3, <1>5 DEF Leave, Sret, Harts
  <2>2. <<p, n>> \in Addrs
    BY <1>3, PlaceAddr
  <2>3. hart' \in Harts
    BY <1>3, <1>5, <2>1, <2>2 DEF Harts, Modes, Cells
  <2>4. Registers(hart') = [pc |-> cell.pc, sp |-> cell.sp, t |-> cell.t, s |-> cell.s,
                            a |-> cell.a]
    BY <1>3, <2>1 DEF Registers, Harts
  <2>5. cell = [pc |-> cell.pc, sp |-> cell.sp, t |-> cell.t, s |-> cell.s, a |-> cell.a]
    BY DEF Cells
  <2> QED BY <1>3, <2>1, <2>3, <2>4, <2>5 DEF Harts
<1>6. CASE OnTheWayBack(p) /\ hart.mode = "S" /\ hart.spp = "U"
  <2>1. Extends(frames[p], <<>>, <<p, 1>>, f) /\ <<>> \in Seq(Entries)
    BY <1>3, <1>6, Chain DEF OnTheWayBack
  <2>2. hart.sp = <<p, 1>> /\ 1 \in 1 .. DEPTH
    BY <1>6, SmallDepth DEF OnTheWayBack
  <2>3. Top = f /\ Up(hart.sp) = <<p, 1 - 1>> /\ Becomes(p, <<>>)
    BY <1>2, <1>3, <1>4, <2>1, <2>2, PopHolds
  <2>4. /\ hart' \in Harts /\ hart'.mode = "U" /\ hart'.spp = "U"
        /\ hart'.sscratch = <<p, 0>> /\ Registers(hart') = f
    BY <1>3, <1>5, <1>6, <2>3
  <2>5. hart'.pc = f.pc
    BY <2>4 DEF Registers
  <2>6. InProgram(p)'
    BY <1>3, <1>4, <2>3, <2>4, <2>5 DEF InProgram, Becomes, Registers
  <2> QED BY <1>2, <1>4, <2>3, <2>4, <2>6, MoveIInv DEF Running
<1>7. CASE InNested(p) /\ hart.mode = "S" /\ hart.spp = "S"
  <2>1. PICK x \in Faults : /\ frames[p] = Faulted(p, f, x[1], x[2])
                            /\ hart.sp = <<p, x[2]>>
    BY <1>1, <1>7 DEF InNested
  <2>2. /\ Calling(p, f, x[1]) \in Seq(Entries)
        /\ KernelCell(p, x[1]) \in Cells
        /\ Extends(Faulted(p, f, x[1], x[2]), Calling(p, f, x[1]), <<p, x[2]>>,
                   KernelCell(p, x[1]))
    BY <1>3, FaultChain
  <2>3. PICK n \in {3, 4}, d \in {4, 5} : /\ n = x[1] /\ d = x[2]
                                          /\ <<n, d>> \in {<<3, 4>>, <<3, 5>>, <<4, 5>>}
    BY DEF Faults
  <2>4. d \in 1 .. DEPTH /\ d - 1 \in Nat
    BY SmallDepth
  <2>5. /\ Calling(p, f, n) \in Seq(Entries) /\ KernelCell(p, n) \in Cells
        /\ Extends(frames[p], Calling(p, f, n), <<p, d>>, KernelCell(p, n))
        /\ hart.sp = <<p, d>>
    BY <2>1, <2>2, <2>3
  <2>6. Top = KernelCell(p, n) /\ Up(hart.sp) = <<p, d - 1>> /\ Becomes(p, Calling(p, f, n))
    BY <1>2, <1>3, <1>4, <2>4, <2>5, PopHolds
  <2>7. KernelCell(p, n).pc \in Labels
    BY DEF KernelCell, Labels
  <2>8. /\ hart' \in Harts /\ hart'.mode = "S" /\ hart'.spp = "U"
        /\ hart'.sscratch = <<p, d - 1>> /\ Registers(hart') = KernelCell(p, n)
    BY <1>5, <1>7, <2>4, <2>5, <2>6, <2>7
  <2>9. /\ hart'.pc = "call" /\ hart'.sp = <<p, n>>
        /\ hart'.t = p /\ hart'.s = p /\ hart'.a = p
    BY <1>3, <2>8 DEF Registers, KernelCell
  <2>10. frames'[p] = Calling(p, program'[p], n)
    BY <1>4, <2>6 DEF Becomes
  <2>11. InCall(p)'
    <3>1. OwnAll(p)'
      BY <1>3, <2>9 DEF OwnAll, OwnS, KernelOf
    <3>2. CASE n = 3
      <4>1. d - 1 \in {3, 4}
        BY <2>3
      <4> QED BY <2>8, <2>9, <2>10, <3>1, <3>2, <4>1 DEF InCall, Calling
    <3>3. CASE n = 4
      <4>1. d - 1 = 4
        BY <2>3, <3>3
      <4> QED BY <2>8, <2>9, <2>10, <3>1, <3>3, <4>1 DEF InCall, Calling
    <3> QED BY <3>2, <3>3
  <2>12. Running(p)'
    BY <2>8, <2>11 DEF Running
  <2> QED BY <1>2, <1>4, <2>6, <2>8, <2>12, MoveIInv
<1> QED BY <1>1, <1>3, <1>6, <1>7
        DEF Running, InProgram, AtStart, InHandler, InSchedule, InCall

LEMMA DummyIInv == ASSUME TrapAssumption, IInv, Dummy PROVE IInv'
<1>1. hart.pc = "__dummy" /\ hart.pc \notin UserPc
  BY LabelsApart DEF Dummy, Labels
<1>2. PICK p \in Runnable : p = current
  BY <1>1, RunsFor
<1>3. /\ p \in Tasks /\ Running(p) /\ hart \in Harts /\ pending \in BOOLEAN
      /\ program[p].pc \in UserPc
  BY <1>1, <1>2, RunsFor DEF IInv, TypeOK
<1>4. AtStart(p) /\ hart.mode = "S" /\ hart.spp = "U"
  BY <1>1, <1>3 DEF Running, InProgram, InHandler, InSchedule, InCall, OnTheWayBack, InNested
<1>5. hart.sepc = program[p].pc
  BY <1>4 DEF AtStart, Registers
<1>6. hart' = [hart EXCEPT !.mode = "U", !.spp = "U", !.pc = hart.sepc, !.sp = hart.sscratch,
                           !.sscratch = <<p, 0>>, !.sepc = Junk]
  BY <1>3, <1>4 DEF Dummy, Sret, AtStart, Harts
<1>7. <<p, 0>> \in Addrs
  BY <1>3, PlaceAddr
<1>8. hart' \in Harts
  BY <1>3, <1>5, <1>6, <1>7 DEF Harts, Modes
<1>9. InProgram(p)'
  <2>1. /\ hart'.pc = hart.sepc /\ hart'.sp = hart.sscratch /\ hart'.sscratch = <<p, 0>>
        /\ hart'.t = hart.t /\ hart'.s = hart.s /\ hart'.a = hart.a /\ hart'.mode = "U"
    BY <1>3, <1>6 DEF Harts
  <2>2. frames'[p] = <<>> /\ program'[p] = program[p]
    BY <1>4 DEF AtStart, Dummy
  <2>3. Registers(hart') = program[p]
    BY <1>4, <2>1 DEF Registers, AtStart
  <2> QED BY <1>3, <1>5, <2>1, <2>2, <2>3 DEF InProgram
<1> QED BY <1>2, <1>3, <1>8, <1>9, StayIInv DEF Running, Dummy

LEMMA ScheduleSameIInv == ASSUME TrapAssumption, IInv, ScheduleSame PROVE IInv'
<1>1. hart.pc = "schedule" /\ hart.pc \notin UserPc
  BY LabelsApart DEF ScheduleSame, Labels
<1>2. PICK p \in Runnable : p = current
  BY DEF ScheduleSame
<1>3. Running(p) /\ hart \in Harts /\ pending \in BOOLEAN
  BY <1>2 DEF IInv, Places, TypeOK
<1>4. InSchedule(p) /\ hart.mode = "S" /\ hart.spp = "U"
  BY <1>1, <1>3 DEF Running, InProgram, AtStart, InHandler, InCall, OnTheWayBack, InNested
<1>5. /\ hart' \in Harts /\ hart'.pc = "return" /\ hart'.sp = hart.sp /\ hart'.s = hart.s
      /\ hart'.mode = "S" /\ hart'.spp = "U"
  BY <1>3, <1>4 DEF ScheduleSame, Harts, Labels
<1>6. InSchedule(p)'
  BY <1>4, <1>5 DEF InSchedule, OwnS, ScheduleSame
<1> QED BY <1>2, <1>3, <1>5, <1>6, StayIInv DEF Running, ScheduleSame

LEMMA ScheduleIInv ==
    ASSUME TrapAssumption, IInv, NEW q \in Tasks, Schedule(q)
    PROVE  IInv'
<1>1. hart.pc = "schedule" /\ hart.pc \notin UserPc /\ q \in Runnable /\ q # current
  BY LabelsApart DEF Schedule, Labels
<1>2. TypeOK /\ hart \in Harts /\ thread[q] \in Contexts
  BY DEF IInv, TypeOK
<1>3. hart.mode = "S" /\ hart.spp = "U" /\ (current \in Runnable => InSchedule(current))
  <2>1. CASE current \in Runnable
    <3>1. Running(current)
      BY <2>1 DEF IInv, Places
    <3> QED BY <1>1, <3>1 DEF Running, InProgram, AtStart, InHandler, InCall, OnTheWayBack,
                              InNested
  <2>2. CASE current \notin Runnable
    BY <2>2 DEF IInv, Places
  <2> QED BY <2>1, <2>2
<1>4. /\ UNCHANGED <<stack, state, pending, program, frames>>
      /\ current' = q /\ Runnable' = Runnable
  BY DEF Schedule, Runnable
<1> DEFINE ctx == [ra |-> "return", sp |-> hart.sp, s |-> hart.s, sepc |-> hart.sepc,
                   spp |-> "U", sscratch |-> hart.sscratch]
<1>5. ctx \in Contexts
  BY <1>2 DEF Contexts, Harts, Labels
<1>6. Used(thread[q]) \in Contexts
  BY <1>2, NullAddr DEF Used, Contexts, Tokens
<1>7. /\ thread' \in [Tasks \cup {Idle} -> Contexts]
      /\ thread'[current] = ctx
      /\ \A r \in Tasks : r \notin {q, current} => thread'[r] = thread[r]
  <2>1. thread' = [thread EXCEPT ![current] = ctx, ![q] = Used(@)]
    BY <1>3 DEF Schedule, Context
  <2> HIDE DEF ctx
  <2> QED BY <1>1, <1>2, <1>5, <1>6, <2>1 DEF TypeOK
<1>8. /\ hart' \in Harts /\ hart'.mode = "S" /\ hart'.spp = "U"
      /\ hart'.pc = thread[q].ra /\ hart'.sp = thread[q].sp /\ hart'.s = thread[q].s
      /\ hart'.sepc = thread[q].sepc /\ hart'.sscratch = thread[q].sscratch
      /\ hart'.t = Junk /\ hart'.a = Junk
  <2> DEFINE c == thread[q]
  <2>1. c.ra \in Labels
    BY <1>1 DEF IInv, Places, Waiting, Labels
  <2>2. hart' = [hart EXCEPT !.pc = c.ra, !.sp = c.sp, !.s = c.s, !.sepc = c.sepc,
                             !.spp = c.spp, !.sscratch = c.sscratch, !.t = Junk, !.a = Junk]
    BY <1>2 DEF Schedule, Switched, Loaded, Harts
  <2> HIDE DEF c
  <2>3. c \in Contexts
    BY <1>2 DEF c
  <2> QED BY <1>2, <1>3, <2>1, <2>2, <2>3 DEF Harts, Contexts, Modes, Tokens, c
<1>9. TypeOK'
  BY <1>2, <1>4, <1>7, <1>8 DEF TypeOK
<1>10. Running(q)'
  <2>1. Waiting(q)
    BY <1>1 DEF IInv, Places
  <2>2. AtStart(q)' \/ OnTheWayBack(q)' \/ InSchedule(q)'
    BY <1>4, <1>8, <2>1 DEF Waiting, AtStart, OnTheWayBack, InSchedule, OwnS
  <2> QED BY <1>8, <2>2 DEF Running
<1>11. ASSUME NEW r \in Runnable, r # q
       PROVE  Waiting(r)'
  <2>1. CASE r = current
    <3>1. InSchedule(r)
      BY <1>3, <2>1
    <3>2. /\ thread'[r].ra = "return" /\ thread'[r].sp = hart.sp /\ thread'[r].s = hart.s
      BY <1>7, <2>1
    <3> QED BY <1>4, <3>1, <3>2 DEF InSchedule, Waiting, OwnS
  <2>2. CASE r # current
    <3>1. Waiting(r) /\ thread'[r] = thread[r]
      BY <1>7, <1>11, <2>2 DEF IInv, Places, Runnable
    <3> QED BY <1>4, <3>1 DEF Waiting
  <2> QED BY <2>1, <2>2
<1>12. Places'
  BY <1>1, <1>4, <1>10, <1>11 DEF Places
<1>13. Backed'
  BY <1>4 DEF IInv, Backed
<1> QED BY <1>9, <1>12, <1>13 DEF IInv

LEMMA SignalNoneIInv == ASSUME TrapAssumption, IInv, SignalNone PROVE IInv'
<1>1. hart.pc = "signal" /\ hart.pc \notin UserPc
  BY LabelsApart DEF SignalNone, Labels
<1>2. PICK p \in Runnable : p = current
  BY <1>1, RunsFor
<1>3. Running(p) /\ hart \in Harts
  BY <1>1, <1>2, RunsFor DEF IInv, TypeOK
<1>4. /\ hart' \in Harts /\ hart'.pc = "leave" /\ hart'.sp = hart.sp
      /\ hart'.mode = hart.mode /\ hart'.spp = hart.spp
  BY <1>3 DEF SignalNone, Harts, Labels
<1>5. CASE OnTheWayBack(p) /\ hart.mode = "S" /\ hart.spp = "U"
  <2>1. OnTheWayBack(p)'
    BY <1>4, <1>5 DEF OnTheWayBack, SignalNone
  <2> QED BY <1>2, <1>4, <1>5, <2>1, StayIInv DEF Running, SignalNone
<1>6. CASE InNested(p) /\ hart.mode = "S" /\ hart.spp = "S"
  <2>1. InNested(p)'
    BY <1>1, <1>4, <1>6 DEF InNested, SignalNone
  <2> QED BY <1>2, <1>4, <1>6, <2>1, StayIInv DEF Running, SignalNone
<1> QED BY <1>1, <1>3, <1>5, <1>6
        DEF Running, InProgram, AtStart, InHandler, InSchedule, InCall

LEMMA HandledIInv == ASSUME TrapAssumption, IInv, Handled PROVE IInv'
<1>1. hart.pc \in {"timer", "fault"} /\ hart.pc \notin UserPc
  BY LabelsApart DEF Handled, Labels
<1>2. PICK p \in Runnable : p = current
  BY <1>1, RunsFor
<1>3. Running(p) /\ hart \in Harts /\ pending \in BOOLEAN
  BY <1>1, <1>2, RunsFor DEF IInv, TypeOK
<1>4. /\ hart' \in Harts /\ hart'.pc = "return" /\ hart'.sp = hart.sp
      /\ hart'.mode = hart.mode /\ hart'.spp = hart.spp
  BY <1>3 DEF Handled, Harts, Labels
<1>5. CASE InHandler(p) /\ hart.mode = "S" /\ hart.spp = "U"
  <2>1. InHandler(p)'
    BY <1>4, <1>5 DEF InHandler, Handled
  <2> QED BY <1>2, <1>3, <1>4, <1>5, <2>1, StayIInv DEF Running, Handled
<1>6. CASE InNested(p) /\ hart.mode = "S" /\ hart.spp = "S"
  <2>1. InNested(p)'
    BY <1>1, <1>4, <1>6 DEF InNested, Handled
  <2> QED BY <1>2, <1>3, <1>4, <1>6, <2>1, StayIInv DEF Running, Handled
<1> QED BY <1>1, <1>3, <1>5, <1>6
        DEF Running, InProgram, AtStart, OnTheWayBack, InSchedule, InCall

\* The hart runs a handler for p, which has called nothing.
Serves(p) ==
    /\ p = current /\ p \in Tasks /\ KernelOf(p) = p
    /\ InHandler(p) /\ hart.mode = "S" /\ hart.spp = "U" /\ hart.sp = <<p, 2>>
    /\ hart \in Harts /\ program[p] \in Cells /\ program[p].pc \in UserPc
    /\ frames[p] = Serving(p, program[p]) /\ Serving(p, program[p]) \in Seq(Entries)
    /\ Held(p, frames[p], stack) /\ Tip(p, frames[p]) = <<p, 2>>

LEMMA HandlerServes ==
    ASSUME TrapAssumption, IInv, hart.pc \in {"timer", "ecall", "syscall", "finish"}
    PROVE  \E p \in Runnable : Serves(p)
<1>1. hart.pc \notin UserPc /\ hart.pc # "schedule"
  BY LabelsApart DEF Labels
<1>2. PICK p \in Runnable : p = current
  BY <1>1, RunsFor
<1>3. /\ p \in Tasks /\ Running(p) /\ hart \in Harts /\ KernelOf(p) = p
      /\ program[p] \in Cells /\ program[p].pc \in UserPc /\ Held(p, frames[p], stack)
  BY <1>1, <1>2, RunsFor DEF IInv, TypeOK
<1>4. InHandler(p) /\ hart.mode = "S" /\ hart.spp = "U"
  BY <1>1, <1>3
     DEF Running, InProgram, AtStart, OnTheWayBack, InSchedule, InCall, InNested
<1>5. frames[p] = Serving(p, program[p]) /\ hart.sp = <<p, 2>>
  BY <1>4 DEF InHandler
<1>6. Extends(Serving(p, program[p]), Interrupted(p, program[p]), <<p, 2>>,
              Call("signal", <<p, 1>>))
  BY <1>3, Chain
<1>7. Tip(p, Serving(p, program[p])) = <<p, 2>>
  BY <1>6, ExtendsTip
<1>8. Serving(p, program[p]) \in Seq(Entries)
  BY <1>6 DEF Extends
<1> QED BY <1>2, <1>3, <1>4, <1>5, <1>7, <1>8 DEF Serves

\* p, in a handler, calls a function that returns to label.
LEMMA HandlerCalls ==
    ASSUME TrapAssumption, IInv, NEW p \in Runnable, Serves(p), NEW pc \in Labels,
           NEW label \in Labels, Calls(pc, Call(label, Null))
    PROVE  /\ hart' \in Harts /\ hart' = [hart EXCEPT !.pc = pc, !.sp = <<p, 3>>]
           /\ Becomes(p, Within(p, program[p], label))
<1>1. /\ p \in Tasks /\ p = current /\ Held(p, frames[p], stack)
      /\ Tip(p, frames[p]) = <<p, 2>> /\ hart.sp = <<p, 2>> /\ hart \in Harts
      /\ frames[p] = Serving(p, program[p])
  BY DEF Serves
<1>2. 2 \in 0 .. DEPTH - 1 /\ 2 + 1 = 3
  BY DEF TrapAssumption
<1>3. /\ stack' \in Stacks /\ frames' \in [Tasks -> Seq(Entries)]
      /\ hart' = [hart EXCEPT !.pc = pc, !.sp = <<p, 2 + 1>>]
      /\ frames'[p] = Pushed(frames[p], <<p, 2 + 1>>, Call(label, Null))
      /\ Held(p, frames'[p], stack')
      /\ \A q \in Tasks : q # p => stack'[q] = stack[q] /\ frames'[q] = frames[q]
  BY <1>1, <1>2, CallHolds
<1>4. hart' = [hart EXCEPT !.pc = pc, !.sp = <<p, 3>>]
  BY <1>2, <1>3
<1>5. frames'[p] = Within(p, program[p], label)
  BY <1>1, <1>2, <1>3 DEF Within
<1>6. Becomes(p, Within(p, program[p], label))
  BY <1>3, <1>5 DEF Becomes
<1>7. <<p, 3>> \in Addrs
  BY <1>1, PlaceAddr
<1>8. hart' \in Harts
  BY <1>1, <1>4, <1>7 DEF Harts
<1> QED BY <1>4, <1>6, <1>8

LEMMA TimerSchedulesIInv == ASSUME TrapAssumption, IInv, TimerSchedules PROVE IInv'
<1>1. PICK p \in Runnable : Serves(p)
  BY HandlerServes DEF TimerSchedules
<1>2. "schedule" \in Labels /\ "return" \in Labels
  BY DEF Labels
<1>3. /\ hart' \in Harts /\ hart' = [hart EXCEPT !.pc = "schedule", !.sp = <<p, 3>>]
      /\ Becomes(p, Within(p, program[p], "return"))
  BY <1>1, <1>2, HandlerCalls DEF TimerSchedules
<1>4. Running(p)'
  <2>1. /\ hart'.pc = "schedule" /\ hart'.sp = <<p, 3>> /\ hart'.mode = "S"
        /\ hart'.spp = "U"
    BY <1>1, <1>3 DEF Serves, Harts
  <2>2. InSchedule(p)'
    BY <1>3, <2>1 DEF InSchedule, Becomes, TimerSchedules
  <2> QED BY <2>1, <2>2 DEF Running
<1>5. p = current
  BY <1>1 DEF Serves
<1> QED BY <1>3, <1>4, <1>5, MoveIInv DEF TimerSchedules

LEMMA TouchIInv == ASSUME TrapAssumption, IInv, Touch PROVE IInv'
<1>1. PICK p \in Runnable : Serves(p)
  BY HandlerServes DEF Touch
<1>2. "call" \in Labels /\ "finish" \in Labels
  BY DEF Labels
<1>3. /\ hart' \in Harts /\ hart' = [hart EXCEPT !.pc = "call", !.sp = <<p, 3>>]
      /\ Becomes(p, Within(p, program[p], "finish"))
  BY <1>1, <1>2, HandlerCalls DEF Touch
<1>4. OwnAll(p) /\ hart.sscratch = Null
  BY <1>1 DEF Serves, InHandler, Touch
<1>5. Running(p)'
  <2>1. /\ hart'.pc = "call" /\ hart'.sp = <<p, 3>> /\ hart'.mode = "S"
        /\ hart'.spp = "U" /\ hart'.sscratch = Null
        /\ hart'.s = hart.s /\ hart'.t = hart.t /\ hart'.a = hart.a
    BY <1>1, <1>3, <1>4 DEF Serves, Harts
  <2>2. OwnAll(p)'
    BY <1>4, <2>1 DEF OwnAll, OwnS, KernelOf
  <2>3. frames'[p] = Within(p, program'[p], "finish")
    BY <1>3 DEF Becomes, Touch
  <2>4. InCall(p)'
    BY <2>1, <2>2, <2>3 DEF InCall, Null
  <2> QED BY <2>1, <2>4 DEF Running
<1>6. p = current
  BY <1>1 DEF Serves
<1> QED BY <1>3, <1>5, <1>6, MoveIInv DEF Touch

LEMMA WaitIInv == ASSUME TrapAssumption, IInv, Wait PROVE IInv'
<1>1. PICK p \in Runnable : Serves(p)
  BY HandlerServes DEF Wait
<1>2. "schedule" \in Labels /\ "finish" \in Labels
  BY DEF Labels
<1>3. /\ hart' \in Harts /\ hart' = [hart EXCEPT !.pc = "schedule", !.sp = <<p, 3>>]
      /\ Becomes(p, Within(p, program[p], "finish"))
  BY <1>1, <1>2, HandlerCalls DEF Wait
<1>4. Running(p)'
  <2>1. /\ hart'.pc = "schedule" /\ hart'.sp = <<p, 3>> /\ hart'.mode = "S"
        /\ hart'.spp = "U" /\ hart'.s = hart.s
    BY <1>1, <1>3 DEF Serves, Harts
  <2>2. OwnS(p)'
    BY <1>1, <2>1 DEF Serves, InHandler, OwnAll, OwnS, KernelOf, Wait
  <2>3. InSchedule(p)'
    BY <1>3, <2>1, <2>2 DEF InSchedule, Becomes, Wait
  <2> QED BY <2>1, <2>3 DEF Running
<1>5. p = current
  BY <1>1 DEF Serves
<1> QED BY <1>3, <1>4, <1>5, MoveIInv DEF Wait

LEMMA TouchDeeperIInv == ASSUME TrapAssumption, IInv, TouchDeeper PROVE IInv'
<1>1. PICK p \in Runnable : Serves(p)
  BY HandlerServes DEF TouchDeeper
<1>2. /\ p \in Tasks /\ p = current /\ Held(p, frames[p], stack)
      /\ Tip(p, frames[p]) = <<p, 2>> /\ hart.sp = <<p, 2>> /\ hart \in Harts
      /\ frames[p] = Serving(p, program[p]) /\ frames[p] \in Seq(Entries)
      /\ hart.mode = "S" /\ hart.spp = "U" /\ TypeOK
  BY <1>1 DEF Serves, IInv
<1>3. OwnAll(p) /\ hart.sscratch = Null
  BY <1>1 DEF Serves, InHandler, TouchDeeper
<1>4. Down(hart.sp) = <<p, 3>> /\ Down(Down(hart.sp)) = <<p, 3 + 1>>
  BY <1>2 DEF Down, TrapAssumption
<1>5. Call("finish", Null) \in Cells /\ Call("call", Null) \in Cells
  BY NullAddr, CallCell DEF Labels
<1>6. /\ stack' = Stored(Stored(stack, <<p, 3>>, Call("finish", Null)), <<p, 3 + 1>>,
                         Call("call", Null))
      /\ frames' = [frames EXCEPT ![p] =
                      Pushed(Pushed(frames[p], <<p, 3>>, Call("finish", Null)),
                             <<p, 3 + 1>>, Call("call", Null))]
      /\ hart' = [hart EXCEPT !.pc = "call", !.sp = <<p, 3 + 1>>]
  BY <1>2, <1>4 DEF TouchDeeper, TypeOK
<1>7. 3 \in 1 .. DEPTH /\ 3 + 1 \in 1 .. DEPTH /\ 2 < 3 /\ 2 \in Nat /\ 3 + 1 = 4
  BY SmallDepth
<1>8. Becomes(p, Pushed(Pushed(frames[p], <<p, 3>>, Call("finish", Null)),
                        <<p, 3 + 1>>, Call("call", Null)))
  BY <1>2, <1>5, <1>6, <1>7, PushTwo
<1>9. Becomes(p, Deeper(p, program[p]))
  BY <1>2, <1>7, <1>8 DEF Deeper, Within
<1>10. /\ hart' \in Harts /\ hart'.pc = "call" /\ hart'.sp = <<p, 4>>
       /\ hart'.mode = "S" /\ hart'.spp = "U" /\ hart'.sscratch = Null
       /\ hart'.s = hart.s /\ hart'.t = hart.t /\ hart'.a = hart.a
  <2>1. <<p, 4>> \in Addrs
    BY <1>2, PlaceAddr
  <2> QED BY <1>2, <1>3, <1>6, <1>7, <2>1 DEF Harts, Labels
<1>11. Running(p)'
  <2>1. OwnAll(p)'
    BY <1>3, <1>10 DEF OwnAll, OwnS, KernelOf
  <2>2. frames'[p] = Deeper(p, program'[p])
    BY <1>9 DEF Becomes, TouchDeeper
  <2>3. InCall(p)'
    BY <1>10, <2>1, <2>2 DEF InCall, Null
  <2> QED BY <1>10, <2>3 DEF Running
<1> QED BY <1>2, <1>9, <1>10, <1>11, MoveIInv DEF TouchDeeper

LEMMA SelfWrites ==
    ASSUME NEW stk \in Stacks, NEW p \in Tasks, NEW n \in 1 .. DEPTH
    PROVE  Writes(stk, stk, p, n, stk[p][n])
BY DEF Writes

\* The frame of the program, in cell 1, is rewritten while a handler runs.
LEMMA ServingRewritten ==
    ASSUME TrapAssumption, NEW p \in Tasks, NEW f \in Cells, NEW g \in Cells,
           NEW stk \in Stacks, NEW stk2, Held(p, Serving(p, f), stk),
           Writes(stk2, stk, p, 1, g)
    PROVE  /\ stk[p][1] = f /\ stk[p][2] = Call("signal", <<p, 1>>)
           /\ Held(p, Serving(p, g), stk2)
<1> DEFINE call == Call("signal", <<p, 1>>)
<1>1. 1 \in 1 .. DEPTH /\ 2 \in 1 .. DEPTH /\ 0 \in Nat /\ 1 \in Nat /\ 0 < 1 /\ 1 < 2
  BY SmallDepth
<1>2. /\ <<>> \in Seq(Entries)
      /\ Extends(Interrupted(p, f), <<>>, <<p, 1>>, f)
      /\ Extends(Serving(p, f), Interrupted(p, f), <<p, 2>>, call)
      /\ Extends(Interrupted(p, g), <<>>, <<p, 1>>, g)
      /\ Extends(Serving(p, g), Interrupted(p, g), <<p, 2>>, call)
  BY Chain
<1> HIDE DEF call
<1>3. Interrupted(p, f) \in Seq(Entries) /\ Interrupted(p, g) \in Seq(Entries)
  BY <1>2 DEF Extends
<1>4. Writes(stk, stk, p, 2, stk[p][2]) /\ Writes(stk, stk, p, 1, stk[p][1])
  BY <1>1, SelfWrites
<1>5. stk[p][2] = call /\ Held(p, Interrupted(p, f), stk)
  BY <1>1, <1>2, <1>3, <1>4, HeldPop
<1>6. stk[p][1] = f /\ Held(p, <<>>, stk)
  <2>1. PICK none \in Seq(Entries) : none = <<>>
    BY <1>2
  <2>2. Extends(Interrupted(p, f), none, <<p, 1>>, f)
    BY <1>2, <2>1
  <2>3. stk[p][1] = f /\ Held(p, none, stk)
    BY <1>1, <1>4, <1>5, <2>2, HeldPop
  <2> QED BY <2>1, <2>3
<1>7. Held(p, Interrupted(p, g), stk2) /\ Tip(p, Interrupted(p, g)) = <<p, 1>>
  <2>1. PICK none \in Seq(Entries) : none = <<>>
    BY <1>2
  <2>2. Tip(p, none) = <<p, 0>> /\ Held(p, none, stk)
    BY <1>6, <2>1 DEF Tip
  <2>3. Extends(Interrupted(p, g), none, <<p, 1>>, g)
    BY <1>2, <2>1
  <2> QED BY <1>1, <2>2, <2>3, HeldPush
<1>8. stk2 \in Stacks /\ stk2[p][2] = call
  BY <1>1, <1>5 DEF Writes
<1>9. Writes(stk2, stk2, p, 2, call)
  BY <1>1, <1>8, SelfWrites
<1>10. Held(p, Serving(p, g), stk2)
  BY <1>1, <1>2, <1>3, <1>7, <1>9, HeldPush
<1> QED BY <1>5, <1>6, <1>10 DEF call

LEMMA FirstFrames ==
    ASSUME NEW p \in Tasks, NEW f \in Cells
    PROVE  /\ Interrupted(p, f) \in Seq(Entries) /\ Len(Interrupted(p, f)) = 1
           /\ Interrupted(p, f)[1] = [at |-> <<p, 1>>, cell |-> f]
           /\ Serving(p, f) \in Seq(Entries) /\ Len(Serving(p, f)) = 2
           /\ Serving(p, f)[1] = [at |-> <<p, 1>>, cell |-> f]
           /\ Serving(p, f)[2] = [at |-> <<p, 2>>, cell |-> Call("signal", <<p, 1>>)]
<1>1. /\ Extends(Interrupted(p, f), <<>>, <<p, 1>>, f)
      /\ Extends(Serving(p, f), Interrupted(p, f), <<p, 2>>, Call("signal", <<p, 1>>))
  BY Chain
<1>2. Len(<<>>) = 0
  OBVIOUS
<1>3. /\ Interrupted(p, f) \in Seq(Entries) /\ Len(Interrupted(p, f)) = 1
      /\ Interrupted(p, f)[1] = [at |-> <<p, 1>>, cell |-> f]
  BY <1>1, <1>2 DEF Extends
<1>4. /\ Serving(p, f) \in Seq(Entries) /\ Len(Serving(p, f)) = 2
      /\ Serving(p, f)[1] = Interrupted(p, f)[1]
      /\ Serving(p, f)[2] = [at |-> <<p, 2>>, cell |-> Call("signal", <<p, 1>>)]
  BY <1>1, <1>3 DEF Extends
<1> QED BY <1>3, <1>4

LEMMA ExceptFirst ==
    ASSUME NEW s \in Seq(Entries), NEW t \in Seq(Entries), NEW e \in Entries,
           1 \in 1 .. Len(s), Len(s) = Len(t), t[1] = e,
           \A j \in 1 .. Len(s) : j # 1 => s[j] = t[j]
    PROVE  [s EXCEPT ![1] = e] = t
<1> DEFINE r == [s EXCEPT ![1] = e]
<1>1. /\ r \in Seq(Entries) /\ Len(r) = Len(s)
      /\ \A j \in 1 .. Len(s) : r[j] = IF j = 1 THEN e ELSE s[j]
  BY ExceptSeq
<1> HIDE DEF r
<1>2. \A j \in 1 .. Len(r) : r[j] = t[j]
  BY <1>1
<1>3. r = t
  BY <1>1, <1>2, SeqEqual
<1> QED BY <1>3 DEF r

\* The histories are rewritten with the frame.
LEMMA FirstExcept ==
    ASSUME NEW p \in Tasks, NEW f \in Cells, NEW g \in Cells
    PROVE  /\ [Serving(p, f) EXCEPT ![1].cell = g] = Serving(p, g)
           /\ [Interrupted(p, f) EXCEPT ![1].cell = g] = Interrupted(p, g)
<1> DEFINE e(c) == [at |-> <<p, 1>>, cell |-> c]
<1>1. e(g) \in Entries /\ [e(f) EXCEPT !.cell = g] = e(g)
  BY PlaceAddr DEF Entries
<1> HIDE DEF e
<1>2. /\ Interrupted(p, f) \in Seq(Entries) /\ Len(Interrupted(p, f)) = 1
      /\ Interrupted(p, f)[1] = e(f)
      /\ Serving(p, f) \in Seq(Entries) /\ Len(Serving(p, f)) = 2
      /\ Serving(p, f)[1] = e(f)
      /\ Serving(p, f)[2] = [at |-> <<p, 2>>, cell |-> Call("signal", <<p, 1>>)]
  BY FirstFrames DEF e
<1>3. /\ Interrupted(p, g) \in Seq(Entries) /\ Len(Interrupted(p, g)) = 1
      /\ Interrupted(p, g)[1] = e(g)
      /\ Serving(p, g) \in Seq(Entries) /\ Len(Serving(p, g)) = 2
      /\ Serving(p, g)[1] = e(g)
      /\ Serving(p, g)[2] = [at |-> <<p, 2>>, cell |-> Call("signal", <<p, 1>>)]
  BY FirstFrames DEF e
<1>4. [Serving(p, f) EXCEPT ![1] = e(g)] = Serving(p, g)
  <2>1. 1 \in 1 .. Len(Serving(p, f)) /\ Len(Serving(p, f)) = Len(Serving(p, g))
    BY <1>2, <1>3
  <2>2. \A j \in 1 .. Len(Serving(p, f)) : j # 1 => Serving(p, f)[j] = Serving(p, g)[j]
    BY <1>2, <1>3
  <2> QED BY <1>1, <1>2, <1>3, <2>1, <2>2, ExceptFirst
<1>5. [Interrupted(p, f) EXCEPT ![1] = e(g)] = Interrupted(p, g)
  <2>1. 1 \in 1 .. Len(Interrupted(p, f)) /\ Len(Interrupted(p, f)) = Len(Interrupted(p, g))
    BY <1>2, <1>3
  <2>2. \A j \in 1 .. Len(Interrupted(p, f)) :
          j # 1 => Interrupted(p, f)[j] = Interrupted(p, g)[j]
    BY <1>2, <1>3
  <2> QED BY <1>1, <1>2, <1>3, <2>1, <2>2, ExceptFirst
<1>6. /\ [Serving(p, f) EXCEPT ![1].cell = g]
            = [Serving(p, f) EXCEPT ![1] = [Serving(p, f)[1] EXCEPT !.cell = g]]
      /\ [Interrupted(p, f) EXCEPT ![1].cell = g]
            = [Interrupted(p, f) EXCEPT ![1] = [Interrupted(p, f)[1] EXCEPT !.cell = g]]
  OBVIOUS
<1> QED BY <1>1, <1>2, <1>4, <1>5, <1>6

\* The frame at regs is rewritten.
LEMMA WriteFrameHolds ==
    ASSUME TrapAssumption, IInv, NEW p \in Runnable, Serves(p)
    PROVE  /\ regs = <<p, 1>> /\ At(regs) = program[p]
           /\ \A g \in Cells : g.pc \in UserPc /\ WriteFrame(g) =>
                /\ Becomes(p, Serving(p, g))
                /\ program' \in [Tasks -> Cells] /\ program'[p] = g
                /\ \A q \in Tasks : q # p => program'[q] = program[q]
<1>1. /\ p \in Tasks /\ p = current /\ Held(p, Serving(p, program[p]), stack)
      /\ hart.sp = <<p, 2>> /\ frames[p] = Serving(p, program[p])
      /\ program[p] \in Cells /\ stack \in Stacks /\ TypeOK
  BY DEF Serves, IInv, TypeOK
<1>2. 1 \in 1 .. DEPTH /\ 2 \in 1 .. DEPTH
  BY SmallDepth
<1>3. stack[p][1] = program[p] /\ stack[p][2] = Call("signal", <<p, 1>>)
  BY <1>1, <1>2, SelfWrites, ServingRewritten DEF Stacks
<1>4. regs = <<p, 1>>
  <2>1. Top = Call("signal", <<p, 1>>)
    BY <1>1, <1>2, <1>3, CellAddr DEF Top, At
  <2> QED BY <2>1 DEF regs, Call, Blank
<1>5. At(regs) = program[p]
  BY <1>1, <1>2, <1>3, <1>4, CellAddr DEF At
<1>6. ASSUME NEW g \in Cells, g.pc \in UserPc, WriteFrame(g)
      PROVE  /\ Becomes(p, Serving(p, g))
             /\ program' \in [Tasks -> Cells] /\ program'[p] = g
             /\ \A q \in Tasks : q # p => program'[q] = program[q]
  <2>1. Writes(stack', stack, p, 1, g)
    BY <1>1, <1>2, <1>4, <1>6, StoredWrites DEF WriteFrame
  <2>2. Held(p, Serving(p, g), stack')
    BY <1>1, <2>1, ServingRewritten
  <2>3. frames' = [frames EXCEPT ![p] = Serving(p, g)] /\ Serving(p, g) \in Seq(Entries)
    <3>1. frames' = [frames EXCEPT ![p] = [frames[p] EXCEPT ![1].cell = g]]
      BY <1>1, <1>6 DEF WriteFrame, TypeOK
    <3>2. [frames[p] EXCEPT ![1].cell = g] = Serving(p, g)
      BY <1>1, FirstExcept
    <3>3. Serving(p, g) \in Seq(Entries)
      BY <1>1, FirstFrames
    <3> QED BY <3>1, <3>2, <3>3
  <2>4. /\ frames' \in [Tasks -> Seq(Entries)] /\ frames'[p] = Serving(p, g)
        /\ \A q \in Tasks : q # p => frames'[q] = frames[q]
    BY <1>1, <2>3, FramesOfOne
  <2>5. Becomes(p, Serving(p, g))
    BY <2>1, <2>2, <2>4 DEF Becomes, Writes
  <2>6. /\ program' \in [Tasks -> Cells] /\ program'[p] = g
        /\ \A q \in Tasks : q # p => program'[q] = program[q]
    BY <1>1, <1>6 DEF WriteFrame, TypeOK
  <2> QED BY <2>5, <2>6
<1> QED BY <1>4, <1>5, <1>6

\* The hart has changed, and the stack and the registers of who runs.
LEMMA RewriteIInv ==
    ASSUME IInv, NEW p \in Runnable, p = current, NEW fs, Becomes(p, fs), hart' \in Harts,
           program' \in [Tasks -> Cells], program'[p].pc \in UserPc,
           \A q \in Tasks : q # p => program'[q] = program[q],
           UNCHANGED <<current, thread, state, pending>>, Running(p)'
    PROVE  IInv'
<1>1. TypeOK'
  BY DEF IInv, TypeOK, Becomes
<1>2. Runnable' = Runnable /\ Runnable \subseteq Tasks
  BY DEF Runnable
<1>3. \A q \in Runnable : q # p =>
        /\ stack'[q] = stack[q] /\ thread'[q] = thread[q]
        /\ frames'[q] = frames[q] /\ program'[q] = program[q]
  BY <1>2 DEF Becomes
<1>4. Held(p, frames'[p], stack')
  BY DEF Becomes
<1> QED BY <1>1, <1>2, <1>3, <1>4, OneRuns

LEMMA EcallIInv == ASSUME TrapAssumption, IInv, Ecall PROVE IInv'
<1>1. PICK p \in Runnable : Serves(p)
  BY HandlerServes DEF Ecall
<1>2. /\ p \in Tasks /\ p = current /\ hart \in Harts /\ hart.mode = "S" /\ hart.spp = "U"
      /\ hart.sp = <<p, 2>> /\ program[p] \in Cells
  BY <1>1 DEF Serves
<1>3. OwnAll(p) /\ hart.sscratch = Null
  BY <1>1 DEF Serves, InHandler, Ecall
<1>4. PICK g \in Cells : g.pc \in UserPc /\ g = [program[p] EXCEPT !.pc = Behind]
  BY <1>2 DEF Cells, UserPc
<1>5. At(regs) = program[p]
  BY <1>1, WriteFrameHolds
<1>6. WriteFrame(g)
  BY <1>4, <1>5 DEF Ecall
<1>7. /\ Becomes(p, Serving(p, g))
      /\ program' \in [Tasks -> Cells] /\ program'[p] = g
      /\ \A q \in Tasks : q # p => program'[q] = program[q]
  BY <1>1, <1>4, <1>6, WriteFrameHolds
<1>8. /\ hart' \in Harts /\ hart'.pc = "syscall" /\ hart'.sp = <<p, 2>>
      /\ hart'.mode = "S" /\ hart'.spp = "U" /\ hart'.sscratch = Null
      /\ hart'.s = hart.s /\ hart'.t = hart.t /\ hart'.a = hart.a
  BY <1>2, <1>3 DEF Ecall, Harts, Labels
<1>9. Running(p)'
  <2>1. OwnAll(p)'
    BY <1>3, <1>8 DEF OwnAll, OwnS, KernelOf
  <2>2. frames'[p] = Serving(p, program'[p])
    BY <1>7 DEF Becomes
  <2>3. InHandler(p)'
    BY <1>8, <2>1, <2>2 DEF InHandler, Null
  <2> QED BY <1>8, <2>3 DEF Running
<1> QED BY <1>2, <1>4, <1>7, <1>8, <1>9, RewriteIInv DEF Ecall

LEMMA FinishIInv == ASSUME TrapAssumption, IInv, Finish PROVE IInv'
<1>1. PICK p \in Runnable : Serves(p)
  BY HandlerServes DEF Finish
<1>2. /\ p \in Tasks /\ p = current /\ hart \in Harts /\ hart.mode = "S" /\ hart.spp = "U"
      /\ hart.sp = <<p, 2>> /\ program[p] \in Cells /\ program[p].pc \in UserPc
  BY <1>1 DEF Serves
<1>3. PICK g \in Cells : g.pc \in UserPc /\ g = [program[p] EXCEPT !.a = Result]
  BY <1>2 DEF Cells, Tokens
<1>4. At(regs) = program[p]
  BY <1>1, WriteFrameHolds
<1>5. WriteFrame(g)
  BY <1>3, <1>4 DEF Finish
<1>6. /\ Becomes(p, Serving(p, g))
      /\ program' \in [Tasks -> Cells] /\ program'[p] = g
      /\ \A q \in Tasks : q # p => program'[q] = program[q]
  BY <1>1, <1>3, <1>5, WriteFrameHolds
<1>7. /\ hart' \in Harts /\ hart'.pc = "return" /\ hart'.sp = <<p, 2>>
      /\ hart'.mode = "S" /\ hart'.spp = "U"
  BY <1>2 DEF Finish, Harts, Labels
<1>8. Running(p)'
  <2>1. frames'[p] = Serving(p, program'[p])
    BY <1>6 DEF Becomes
  <2>2. InHandler(p)'
    BY <1>7, <2>1 DEF InHandler
  <2> QED BY <1>7, <2>2 DEF Running
<1> QED BY <1>2, <1>3, <1>6, <1>7, <1>8, RewriteIInv DEF Finish

\* A task on its way back has one frame, which is on top.
LEMMA OnlyFrame ==
    ASSUME TrapAssumption, TypeOK, NEW p \in Tasks, NEW f \in Cells,
           Held(p, Interrupted(p, f), stack), hart.sp = <<p, 1>>
    PROVE  Top = f
<1>1. 1 \in 1 .. DEPTH /\ stack \in Stacks
  BY SmallDepth DEF TypeOK
<1>2. PICK none \in Seq(Entries) : none = <<>>
  BY EmptySeq
<1>3. Extends(Interrupted(p, f), none, <<p, 1>>, f)
  BY <1>2, Chain
<1>4. Writes(stack, stack, p, 1, stack[p][1])
  BY <1>1, SelfWrites
<1>5. stack[p][1] = f
  BY <1>1, <1>3, <1>4, HeldPop
<1> QED BY <1>1, <1>5, CellAddr DEF Top, At

\* signal_handler takes the child away and finds a frame below it.
LEMMA FreeLeaves ==
    ASSUME TypeOK, NEW q \in Zombies, Free(q)
    PROVE  /\ q \in Tasks /\ q \notin Runnable /\ Runnable' = Runnable
           /\ state' \in [Tasks -> {"running", "zombie", "null"}]
           /\ thread' \in [Tasks \cup {Idle} -> Contexts]
           /\ \A r \in Runnable : thread'[r] = thread[r]
<1>1. q \in Tasks /\ q \notin Runnable
  BY DEF Zombies, Runnable
<1>2. /\ state' \in [Tasks -> {"running", "zombie", "null"}]
  BY <1>1 DEF Free, TypeOK
<1>3. Runnable' = Runnable
  BY <1>1 DEF Free, TypeOK, Runnable
<1>4. Fresh(q, Junk) \in Contexts
  <2>1. <<q, 0>> \in Addrs /\ <<User, Start>> \in Addrs
    BY <1>1, PlaceAddr, TrapAssumption DEF TrapAssumption, Addrs, UserPc
  <2> QED BY <2>1, TrapAssumption DEF TrapAssumption, Fresh, Contexts, Labels, UserPc, Tokens
<1> DEFINE c == Fresh(q, Junk)
<1>5. thread' = [thread EXCEPT ![q] = c]
  BY DEF Free
<1> HIDE DEF c
<1>6. /\ thread' \in [Tasks \cup {Idle} -> Contexts]
      /\ \A r \in Runnable : thread'[r] = thread[r]
  BY <1>1, <1>4, <1>5 DEF TypeOK, Runnable, c
<1> QED BY <1>1, <1>2, <1>3, <1>6

LEMMA SignalReapNestedIInv ==
    ASSUME TrapAssumption, IInv, NEW q \in Tasks, SignalReapNested(q)
    PROVE  IInv'
<1>1. hart.pc = "signal" /\ hart.pc \notin UserPc
  BY LabelsApart DEF SignalReapNested, Labels
<1>2. PICK p \in Runnable : p = current
  BY <1>1, RunsFor
<1>3. /\ p \in Tasks /\ Running(p) /\ hart \in Harts /\ TypeOK /\ program[p] \in Cells
      /\ program[p].pc \in UserPc /\ Held(p, frames[p], stack)
  BY <1>1, <1>2, RunsFor DEF IInv, TypeOK
<1>4. q \in Zombies /\ Free(q)
  BY DEF SignalReapNested
<1>5. ~OnTheWayBack(p)
  <2>1. SUFFICES ASSUME OnTheWayBack(p) PROVE FALSE
    OBVIOUS
  <2>2. frames[p] = Interrupted(p, program[p]) /\ hart.sp = <<p, 1>>
    BY <2>1 DEF OnTheWayBack
  <2>3. Top = program[p]
    BY <1>3, <2>2, OnlyFrame
  <2> QED BY <1>3, <2>3 DEF SignalReapNested
<1>6. InNested(p) /\ hart.mode = "S" /\ hart.spp = "S"
  BY <1>1, <1>3, <1>5 DEF Running, InProgram, AtStart, InHandler, InSchedule, InCall
<1>7. /\ hart' \in Harts /\ hart'.pc = "lost" /\ hart'.sp = hart.sp
      /\ hart'.mode = "S" /\ hart'.spp = "S"
  BY <1>3, <1>6 DEF SignalReapNested, Harts, Labels
<1>8. UNCHANGED <<current, stack, program, frames>> /\ pending' \in BOOLEAN
  BY DEF SignalReapNested
<1>9. Running(p)'
  <2>1. InNested(p)'
    BY <1>1, <1>6, <1>7, <1>8 DEF InNested
  <2> QED BY <1>7, <2>1 DEF Running
<1>10. /\ Runnable' = Runnable
       /\ state' \in [Tasks -> {"running", "zombie", "null"}]
       /\ thread' \in [Tasks \cup {Idle} -> Contexts]
       /\ \A r \in Runnable : thread'[r] = thread[r]
  BY <1>3, <1>4, FreeLeaves
<1>11. TypeOK'
  BY <1>3, <1>7, <1>8, <1>10 DEF TypeOK
<1>12. Held(p, frames'[p], stack') /\ program'[p].pc \in UserPc
  BY <1>3, <1>8
<1> QED BY <1>2, <1>8, <1>9, <1>10, <1>11, <1>12, OneRuns

LEMMA SignalReapIInv ==
    ASSUME TrapAssumption, IInv, NEW q \in Tasks, SignalReap(q)
    PROVE  IInv'
<1>1. hart.pc = "signal" /\ hart.pc \notin UserPc /\ Top.pc \in UserPc
  BY LabelsApart DEF SignalReap, Labels
<1>2. PICK p \in Runnable : p = current
  BY <1>1, RunsFor
<1>3. /\ p \in Tasks /\ Running(p) /\ hart \in Harts /\ TypeOK /\ program[p] \in Cells
      /\ program[p].pc \in UserPc /\ Held(p, frames[p], stack)
  BY <1>1, <1>2, RunsFor DEF IInv, TypeOK
<1>4. q \in Zombies /\ Free(q)
  BY DEF SignalReap
<1>5. ~InNested(p)
  <2>1. SUFFICES ASSUME InNested(p) PROVE FALSE
    OBVIOUS
  <2>2. PICK x \in Faults : /\ frames[p] = Faulted(p, program[p], x[1], x[2])
                            /\ hart.sp = <<p, x[2]>>
    BY <1>1, <2>1 DEF InNested
  <2>3. /\ Calling(p, program[p], x[1]) \in Seq(Entries)
        /\ Extends(frames[p], Calling(p, program[p], x[1]), <<p, x[2]>>,
                   KernelCell(p, x[1]))
    <3>1. /\ Calling(p, program[p], x[1]) \in Seq(Entries)
          /\ Extends(Faulted(p, program[p], x[1], x[2]), Calling(p, program[p], x[1]),
                     <<p, x[2]>>, KernelCell(p, x[1]))
      BY <1>3, FaultChain
    <3> QED BY <2>2, <3>1
  <2>4. PICK d \in 1 .. DEPTH : d = x[2]
    BY SmallDepth DEF Faults
  <2>5. Top = KernelCell(p, x[1])
    <3>1. Writes(stack, stack, p, d, stack[p][d])
      BY <1>3, SelfWrites DEF TypeOK
    <3>2. stack[p][d] = KernelCell(p, x[1])
      BY <1>3, <2>3, <2>4, <3>1, HeldPop
    <3> QED BY <1>3, <2>2, <2>4, <3>2, CellAddr DEF Top, At
  <2>6. KernelCell(p, x[1]).pc = "call"
    BY DEF KernelCell
  <2> QED BY <1>1, <2>5, <2>6, LabelsApart DEF Labels
<1>6. OnTheWayBack(p) /\ hart.mode = "S" /\ hart.spp = "U"
  BY <1>1, <1>3, <1>5 DEF Running, InProgram, AtStart, InHandler, InSchedule, InCall
<1>7. frames[p] = Interrupted(p, program[p]) /\ hart.sp = <<p, 1>>
  BY <1>6 DEF OnTheWayBack
<1>8. Top = program[p]
  BY <1>3, <1>7, OnlyFrame
<1>9. PICK g \in Cells : g.pc \in UserPc /\ g = Reaped(program[p])
  BY <1>3 DEF Cells, Tokens, Reaped
<1>10. /\ stack' = Stored(Stored(stack, <<p, 1>>, g), <<p, 1 + 1>>, Call("leave", Null))
       /\ frames' = [frames EXCEPT ![p] =
                       Pushed(Pushed(<<>>, <<p, 1>>, g), <<p, 1 + 1>>, Call("leave", Null))]
       /\ program' = [program EXCEPT ![p] = g]
       /\ hart' = [hart EXCEPT !.pc = "schedule", !.sp = <<p, 2>>]
  <2>1. Down(hart.sp) = <<p, 2>> /\ 1 + 1 = 2
    BY <1>3, <1>7 DEF Down, TrapAssumption
  <2>2. program' = [program EXCEPT ![p] = g]
    BY <1>2, <1>3, <1>9 DEF SignalReap, TypeOK
  <2>3. /\ stack' = Stored(Stored(stack, <<p, 1>>, g), <<p, 1 + 1>>, Call("leave", Null))
        /\ hart' = [hart EXCEPT !.pc = "schedule", !.sp = <<p, 2>>]
    BY <1>3, <1>7, <1>8, <1>9, <2>1 DEF SignalReap, Harts
  <2>4. frames' = [frames EXCEPT ![p] =
                     Pushed([Interrupted(p, program[p]) EXCEPT ![1].cell = g],
                            <<p, 2>>, Call("leave", Null))]
    <3>1. /\ Len(Interrupted(p, program[p])) = 1
          /\ Interrupted(p, program[p])[1] = [at |-> <<p, 1>>, cell |-> program[p]]
      BY <1>3, FirstFrames, ZenonT(60)
    <3>2. Interrupted(p, program[p])[1].cell = program[p]
      BY <3>1
    <3> DEFINE fs == frames[p]
               gs == [fs EXCEPT ![Len(fs)].cell = Reaped(fs[Len(fs)].cell)]
    <3>3. frames' = [frames EXCEPT ![p] = Pushed(gs, <<p, 2>>, Call("leave", Null))]
      BY <1>2, <1>3, <2>1 DEF SignalReap, TypeOK
    <3>4. gs = [Interrupted(p, program[p]) EXCEPT ![1].cell = g]
      BY <1>7, <1>9, <3>1, <3>2
    <3> QED BY <3>3, <3>4
  <2>5. [Interrupted(p, program[p]) EXCEPT ![1].cell = g] = Interrupted(p, g)
    BY <1>3, FirstExcept
  <2> QED BY <2>1, <2>2, <2>3, <2>4, <2>5 DEF Interrupted
<1>11. Becomes(p, Reaping(p, g))
  <2>1. PICK none \in Seq(Entries) : none = <<>>
    BY EmptySeq
  <2>2. Tip(p, none) = <<p, 0>> /\ Held(p, none, stack)
    BY <2>1 DEF Tip, Held
  <2>3. 0 \in Nat /\ 1 \in 1 .. DEPTH /\ 0 < 1 /\ 1 + 1 \in 1 .. DEPTH /\ 1 + 1 = 2
    BY SmallDepth
  <2>4. Call("leave", Null) \in Cells
    BY NullAddr, CallCell DEF Labels
  <2>5. frames' = [frames EXCEPT ![p] =
                     Pushed(Pushed(none, <<p, 1>>, g), <<p, 1 + 1>>, Call("leave", Null))]
    BY <1>10, <2>1
  <2>6. Becomes(p, Pushed(Pushed(none, <<p, 1>>, g), <<p, 1 + 1>>, Call("leave", Null)))
    BY <1>3, <1>10, <2>2, <2>3, <2>4, <2>5, PushTwo
  <2> QED BY <2>1, <2>3, <2>6 DEF Reaping, Interrupted
<1>12. /\ program' \in [Tasks -> Cells] /\ program'[p] = g
       /\ \A r \in Tasks : r # p => program'[r] = program[r]
  BY <1>3, <1>10 DEF TypeOK
<1>13. /\ hart' \in Harts /\ hart'.pc = "schedule" /\ hart'.sp = <<p, 2>>
       /\ hart'.mode = "S" /\ hart'.spp = "U"
  <2>1. <<p, 2>> \in Addrs
    BY <1>3, PlaceAddr
  <2> QED BY <1>3, <1>6, <1>10, <2>1 DEF Harts, Labels
<1>14. Running(p)'
  <2>1. InSchedule(p)'
    BY <1>11, <1>12, <1>13 DEF InSchedule, Becomes
  <2> QED BY <1>13, <2>1 DEF Running
<1>15. /\ Runnable' = Runnable
       /\ state' \in [Tasks -> {"running", "zombie", "null"}]
       /\ thread' \in [Tasks \cup {Idle} -> Contexts]
       /\ \A r \in Runnable : thread'[r] = thread[r]
  BY <1>3, <1>4, FreeLeaves
<1>16. current' = current /\ pending' \in BOOLEAN
  BY DEF SignalReap
<1>17. TypeOK'
  BY <1>3, <1>11, <1>12, <1>13, <1>15, <1>16 DEF TypeOK, Becomes
<1>18. \A r \in Runnable : r # p =>
         /\ stack'[r] = stack[r] /\ thread'[r] = thread[r]
         /\ frames'[r] = frames[r] /\ program'[r] = program[r]
  BY <1>11, <1>12, <1>15 DEF Becomes, Runnable
<1>19. Held(p, frames'[p], stack') /\ program'[p].pc \in UserPc
  BY <1>9, <1>11, <1>12 DEF Becomes
<1> QED BY <1>2, <1>14, <1>15, <1>16, <1>17, <1>18, <1>19, OneRuns

LEMMA ForkIInv == ASSUME TrapAssumption, IInv, NEW c \in Tasks, Fork(c) PROVE IInv'
<1>1. PICK p \in Runnable : Serves(p)
  BY HandlerServes DEF Fork
<1>2. /\ p \in Tasks /\ p = current /\ hart \in Harts /\ hart.mode = "S" /\ hart.spp = "U"
      /\ hart.sp = <<p, 2>> /\ program[p] \in Cells /\ program[p].pc \in UserPc
      /\ frames[p] = Serving(p, program[p]) /\ TypeOK
  BY <1>1 DEF Serves, IInv
<1>3. OwnS(p)
  BY <1>1 DEF Serves, InHandler, OwnAll, Fork
<1>4. regs = <<p, 1>> /\ At(regs) = program[p]
  BY <1>1, WriteFrameHolds
<1>5. state[c] = "null" /\ c # p /\ c \notin Runnable
  BY <1>2 DEF Fork, Runnable
<1>6. PICK g \in Cells : g.pc \in UserPc /\ g = [program[p] EXCEPT !.a = Zero]
  BY <1>2 DEF Cells, Tokens
<1>7. /\ stack' = Stored([stack EXCEPT ![c] = stack[p]], <<c, 1>>, g)
      /\ frames' = [frames EXCEPT ![c] = Interrupted(c, g)]
      /\ program' = [program EXCEPT ![c] = g]
  BY <1>2, <1>4, <1>6 DEF Fork, RegsOfChild, Interrupted
<1>8. 1 \in 1 .. DEPTH /\ 0 \in Nat /\ 0 < 1
  BY SmallDepth
<1>9. /\ stack' \in Stacks /\ Held(c, Interrupted(c, g), stack')
      /\ \A q \in Tasks : q # c => stack'[q] = stack[q]
  <2> DEFINE stk == [stack EXCEPT ![c] = stack[p]]
  <2>1. stk \in Stacks /\ \A q \in Tasks : q # c => stk[q] = stack[q]
    BY <1>2 DEF TypeOK, Stacks
  <2> HIDE DEF stk
  <2>2. Writes(stack', stk, c, 1, g)
    <3>1. stack' = Stored(stk, <<c, 1>>, g)
      BY <1>7 DEF stk
    <3> QED BY <1>8, <2>1, <3>1, StoredWrites
  <2>3. PICK none \in Seq(Entries) : none = <<>>
    BY EmptySeq
  <2>4. Tip(c, none) = <<c, 0>> /\ Held(c, none, stk)
    BY <2>3 DEF Tip, Held
  <2>5. Extends(Interrupted(c, g), none, <<c, 1>>, g)
    BY <2>3, Chain
  <2>6. Held(c, Interrupted(c, g), stack')
    BY <1>8, <2>2, <2>4, <2>5, HeldPush
  <2>7. stack' \in Stacks /\ \A q \in Tasks : q # c => stack'[q] = stk[q]
    BY <2>2 DEF Writes
  <2> QED BY <2>1, <2>6, <2>7
<1>10. /\ frames' \in [Tasks -> Seq(Entries)] /\ frames'[c] = Interrupted(c, g)
       /\ \A q \in Tasks : q # c => frames'[q] = frames[q]
  <2>1. Interrupted(c, g) \in Seq(Entries)
    BY FirstFrames
  <2> QED BY <1>2, <1>7, <2>1, FramesOfOne
<1>11. /\ program' \in [Tasks -> Cells] /\ program'[c] = g
       /\ \A q \in Tasks : q # c => program'[q] = program[q]
  BY <1>2, <1>7 DEF TypeOK
<1>12. /\ thread' \in [Tasks \cup {Idle} -> Contexts]
       /\ thread'[c].ra = "signal" /\ thread'[c].sp = <<c, 1>>
       /\ \A q \in Tasks : q # c => thread'[q] = thread[q]
  <2> DEFINE old == thread[p]
             new == [old EXCEPT !.ra = "signal", !.sp = <<c, 1>>, !.sepc = g.pc]
  <2>1. thread' = [thread EXCEPT ![c] = new]
    <3>1. g.pc = program[p].pc
      BY <1>2, <1>6 DEF Cells
    <3> QED BY <1>2, <1>4, <3>1 DEF Fork, RegsOfChild
  <2>2. old \in Contexts
    BY <1>2 DEF TypeOK
  <2> HIDE DEF old
  <2>3. <<c, 1>> \in Addrs
    BY PlaceAddr
  <2>4. new \in Contexts /\ new.ra = "signal" /\ new.sp = <<c, 1>>
    BY <1>6, <2>2, <2>3 DEF Contexts, Labels
  <2> HIDE DEF new
  <2> QED BY <1>2, <2>1, <2>4 DEF TypeOK
<1>13. /\ state' \in [Tasks -> {"running", "zombie", "null"}]
       /\ current' = current /\ pending' \in BOOLEAN
       /\ Runnable' = Runnable \cup {c} /\ Runnable \subseteq Tasks
  <2>1. /\ state' = [state EXCEPT ![c] = "running"]
        /\ current' = current /\ pending' = FALSE
    BY <1>2 DEF Fork
  <2>2. /\ state' \in [Tasks -> {"running", "zombie", "null"}]
    BY <1>2, <2>1 DEF TypeOK
  <2>3. state'[c] = "running" /\ \A q \in Tasks : q # c => state'[q] = state[q]
    BY <1>2, <2>1 DEF TypeOK
  <2>4. Runnable' = Runnable \cup {c} /\ Runnable \subseteq Tasks
    BY <2>3 DEF Runnable
  <2> QED BY <2>1, <2>2, <2>4
<1>14. /\ hart' \in Harts /\ hart'.pc = "finish" /\ hart'.sp = <<p, 2>>
       /\ hart'.mode = "S" /\ hart'.spp = "U" /\ hart'.s = hart.s
  BY <1>2 DEF Fork, Harts, Labels
<1>15. TypeOK'
  BY <1>2, <1>9, <1>10, <1>11, <1>12, <1>13, <1>14 DEF TypeOK
<1>16. Running(p)'
  <2>1. OwnS(p)'
    BY <1>3, <1>14 DEF OwnS, KernelOf
  <2>2. frames'[p] = Serving(p, program'[p])
    BY <1>2, <1>5, <1>10, <1>11
  <2>3. InHandler(p)'
    BY <1>14, <2>1, <2>2 DEF InHandler
  <2> QED BY <1>14, <2>3 DEF Running
<1>17. ASSUME NEW q \in Runnable', q # p
       PROVE  Waiting(q)'
  <2>1. CASE q = c
    BY <1>10, <1>11, <1>12, <2>1 DEF Waiting
  <2>2. CASE q # c
    <3>1. /\ q \in Tasks /\ Waiting(q)
      BY <1>2, <1>13, <1>17, <2>2 DEF IInv, Places
    <3>2. thread'[q] = thread[q] /\ frames'[q] = frames[q] /\ program'[q] = program[q]
      BY <1>10, <1>11, <1>12, <2>2, <3>1
    <3> QED BY <3>1, <3>2 DEF Waiting
  <2> QED BY <2>1, <2>2
<1>18. Places'
  BY <1>2, <1>13, <1>16, <1>17 DEF Places
<1>19. ASSUME NEW q \in Runnable'
       PROVE  Held(q, frames'[q], stack') /\ program'[q].pc \in UserPc
  <2>1. CASE q = c
    BY <1>6, <1>9, <1>10, <1>11, <2>1
  <2>2. CASE q # c
    <3>1. q \in Tasks /\ Held(q, frames[q], stack) /\ program[q].pc \in UserPc
      BY <1>13, <2>2 DEF IInv, Backed
    <3>2. stack'[q] = stack[q] /\ frames'[q] = frames[q] /\ program'[q] = program[q]
      BY <1>9, <1>10, <1>11, <2>2, <3>1
    <3> QED BY <3>1, <3>2, HeldElsewhere
  <2> QED BY <2>1, <2>2
<1>20. Backed'
  BY <1>19 DEF Backed
<1> QED BY <1>15, <1>18, <1>20 DEF IInv

LEMMA StartAddr == ASSUME TrapAssumption PROVE <<User, Start>> \in Addrs /\ Start \in UserPc
BY DEF TrapAssumption, Addrs, UserPc

LEMMA NothingHeld == ASSUME NEW p, NEW stk PROVE Held(p, <<>>, stk)
BY DEF Held

LEMMA EmptyStackTyped == EmptyStack \in [1 .. DEPTH -> Cells]
BY BlankCell DEF EmptyStack

LEMMA ExecveIInv == ASSUME TrapAssumption, IInv, Execve PROVE IInv'
<1>1. PICK p \in Runnable : Serves(p)
  BY HandlerServes DEF Execve
<1>2. /\ p \in Tasks /\ p = current /\ hart \in Harts /\ hart.mode = "S" /\ TypeOK
  BY <1>1 DEF Serves, IInv
<1>3. /\ <<User, Start>> \in Addrs /\ Start \in UserPc /\ <<p, 0>> \in Addrs /\ Null \in Addrs
      /\ Zero \in Tokens /\ Junk \in Tokens
  BY <1>2, StartAddr, PlaceAddr, NullAddr DEF Tokens
<1>4. /\ thread' \in [Tasks \cup {Idle} -> Contexts]
      /\ \A q \in Tasks : q # p => thread'[q] = thread[q]
  <2> DEFINE r == Fresh(p, Zero)
             c == Used(r)
  <2>1. r \in Contexts
    BY <1>3 DEF Fresh, Contexts, Labels
  <2>2. thread' = [thread EXCEPT ![p] = c]
    BY <1>2 DEF Execve
  <2> HIDE DEF r
  <2>3. c \in Contexts
    BY <1>3, <2>1 DEF Used, Contexts
  <2> HIDE DEF c
  <2> QED BY <1>2, <2>2, <2>3 DEF TypeOK
<1>5. /\ hart' \in Harts /\ hart'.mode = "S" /\ hart'.spp = "U" /\ hart'.pc = "__dummy"
      /\ hart'.sp = <<p, 0>> /\ hart'.s = Zero /\ hart'.sepc = Start
      /\ hart'.sscratch = <<User, Start>> /\ hart'.t = hart.t /\ hart'.a = hart.a
  <2>1. hart' = [hart EXCEPT !.pc = "__dummy", !.sp = <<p, 0>>, !.s = Zero, !.sepc = Start,
                             !.spp = "U", !.sscratch = <<User, Start>>]
    BY <1>2 DEF Execve, Loaded, Fresh
  <2> QED BY <1>2, <1>3, <2>1 DEF Harts, Labels, Modes
<1>6. PICK g \in Cells :
         /\ g = [pc |-> Start, sp |-> <<User, Start>>, t |-> hart.t, s |-> Zero,
                 a |-> hart.a]
         /\ g.pc \in UserPc
  <2>1. hart.t \in Tokens /\ hart.a \in Tokens
    BY <1>2 DEF Harts
  <2>2. [pc |-> Start, sp |-> <<User, Start>>, t |-> hart.t, s |-> Zero, a |-> hart.a]
          \in Cells
    BY <1>3, <2>1 DEF Cells
  <2> QED BY <1>3, <2>2
<1>7. /\ program' \in [Tasks -> Cells] /\ program'[p] = g
      /\ \A q \in Tasks : q # p => program'[q] = program[q]
  <2>1. program' = [program EXCEPT ![p] = g]
    BY <1>2, <1>6 DEF Execve
  <2> QED BY <1>2, <2>1 DEF TypeOK
<1>8. /\ frames' \in [Tasks -> Seq(Entries)] /\ frames'[p] = <<>>
      /\ \A q \in Tasks : q # p => frames'[q] = frames[q]
  <2>1. PICK none \in Seq(Entries) : none = <<>>
    BY EmptySeq
  <2>2. frames' = [frames EXCEPT ![p] = none]
    BY <1>2, <2>1 DEF Execve
  <2> QED BY <1>2, <2>1, <2>2, FramesOfOne
<1>9. stack' \in Stacks /\ \A q \in Tasks : q # p => stack'[q] = stack[q]
  BY <1>2, EmptyStackTyped DEF Execve, TypeOK, Stacks
<1>10. UNCHANGED <<current, state, pending>>
  BY DEF Execve
<1>11. Becomes(p, <<>>)
  BY <1>8, <1>9, NothingHeld DEF Becomes
<1>12. Running(p)'
  <2>1. program'[p] = [pc |-> hart'.sepc, sp |-> hart'.sscratch, t |-> hart'.t,
                       s |-> hart'.s, a |-> hart'.a]
    BY <1>5, <1>6, <1>7
  <2>2. AtStart(p)'
    BY <1>5, <1>8, <2>1 DEF AtStart
  <2> QED BY <1>5, <2>2 DEF Running
<1>13. TypeOK'
  BY <1>2, <1>4, <1>5, <1>7, <1>8, <1>9, <1>10 DEF TypeOK
<1>14. Runnable' = Runnable /\ Runnable \subseteq Tasks
  BY <1>10 DEF Runnable
<1>15. \A q \in Runnable : q # p =>
         /\ stack'[q] = stack[q] /\ thread'[q] = thread[q]
         /\ frames'[q] = frames[q] /\ program'[q] = program[q]
  BY <1>4, <1>7, <1>8, <1>9, <1>14
<1>16. Held(p, frames'[p], stack') /\ program'[p].pc \in UserPc
  BY <1>6, <1>7, <1>8, NothingHeld
<1> QED BY <1>2, <1>10, <1>12, <1>13, <1>14, <1>15, <1>16, OneRuns

LEMMA ExitIInv == ASSUME TrapAssumption, IInv, Exit PROVE IInv'
<1>1. PICK p \in Runnable : Serves(p)
  BY HandlerServes DEF Exit
<1>2. /\ p \in Tasks /\ p = current /\ hart \in Harts /\ hart.mode = "S" /\ hart.spp = "U"
      /\ TypeOK
  BY <1>1 DEF Serves, IInv
<1>3. /\ program' \in [Tasks -> Cells]
      /\ \A q \in Tasks : q # p => program'[q] = program[q]
  BY <1>2, BlankCell DEF Exit, TypeOK
<1>4. /\ frames' \in [Tasks -> Seq(Entries)]
      /\ \A q \in Tasks : q # p => frames'[q] = frames[q]
  <2>1. PICK none \in Seq(Entries) : none = <<>>
    BY EmptySeq
  <2>2. frames' = [frames EXCEPT ![p] = none]
    BY <1>2, <2>1 DEF Exit
  <2> QED BY <1>2, <2>2, FramesOfOne
<1>5. stack' \in Stacks /\ \A q \in Tasks : q # p => stack'[q] = stack[q]
  BY <1>2, EmptyStackTyped DEF Exit, TypeOK, Stacks
<1>6. /\ hart' \in Harts /\ hart'.pc = "schedule" /\ hart'.mode = "S" /\ hart'.spp = "U"
  BY <1>2 DEF Exit, Harts, Labels
<1>7. UNCHANGED <<current, thread>> /\ pending' \in BOOLEAN
  BY DEF Exit
<1>8. /\ state' \in [Tasks -> {"running", "zombie", "null"}]
      /\ Runnable' = Runnable \ {p} /\ Runnable \subseteq Tasks
  BY <1>2 DEF Exit, TypeOK, Runnable
<1>10. TypeOK'
  BY <1>2, <1>3, <1>4, <1>5, <1>6, <1>7, <1>8 DEF TypeOK
<1>11. ASSUME NEW q \in Runnable'
       PROVE  Waiting(q)' /\ Held(q, frames'[q], stack') /\ program'[q].pc \in UserPc
  <2>1. q \in Tasks /\ q # p /\ Waiting(q) /\ Held(q, frames[q], stack)
        /\ program[q].pc \in UserPc
    BY <1>2, <1>8 DEF IInv, Places, Backed
  <2>2. /\ stack'[q] = stack[q] /\ thread'[q] = thread[q]
        /\ frames'[q] = frames[q] /\ program'[q] = program[q]
    BY <1>3, <1>4, <1>5, <1>7, <2>1
  <2>3. Waiting(q)'
    BY <2>1, <2>2 DEF Waiting
  <2> QED BY <2>1, <2>2, <2>3, HeldElsewhere
<1>12. Places'
  BY <1>2, <1>6, <1>7, <1>8, <1>11 DEF Places
<1>13. Backed'
  BY <1>11 DEF Backed
<1> QED BY <1>10, <1>12, <1>13 DEF IInv

LEMMA InitIInv == ASSUME TrapAssumption, Init PROVE IInv
<1>1. <<User, Start>> \in Addrs /\ Start \in UserPc /\ Null \in Addrs /\ Junk \in Tokens
  BY StartAddr, NullAddr DEF Tokens
<1>2. <<Idle, 0>> \in Addrs
  BY DEF Addrs
<1>3. hart \in Harts /\ hart.pc = "schedule" /\ hart.mode = "S" /\ hart.spp = "U"
  BY <1>1, <1>2 DEF Init, Harts, Modes, Labels
<1>4. thread \in [Tasks \cup {Idle} -> Contexts]
  <2>1. ASSUME NEW p \in Tasks \cup {Idle}
        PROVE  Fresh(p, Junk) \in Contexts
    <3>1. <<p, 0>> \in Addrs
      BY DEF Addrs
    <3> QED BY <1>1, <3>1 DEF Fresh, Contexts, Labels
  <2> QED BY <2>1 DEF Init
<1>5. program \in [Tasks -> Cells]
  <2>1. Blank \in Cells /\ [Blank EXCEPT !.pc = Start, !.sp = <<User, Start>>] \in Cells
    BY <1>1, BlankCell DEF Cells
  <2> DEFINE f == [Blank EXCEPT !.pc = Start, !.sp = <<User, Start>>]
  <2>2. program = [p \in Tasks |-> IF p = First THEN f ELSE Blank]
    BY DEF Init
  <2> HIDE DEF f
  <2> QED BY <2>1, <2>2 DEF f
<1>6. stack \in Stacks
  BY EmptyStackTyped DEF Init, Stacks
<1>7. frames \in [Tasks -> Seq(Entries)]
  BY EmptySeq DEF Init
<1>8. TypeOK
  BY <1>3, <1>4, <1>5, <1>6, <1>7 DEF Init, TypeOK
<1>9. Runnable = {First} /\ current = Idle /\ First \in Tasks /\ current \notin Runnable
  BY DEF Init, Runnable, TrapAssumption
<1>10. /\ program[First].pc = Start
       /\ program[First] = [pc |-> Start, sp |-> <<User, Start>>, t |-> Junk, s |-> Junk,
                            a |-> Junk]
  <2>1. program[First] = [Blank EXCEPT !.pc = Start, !.sp = <<User, Start>>]
    BY <1>9 DEF Init
  <2> HIDE DEF Init
  <2> QED BY <2>1 DEF Blank
<1>11. Waiting(First)
  <2>1. thread[First] = Fresh(First, Junk) /\ frames[First] = <<>>
    BY <1>9 DEF Init
  <2> QED BY <1>10, <2>1 DEF Waiting, Fresh
<1>12. Places
  BY <1>3, <1>9, <1>11 DEF Places
<1>13. Backed
  <2>1. frames[First] = <<>>
    BY <1>9 DEF Init
  <2> QED BY <1>1, <1>9, <1>10, <2>1, NothingHeld DEF Backed
<1> QED BY <1>8, <1>12, <1>13 DEF IInv

LEMMA StutterIInv == ASSUME IInv, UNCHANGED vars PROVE IInv'
<1>1. TypeOK' /\ Runnable' = Runnable
  BY DEF IInv, TypeOK, vars, Runnable
<1>2. Places'
  BY <1>1 DEF IInv, vars, Places, Running, Waiting, InProgram, AtStart, InHandler, InSchedule,
              InCall, OnTheWayBack, InNested, OwnS, OwnAll
<1>3. Backed'
  BY <1>1 DEF IInv, vars, Backed
<1> QED BY <1>1, <1>2, <1>3 DEF IInv

LEMMA NextIInv == ASSUME TrapAssumption, IInv, [Next]_vars PROVE IInv'
<1>1. CASE \E v \in Values, cause \in {"timer", "ecall", "fault"} : UserTrap(v, cause)
  BY <1>1, UserTrapIInv
<1>2. CASE NestedFault
  BY <1>2, NestedFaultIInv
<1>3. CASE Return
  BY <1>3, ReturnIInv
<1>4. CASE Leave
  BY <1>4, LeaveIInv
<1>5. CASE Dummy
  BY <1>5, DummyIInv
<1>6. CASE ScheduleSame
  BY <1>6, ScheduleSameIInv
<1>7. CASE \E q \in Tasks : Schedule(q)
  BY <1>7, ScheduleIInv
<1>8. CASE SignalNone
  BY <1>8, SignalNoneIInv
<1>9. CASE \E q \in Tasks : SignalReap(q) \/ SignalReapNested(q)
  BY <1>9, SignalReapIInv, SignalReapNestedIInv
<1>10. CASE Handled
  BY <1>10, HandledIInv
<1>11. CASE TimerSchedules
  BY <1>11, TimerSchedulesIInv
<1>12. CASE Ecall
  BY <1>12, EcallIInv
<1>13. CASE Touch
  BY <1>13, TouchIInv
<1>14. CASE TouchDeeper
  BY <1>14, TouchDeeperIInv
<1>15. CASE Finish
  BY <1>15, FinishIInv
<1>16. CASE Wait
  BY <1>16, WaitIInv
<1>17. CASE \E c \in Tasks : Fork(c)
  BY <1>17, ForkIInv
<1>18. CASE Execve
  BY <1>18, ExecveIInv
<1>19. CASE Exit
  BY <1>19, ExitIInv
<1>20. CASE UNCHANGED vars
  BY <1>20, StutterIInv
<1> QED BY <1>1, <1>2, <1>3, <1>4, <1>5, <1>6, <1>7, <1>8, <1>9, <1>10, <1>11, <1>12, <1>13,
           <1>14, <1>15, <1>16, <1>17, <1>18, <1>19, <1>20 DEF Next

-----------------------------------------------------------------------------
(* Results.                                                                *)

\* The stacks have one of a few shapes, and every task is at a place in the
\* kernel or in its program that goes with its stack.
THEOREM Invariance == Spec => []IInv
<1>1. Init => IInv
  BY InitIInv, TrapAssumption
<1>2. IInv /\ [Next]_vars => IInv'
  BY NextIInv, TrapAssumption
<1> QED BY <1>1, <1>2, PTL DEF Spec

LEMMA Tips ==
    ASSUME NEW p \in Tasks, NEW f \in Cells
    PROVE  /\ Tip(p, <<>>) = <<p, 0>> /\ Tip(p, Interrupted(p, f)) = <<p, 1>>
           /\ Tip(p, Serving(p, f)) = <<p, 2>> /\ Tip(p, Reaping(p, f)) = <<p, 2>>
           /\ Tip(p, Within(p, f, "return")) = <<p, 3>>
           /\ Tip(p, Within(p, f, "finish")) = <<p, 3>> /\ Tip(p, Deeper(p, f)) = <<p, 4>>
           /\ \A x \in Faults : /\ Tip(p, Faulted(p, f, x[1], x[2])) = <<p, x[2]>>
                                /\ Tip(p, Nesting(p, f, x[1], x[2])) = <<p, x[2] + 1>>
<1>1. /\ Extends(Interrupted(p, f), <<>>, <<p, 1>>, f)
      /\ Extends(Serving(p, f), Interrupted(p, f), <<p, 2>>, Call("signal", <<p, 1>>))
      /\ \A label \in Labels :
           Extends(Within(p, f, label), Serving(p, f), <<p, 3>>, Call(label, Null))
      /\ Extends(Deeper(p, f), Within(p, f, "finish"), <<p, 4>>, Call("call", Null))
      /\ Extends(Reaping(p, f), Interrupted(p, f), <<p, 2>>, Call("leave", Null))
  BY Chain
<1>2. Tip(p, Interrupted(p, f)) = <<p, 1>> /\ Tip(p, Serving(p, f)) = <<p, 2>>
  BY <1>1, ExtendsTip
<1>3. Tip(p, Deeper(p, f)) = <<p, 4>> /\ Tip(p, Reaping(p, f)) = <<p, 2>>
  BY <1>1, ExtendsTip
<1>4. ASSUME NEW label \in Labels
      PROVE  Tip(p, Within(p, f, label)) = <<p, 3>>
  BY <1>1, ExtendsTip
<1>5. ASSUME NEW x \in Faults
      PROVE  /\ Tip(p, Faulted(p, f, x[1], x[2])) = <<p, x[2]>>
             /\ Tip(p, Nesting(p, f, x[1], x[2])) = <<p, x[2] + 1>>
  <2>1. /\ Extends(Faulted(p, f, x[1], x[2]), Calling(p, f, x[1]), <<p, x[2]>>,
                   KernelCell(p, x[1]))
        /\ Extends(Nesting(p, f, x[1], x[2]), Faulted(p, f, x[1], x[2]),
                   <<p, x[2] + 1>>, Call("signal", <<p, x[2]>>))
    BY FaultChain
  <2> QED BY <2>1, ExtendsTip
<1>6. Tip(p, <<>>) = <<p, 0>>
  BY DEF Tip
<1>7. "return" \in Labels /\ "finish" \in Labels
  BY DEF Labels
<1> QED BY <1>2, <1>3, <1>4, <1>5, <1>6, <1>7

LEMMA IInvStacks == ASSUME TrapAssumption, IInv PROVE StacksHold
<1>1. ASSUME NEW p \in Runnable
      PROVE  /\ p \in Tasks /\ program[p] \in Cells
             /\ Held(p, frames[p], stack) /\ Depth(p) = Tip(p, frames[p])
  BY DEF IInv, TypeOK, Runnable, Backed, Depth, Tip
<1>2. ASSUME NEW p \in Runnable, NEW d \in 1 .. Len(frames[p])
      PROVE  frames[p][d].at[1] = p /\ At(frames[p][d].at) = frames[p][d].cell
  <2>1. PICK n \in 1 .. DEPTH : frames[p][d].at = <<p, n>> /\ stack[p][n] = frames[p][d].cell
    BY <1>1 DEF Held
  <2> QED BY <1>1, <2>1, CellAddr DEF At
<1>3. ASSUME NEW p \in Runnable, p # current
      PROVE  thread[p].sp = Depth(p)
  <2>1. Waiting(p)
    BY <1>3 DEF IInv, Places
  <2>2. /\ Tip(p, <<>>) = <<p, 0>> /\ Tip(p, Interrupted(p, program[p])) = <<p, 1>>
        /\ Tip(p, Reaping(p, program[p])) = <<p, 2>>
        /\ Tip(p, Within(p, program[p], "return")) = <<p, 3>>
        /\ Tip(p, Within(p, program[p], "finish")) = <<p, 3>>
    BY <1>1, Tips
  <2> QED BY <1>1, <2>1, <2>2 DEF Waiting
<1>4. ASSUME InUser
      PROVE  hart.sscratch = <<current, 0>> /\ frames[current] = <<>>
  <2>1. hart.pc \in UserPc /\ hart.pc \notin Labels
    BY <1>4, LabelsApart DEF InUser
  <2>2. Running(current)
    BY <2>1, RunsFor DEF Labels
  <2> QED BY <2>1, <2>2 DEF Running, InProgram, AtStart, InHandler, InSchedule, InCall,
                            OnTheWayBack, InNested, Labels
<1>5. ASSUME current \in Runnable, ~InUser
      PROVE  hart.sp = Depth(current)
  <2>1. PICK p \in Runnable : p = current
    BY <1>5
  <2>2. Running(p) /\ p \in Tasks /\ program[p] \in Cells /\ Depth(p) = Tip(p, frames[p])
    BY <1>1, <2>1 DEF IInv, Places
  <2>3. ~InProgram(p)
    BY <1>5 DEF InProgram, InUser
  <2>4. CASE InNested(p)
    <3>1. PICK x \in Faults :
             \/ frames[p] = Nesting(p, program[p], x[1], x[2]) /\ hart.sp = <<p, x[2] + 1>>
             \/ frames[p] = Faulted(p, program[p], x[1], x[2]) /\ hart.sp = <<p, x[2]>>
      BY <2>4 DEF InNested
    <3>2. /\ Tip(p, Faulted(p, program[p], x[1], x[2])) = <<p, x[2]>>
          /\ Tip(p, Nesting(p, program[p], x[1], x[2])) = <<p, x[2] + 1>>
      BY <2>2, Tips
    <3> QED BY <2>1, <2>2, <3>1, <3>2
  <2>5. CASE AtStart(p) \/ InHandler(p) \/ OnTheWayBack(p)
    <3>1. /\ Tip(p, <<>>) = <<p, 0>> /\ Tip(p, Interrupted(p, program[p])) = <<p, 1>>
          /\ Tip(p, Serving(p, program[p])) = <<p, 2>>
      BY <2>2, Tips
    <3> QED BY <2>1, <2>2, <2>5, <3>1 DEF AtStart, InHandler, OnTheWayBack
  <2>6. CASE InSchedule(p) \/ InCall(p)
    BY <2>1, <2>2, <2>6, Tips DEF InSchedule, InCall
  <2> QED BY <2>2, <2>3, <2>4, <2>5, <2>6 DEF Running
<1> QED BY <1>2, <1>3, <1>4, <1>5 DEF StacksHold

\* Every stack holds the frames that its task has still to return through.
THEOREM StacksAlwaysHold == Spec => []StacksHold
<1>1. IInv => StacksHold
  BY IInvStacks, TrapAssumption
<1> QED BY <1>1, Invariance, PTL

\* Programs and the kernel go on with their own registers.
THEOREM RegistersComeBack == Spec => []ResumesAsItWas
<1>1. ASSUME IInv PROVE ResumesAsItWas
  <2>1. ASSUME InUser
        PROVE  hart.mode = "U" /\ Registers(hart) = program[current]
    <3>1. hart.pc \in UserPc /\ hart.pc \notin Labels
      BY <2>1, LabelsApart, TrapAssumption DEF InUser
    <3>2. Running(current)
      BY <1>1, <3>1, RunsFor DEF Labels
    <3> QED BY <3>1, <3>2 DEF Running, InProgram, AtStart, InHandler, InSchedule, InCall,
                              OnTheWayBack, InNested, Labels
  <2>2. ASSUME hart.pc \in {"ecall", "syscall", "call", "finish"}
        PROVE  /\ hart.mode = "S" /\ hart.s = KernelOf(current)
               /\ hart.pc = "call" => hart.t = KernelOf(current) /\ hart.a = KernelOf(current)
    <3>1. hart.pc \notin UserPc /\ Running(current)
      BY <1>1, <2>2, RunsFor, LabelsApart, TrapAssumption DEF Labels
    <3> QED BY <2>2, <3>1 DEF Running, InProgram, AtStart, InHandler, InSchedule, InCall,
                              OnTheWayBack, InNested, OwnAll, OwnS
  <2> QED BY <2>1, <2>2 DEF ResumesAsItWas
<1> QED BY <1>1, Invariance, PTL

=============================================================================
