------------------------------ MODULE FdProofs ------------------------------
(***************************************************************************)
(* Proofs about FdTable, for any sets of processes, tables, descriptors and*)
(* files: what programs hold stays what they opened, programs read their   *)
(* own files, and both together implement Descriptors.                     *)
(***************************************************************************)
EXTENDS FdTable, FiniteSetTheorems, WellFoundedInduction, TLAPS

-----------------------------------------------------------------------------
\* A non-empty set of natural numbers has a least element.
LEMMA NatMin ==
    ASSUME NEW S \in SUBSET Nat, S # {}
    PROVE  \E i \in S : \A j \in S : i <= j
<1>1. IsWellFoundedOn(OpToRel(<, Nat), Nat)
  BY NatLessThanWellFounded
<1>2. PICK x \in S : \A y \in S : ~ (<<y, x>> \in OpToRel(<, Nat))
  BY <1>1, WFMin
<1>3. \A y \in S : ~ (y < x)
  BY <1>2 DEF OpToRel
<1> QED BY <1>3

-----------------------------------------------------------------------------
(* The inductive invariant.                                                *)

\* A process that runs has a table of its own.
OwnTables ==
    /\ \A p \in live : files[p] \in Tables \ fresh
    /\ \A p, q \in live : files[p] = files[q] => p = q

DeadHoldNothing == \A p \in Procs \ live : held[p] = {}

\* The descriptor that a program's pages are read through is not one that open
\* could take, or close give back, in the table of a process that runs.
ImagesKept ==
    \A p \in live :
        image[p] # None =>
            /\ image[p][1] \notin fresh
            /\ program[p] \in Programs
            /\ \A q \in live :
                 files[q] = image[p][1] =>
                    fd[files[q]][image[p][2]].opened /\ image[p][2] \notin held[q]

IInv ==
    /\ TypeOK /\ OwnTables /\ DeadHoldNothing
    /\ HeldIsFile /\ ProgramReadsItsFile /\ ImagesKept
-----------------------------------------------------------------------------
(* The operators the actions are built from.                               *)

\* open takes a vacant descriptor, when there is one.
LEMMA FirstIsVacant ==
    ASSUME FdAssumption, NEW p, Vacant(p) # {}
    PROVE  First(p) \in Vacant(p) /\ First(p) \in Fds
<1>1. Vacant(p) \in SUBSET Nat
  BY DEF Vacant, FdAssumption
<1>2. \E i \in Vacant(p) : \A j \in Vacant(p) : i <= j
  BY <1>1, NatMin
<1> QED BY <1>2 DEF First, Vacant

\* What file_open, the read of a header and close make of a structure.
LEMMA FileOpenFacts ==
    ASSUME FdAssumption, NEW r \in FileStruct, NEW path \in Paths \cup {None},
           NEW flags \in SUBSET Rights
    PROVE  LET n == FileOpen(r, path, flags) IN
             /\ n \in FileStruct
             /\ n.opened /\ n.path = path /\ n.flags = flags /\ n.cfo = 0
             /\ Opens(path) => n.ops = "fat32" /\ n.on = path
<1>1. None \notin Paths /\ Files \subseteq Paths /\ Foreign \notin Files
  BY DEF FdAssumption, Paths
<1>2. 0 \in Offsets
  BY DEF FdAssumption, Offsets
<1> QED BY <1>1, <1>2 DEF FileOpen, FileStruct, Opens

LEMMA ClosedFacts ==
    ASSUME FdAssumption, NEW r \in FileStruct
    PROVE  /\ Closed(r) \in FileStruct
           /\ Closed(r).on = r.on /\ Closed(r).ops = r.ops
<1>1. 0 \in Offsets
  BY DEF FdAssumption, Offsets
<1> QED BY <1>1 DEF Closed, FileStruct

\* A read ends within the file, and so within its clusters.
LEMMA ReadToFacts ==
    ASSUME FdAssumption, NEW f \in Files, NEW x \in Nat, NEW n \in Nat
    PROVE  ReadTo(f, x, n) \in Offsets
BY DEF FdAssumption, ReadTo, Offsets

LEMMA HeaderFacts ==
    ASSUME FdAssumption, NEW r \in FileStruct, r.on \in Files
    PROVE  /\ Header(r) \in FileStruct
           /\ Header(r).opened = r.opened /\ Header(r).on = r.on
           /\ Header(r).ops = r.ops /\ Header(r).path = r.path
<1>1. ReadTo(r.on, 0, PGSIZE) \in Offsets
  BY ReadToFacts DEF FdAssumption
<1> QED BY <1>1 DEF Header, FileStruct

\* What fork makes of a structure.
LEMMA ReopenedFacts ==
    ASSUME FdAssumption, NEW r \in FileStruct
    PROVE  /\ Reopened(r) \in FileStruct
           /\ r.opened /\ r.on \in Files /\ r.on = r.path =>
                /\ Reopened(r).opened /\ Reopened(r).ops = "fat32"
                /\ Reopened(r).on = r.on /\ Reopened(r).path = r.path
                /\ Reopened(r).flags = r.flags /\ Reopened(r).cfo = r.cfo
<1>1. Unused \in FileStruct
  BY DEF Unused, FileStruct, Offsets, FdAssumption
<1>2. CASE ~r.opened
  BY <1>1, <1>2 DEF Reopened
<1>3. CASE r.opened /\ Opens(r.path)
  <2>1. r.path \in Paths
    BY <1>3 DEF Opens, Paths
  <2>2. r.flags \in SUBSET Rights /\ r.cfo \in Offsets
    BY DEF FileStruct
  <2> DEFINE n == FileOpen(Unused, r.path, r.flags)
  <2>3. /\ n \in FileStruct /\ n.opened /\ n.path = r.path /\ n.flags = r.flags
        /\ n.ops = "fat32" /\ n.on = r.path
    BY <1>1, <1>3, <2>1, <2>2, FileOpenFacts
  <2>4. Reopened(r) = [n EXCEPT !.cfo = r.cfo]
    BY <1>3 DEF Reopened
  <2> HIDE DEF n
  <2> QED BY <2>2, <2>3, <2>4 DEF FileStruct
<1>4. CASE r.opened /\ ~Opens(r.path)
  <2>1. Reopened(r) = FileOpen(Unused, r.path, r.flags)
    BY <1>4 DEF Reopened
  <2>2. FileOpen(Unused, r.path, r.flags) \in FileStruct
    BY <1>1, FileOpenFacts DEF FileStruct
  <2> QED BY <1>4, <2>1, <2>2 DEF Opens
<1> QED BY <1>2, <1>3, <1>4

-----------------------------------------------------------------------------
(* The invariant holds, action by action.                                  *)

LEMMA InitIInv == ASSUME FdAssumption, Init PROVE IInv
<1>1. TypeOK
  <2>1. Unused \in FileStruct
    BY DEF FdAssumption, FileStruct, Unused, Offsets
  <2>2. fd \in [Tables -> [Fds -> FileStruct]]
    BY <2>1 DEF Init
  <2>3. files \in [Procs -> Tables \cup {None}] /\ fresh \in SUBSET Tables
    BY DEF Init
  <2>4. live \in SUBSET Procs
    BY DEF FdAssumption, Init
  <2> QED BY <2>2, <2>3, <2>4 DEF Init, TypeOK
<1>2. OwnTables /\ DeadHoldNothing /\ HeldIsFile /\ ProgramReadsItsFile /\ ImagesKept
  BY DEF Init, OwnTables, DeadHoldNothing, HeldIsFile, ProgramReadsItsFile, ImagesKept
<1> QED BY <1>1, <1>2 DEF IInv

\* What programs hold as long as it is the file it was opened for.
IsFile(r) ==
    r.opened /\ r.ops = "fat32" /\ r.on \in Files /\ r.on = r.path

\* The structure r is put at entry i of table t.
Puts(t, i, r) ==
    /\ t \in Tables /\ i \in Fds /\ r \in FileStruct
    /\ fd' = [fd EXCEPT ![t][i] = r]

LEMMA PutsFacts ==
    ASSUME TypeOK, NEW t, NEW i, NEW r, Puts(t, i, r)
    PROVE  /\ fd' \in [Tables -> [Fds -> FileStruct]]
           /\ fd'[t][i] = r
           /\ \A u \in Tables, j \in Fds : u # t \/ j # i => fd'[u][j] = fd[u][j]
BY DEF TypeOK, Puts

\* A call that changes one entry keeps the invariant when what is put there is
\* the file of whoever holds it afterwards, and of the programs read through it.
LEMMA OneEntry ==
    ASSUME FdAssumption, IInv, NEW t, NEW i, NEW r, Puts(t, i, r),
           held' \in [Procs -> SUBSET Fds],
           \A q \in Procs : held'[q] # held[q] =>
               q \in live /\ files[q] = t /\ held'[q] \subseteq held[q] \cup {i},
           \A q \in live : files[q] = t /\ i \in held'[q] => IsFile(r),
           \A q \in live : image[q] # None /\ image[q][1] = t /\ image[q][2] = i =>
               /\ r.ops = "fat32" /\ r.on = fd[t][i].on
               /\ \A o \in live : files[o] = t => r.opened /\ i \notin held'[o],
           halt' \in BOOLEAN,
           UNCHANGED <<live, files, fresh, image, program>>
    PROVE  IInv'
<1>1. /\ fd' \in [Tables -> [Fds -> FileStruct]]
      /\ fd'[t][i] = r
      /\ \A u \in Tables, j \in Fds : u # t \/ j # i => fd'[u][j] = fd[u][j]
  BY PutsFacts DEF IInv
<1>2. TypeOK'
  BY <1>1 DEF IInv, TypeOK
<1>3. OwnTables' /\ DeadHoldNothing'
  BY DEF IInv, OwnTables, DeadHoldNothing
<1>4. HeldIsFile'
  <2> SUFFICES ASSUME NEW p \in live', NEW j \in held'[p]
               PROVE  IsFile(fd'[files[p]][j])
    BY DEF HeldIsFile, Entry, IsFile
  <2>1. p \in live /\ p \in Procs /\ files[p] \in Tables /\ j \in Fds
    BY DEF IInv, TypeOK, OwnTables
  <2>2. CASE files[p] = t /\ j = i
    BY <1>1, <2>1, <2>2
  <2>3. CASE ~(files[p] = t /\ j = i)
    <3>1. j \in held[p]
      BY <2>1, <2>3
    <3>2. IsFile(fd[files[p]][j])
      BY <2>1, <3>1 DEF IInv, HeldIsFile, Entry, IsFile
    <3> QED BY <1>1, <2>1, <2>3, <3>2
  <2> QED BY <2>2, <2>3
<1>5. ProgramReadsItsFile'
  <2> SUFFICES ASSUME NEW p \in live, image[p] # None
               PROVE  LET e == fd'[image[p][1]][image[p][2]]
                      IN  e.ops = "fat32" /\ e.on = program[p]
    BY DEF ProgramReadsItsFile
  <2>1. image[p][1] \in Tables /\ image[p][2] \in Fds
    BY DEF IInv, TypeOK
  <2> QED BY <1>1, <2>1 DEF IInv, ProgramReadsItsFile
<1>6. ImagesKept'
  <2> SUFFICES ASSUME NEW p \in live, image[p] # None
               PROVE  /\ image[p][1] \notin fresh
                      /\ program[p] \in Programs
                      /\ \A q \in live :
                           files[q] = image[p][1] =>
                             /\ fd'[files[q]][image[p][2]].opened
                             /\ image[p][2] \notin held'[q]
    BY DEF ImagesKept
  <2>1. image[p][1] \in Tables /\ image[p][2] \in Fds
    BY DEF IInv, TypeOK
  <2>2. ASSUME NEW q \in live, files[q] = image[p][1]
        PROVE  fd'[files[q]][image[p][2]].opened /\ image[p][2] \notin held'[q]
    <3>1. fd[files[q]][image[p][2]].opened /\ image[p][2] \notin held[q]
      BY <2>2 DEF IInv, ImagesKept
    <3>2. q \in Procs
      BY DEF IInv, TypeOK
    <3>3. CASE image[p][1] = t /\ image[p][2] = i
      BY <1>1, <2>2, <3>3
    <3>4. CASE ~(image[p][1] = t /\ image[p][2] = i)
      <4>1. fd'[files[q]][image[p][2]] = fd[files[q]][image[p][2]]
        <5>1. \A u \in Tables, j \in Fds : u # t \/ j # i => fd'[u][j] = fd[u][j]
          BY <1>1
        <5>2. fd'[image[p][1]][image[p][2]] = fd[image[p][1]][image[p][2]]
          BY <2>1, <3>4, <5>1, ZenonT(60)
        <5> QED BY <2>2, <5>2
      <4>2. CASE held'[q] = held[q]
        BY <3>1, <4>1, <4>2
      <4>3. CASE held'[q] # held[q]
        <5>1. files[q] = t /\ held'[q] \subseteq held[q] \cup {i}
          BY <3>2, <4>3
        <5>2. image[p][2] # i
          BY <2>2, <3>4, <5>1
        <5> QED BY <3>1, <4>1, <5>1, <5>2
      <4> QED BY <4>2, <4>3
    <3> QED BY <3>3, <3>4
  <2> QED BY <2>2 DEF IInv, ImagesKept
<1> QED BY <1>2, <1>3, <1>4, <1>5, <1>6 DEF IInv

\* The entries of the table of p that are vacant, or that p holds, are nobody's
\* image.
LEMMA NoImageThere ==
    ASSUME IInv, NEW p \in live, NEW i, i \in Vacant(p) \/ i \in held[p],
           NEW q \in live, image[q] # None, image[q][1] = files[p]
    PROVE  image[q][2] # i
BY DEF IInv, ImagesKept, Vacant, Entry

LEMMA VacantNotHeld ==
    ASSUME IInv, NEW p \in live, NEW i \in Vacant(p)
    PROVE  i \notin held[p]
BY DEF IInv, HeldIsFile, Vacant, Entry

LEMMA EntryType ==
    ASSUME IInv, NEW p \in live, NEW i \in Fds
    PROVE  /\ p \in Procs /\ files[p] \in Tables
           /\ Entry(p, i) = fd[files[p]][i] /\ Entry(p, i) \in FileStruct
BY DEF IInv, TypeOK, OwnTables, Entry

LEMMA OpenIInv ==
    ASSUME FdAssumption, IInv, NEW p, NEW path \in Paths, NEW flags \in Flags,
           Open(p, path, flags)
    PROVE  IInv'
<1> DEFINE i == First(p)
           r == FileOpen(fd[files[p]][i], path, flags)
<1>1. p \in live /\ i \in Vacant(p) /\ i \in Fds
  BY FirstIsVacant DEF Open, Runs
<1>2. p \in Procs /\ files[p] \in Tables /\ fd[files[p]][i] \in FileStruct
  BY <1>1, EntryType
<1>3. /\ r \in FileStruct /\ r.opened
      /\ Opens(path) => IsFile(r)
  <2>1. flags \in SUBSET Rights
    BY DEF FdAssumption, Rights
  <2> QED BY <1>2, <2>1, FileOpenFacts DEF IsFile, Opens
<1> HIDE DEF i
<1>4. Puts(files[p], i, r)
  BY <1>1, <1>2, <1>3 DEF Open, Puts, i
<1>5. held' = IF Opens(path) THEN [held EXCEPT ![p] = @ \cup {i}] ELSE held
  BY DEF Open, i
<1> HIDE DEF r
<1>6. /\ held' \in [Procs -> SUBSET Fds]
      /\ \A q \in Procs : held'[q] # held[q] => q = p /\ held'[q] \subseteq held[q] \cup {i}
      /\ \A q \in Procs : i \in held'[q] => i \in held[q] \/ Opens(path)
  BY <1>1, <1>2, <1>5 DEF IInv, TypeOK
<1>7. \A q \in live : files[q] = files[p] /\ i \in held'[q] => IsFile(r)
  <2> SUFFICES ASSUME NEW q \in live, files[q] = files[p], i \in held'[q]
               PROVE  Opens(path)
    BY <1>3
  <2>1. q = p
    BY <1>1 DEF IInv, OwnTables
  <2> QED BY <1>1, <1>2, <1>6, <2>1, VacantNotHeld
<1>8. \A q \in live : image[q] # None /\ image[q][1] = files[p] => image[q][2] # i
  BY <1>1, NoImageThere
<1>9. halt' \in BOOLEAN /\ UNCHANGED <<live, files, fresh, image, program>>
  BY DEF Open, IInv, TypeOK
<1> QED BY <1>1, <1>4, <1>6, <1>7, <1>8, <1>9, OneEntry

\* A vacant descriptor changes that nobody gets.
LEMMA VacantEntry ==
    ASSUME FdAssumption, IInv, NEW p \in live, NEW i \in Vacant(p), NEW r,
           Puts(files[p], i, r),
           UNCHANGED <<halt, live, files, fresh, image, program, held>>
    PROVE  IInv'
<1>1. i \in Fds /\ p \in Procs
  BY DEF IInv, TypeOK, Vacant
<1>2. \A q \in live : files[q] = files[p] => q = p
  BY DEF IInv, OwnTables
<1>3. \A q \in live : files[q] = files[p] /\ i \in held'[q] => IsFile(r)
  BY <1>2, VacantNotHeld
<1>4. \A q \in live : image[q] # None /\ image[q][1] = files[p] => image[q][2] # i
  BY NoImageThere
<1>5. held' \in [Procs -> SUBSET Fds] /\ halt' \in BOOLEAN
  BY DEF IInv, TypeOK
<1> QED BY <1>3, <1>4, <1>5, OneEntry

LEMMA ExecveNoProgramIInv ==
    ASSUME FdAssumption, IInv, NEW p, NEW path, ExecveNoProgram(p, path)
    PROVE  IInv'
<1> DEFINE i == First(p)
           o == FileOpen(fd[files[p]][i], path, {"read"})
<1>1. p \in live /\ i \in Vacant(p) /\ i \in Fds /\ path \in Files /\ path \in Paths
  BY FirstIsVacant DEF ExecveNoProgram, Runs, Files, Paths
<1>2. files[p] \in Tables /\ fd[files[p]][i] \in FileStruct
  BY <1>1, EntryType
<1>3. o \in FileStruct /\ o.on \in Files
  BY <1>1, <1>2, FileOpenFacts DEF Opens, Rights
<1>4. Closed(Header(o)) \in FileStruct
  BY <1>3, HeaderFacts, ClosedFacts
<1> HIDE DEF i
<1>5. Puts(files[p], i, Closed(Header(o)))
  BY <1>1, <1>2, <1>4 DEF ExecveNoProgram, Puts, i
<1>6. UNCHANGED <<halt, live, files, fresh, image, program, held>>
  BY DEF ExecveNoProgram
<1> QED BY <1>1, <1>5, <1>6, VacantEntry

LEMMA ExecveNoFileIInv ==
    ASSUME FdAssumption, IInv, NEW p, NEW path \in Paths, ExecveNoFile(p, path)
    PROVE  IInv'
<1> DEFINE i == First(p)
           o == FileOpen(fd[files[p]][i], path, {"read"})
<1>1. p \in live /\ i \in Vacant(p) /\ i \in Fds
  BY FirstIsVacant DEF ExecveNoFile, Runs
<1>2. files[p] \in Tables /\ fd[files[p]][i] \in FileStruct
  BY <1>1, EntryType
<1>3. o \in FileStruct
  BY <1>2, FileOpenFacts DEF Rights
<1> HIDE DEF i
<1>4. Puts(files[p], i, o)
  BY <1>1, <1>2, <1>3 DEF ExecveNoFile, Puts, i
<1>5. UNCHANGED <<halt, live, files, fresh, image, program, held>>
  BY DEF ExecveNoFile
<1> QED BY <1>1, <1>4, <1>5, VacantEntry

\* A descriptor that a program holds changes, and stays its file or is given up.
LEMMA HeldEntry ==
    ASSUME FdAssumption, IInv, NEW p \in live, NEW i \in held[p], NEW r,
           Puts(files[p], i, r),
           \/ held' = held /\ IsFile(r)
           \/ held' = [held EXCEPT ![p] = @ \ {i}],
           UNCHANGED <<halt, live, files, fresh, image, program>>
    PROVE  IInv'
<1>1. p \in Procs
  BY DEF IInv, TypeOK
<1>2. /\ held' \in [Procs -> SUBSET Fds] /\ halt' \in BOOLEAN
      /\ \A q \in Procs : held'[q] # held[q] => q = p /\ held'[q] \subseteq held[q]
      /\ i \in held'[p] => IsFile(r)
  BY <1>1 DEF IInv, TypeOK
<1>3. \A q \in live : files[q] = files[p] => q = p
  BY DEF IInv, OwnTables
<1>4. \A q \in live : image[q] # None /\ image[q][1] = files[p] => image[q][2] # i
  BY NoImageThere
<1>5. \A q \in live : files[q] = files[p] /\ i \in held'[q] => IsFile(r)
  BY <1>2, <1>3
<1>6. \A q \in Procs : held'[q] # held[q] =>
         q \in live /\ files[q] = files[p] /\ held'[q] \subseteq held[q] \cup {i}
  BY <1>2
<1> QED BY <1>2, <1>4, <1>5, <1>6, OneEntry

LEMMA HeldFacts ==
    ASSUME IInv, NEW p \in live, NEW i \in held[p]
    PROVE  /\ i \in Fds /\ files[p] \in Tables
           /\ Entry(p, i) = fd[files[p]][i]
           /\ Entry(p, i) \in FileStruct /\ IsFile(Entry(p, i))
<1>1. i \in Fds
  BY DEF IInv, TypeOK
<1> QED BY <1>1, EntryType DEF IInv, HeldIsFile, IsFile

LEMMA CloseIInv ==
    ASSUME FdAssumption, IInv, NEW p, NEW i, Close(p, i)
    PROVE  IInv'
<1>1. p \in live /\ i \in held[p]
  BY DEF Close, Runs
<1>2. Puts(files[p], i, Closed(fd[files[p]][i]))
  <2>1. Closed(fd[files[p]][i]) \in FileStruct
    BY <1>1, HeldFacts, ClosedFacts
  <2> QED BY <1>1, <2>1, HeldFacts DEF Close, Puts
<1>3. /\ held' = [held EXCEPT ![p] = @ \ {i}]
      /\ UNCHANGED <<halt, live, files, fresh, image, program>>
  BY DEF Close
<1> QED BY <1>1, <1>2, <1>3, HeldEntry

\* lseek, read and write move the offset within the clusters of the file.
LEMMA MovesIInv ==
    ASSUME FdAssumption, IInv, NEW p \in live, NEW i \in held[p], NEW x \in Offsets,
           fd' = [fd EXCEPT ![files[p]][i].cfo = x],
           UNCHANGED <<halt, live, files, fresh, image, program, held>>
    PROVE  IInv'
<1> DEFINE r == [Entry(p, i) EXCEPT !.cfo = x]
<1>1. r \in FileStruct /\ IsFile(r)
  BY HeldFacts DEF FileStruct, IsFile
<1>2. fd' = [fd EXCEPT ![files[p]][i] = r]
  BY HeldFacts DEF IInv, TypeOK
<1>3. Puts(files[p], i, r)
  BY <1>1, <1>2, HeldFacts DEF Puts
<1> QED BY <1>1, <1>3, HeldEntry

LEMMA LseekIInv ==
    ASSUME FdAssumption, IInv, NEW p, NEW i, NEW x \in Offsets, Lseek(p, i, x)
    PROVE  IInv'
BY MovesIInv DEF Lseek, Runs

\* Where a read and a write leave the offset.
LEMMA ReadMoves ==
    ASSUME FdAssumption, IInv, NEW p, NEW i, NEW n \in 1 .. Room, Read(p, i, n)
    PROVE  LET x == ReadTo(Entry(p, i).on, Entry(p, i).cfo, n) IN
             /\ p \in live /\ i \in held[p] /\ x \in Offsets
             /\ fd' = [fd EXCEPT ![files[p]][i].cfo = x]
<1>1. p \in live /\ i \in held[p]
  BY DEF Read, Runs
<1>2. Entry(p, i).on \in Files /\ Entry(p, i).cfo \in Nat
  BY <1>1, HeldFacts DEF IsFile, FileStruct, Offsets, FdAssumption
<1>3. ReadTo(Entry(p, i).on, Entry(p, i).cfo, n) \in Offsets
  BY <1>2, ReadToFacts DEF FdAssumption
<1>4. fd' = [fd EXCEPT ![files[p]][i].cfo = ReadTo(Entry(p, i).on, @, n)]
  BY DEF Read
<1>5. fd' = [fd EXCEPT ![files[p]][i].cfo = ReadTo(Entry(p, i).on, Entry(p, i).cfo, n)]
  BY <1>1, <1>4, HeldFacts DEF IInv, TypeOK
<1> QED BY <1>1, <1>3, <1>5

LEMMA ReadIInv ==
    ASSUME FdAssumption, IInv, NEW p, NEW i, NEW n \in 1 .. Room, Read(p, i, n)
    PROVE  IInv'
<1>1. UNCHANGED <<halt, live, files, fresh, image, program, held>>
  BY DEF Read
<1> DEFINE x == ReadTo(Entry(p, i).on, Entry(p, i).cfo, n)
<1>2. /\ p \in live /\ i \in held[p] /\ x \in Offsets
      /\ fd' = [fd EXCEPT ![files[p]][i].cfo = x]
  BY ReadMoves, ZenonT(60)
<1> HIDE DEF x
<1> QED BY <1>1, <1>2, MovesIInv

LEMMA WriteMoves ==
    ASSUME FdAssumption, IInv, NEW p, NEW i, NEW n \in 1 .. Room, Write(p, i, n)
    PROVE  LET x == Entry(p, i).cfo + n IN
             /\ p \in live /\ i \in held[p] /\ x \in Offsets
             /\ fd' = [fd EXCEPT ![files[p]][i].cfo = x]
<1>1. p \in live /\ i \in held[p]
  BY DEF Write, Runs
<1>2. Entry(p, i).cfo + n \in Offsets
  BY <1>1, HeldFacts DEF Write, CanWrite, FileStruct, Offsets, FdAssumption
<1>3. fd' = [fd EXCEPT ![files[p]][i].cfo = @ + n]
  BY DEF Write
<1>4. fd' = [fd EXCEPT ![files[p]][i].cfo = Entry(p, i).cfo + n]
  BY <1>1, <1>3, HeldFacts DEF IInv, TypeOK
<1> QED BY <1>1, <1>2, <1>4

LEMMA WriteIInv ==
    ASSUME FdAssumption, IInv, NEW p, NEW i, NEW n \in 1 .. Room, Write(p, i, n)
    PROVE  IInv'
<1>1. UNCHANGED <<halt, live, files, fresh, image, program, held>>
  BY DEF Write
<1> DEFINE x == Entry(p, i).cfo + n
<1>2. /\ p \in live /\ i \in held[p] /\ x \in Offsets
      /\ fd' = [fd EXCEPT ![files[p]][i].cfo = x]
  BY WriteMoves, ZenonT(60)
<1> HIDE DEF x
<1> QED BY <1>1, <1>2, MovesIInv

\* The parts of the invariant do not depend on halt.
LEMMA BreaksIInv ==
    ASSUME IInv, NEW p, NEW i, NEW n, Breaks(p, i, n)
    PROVE  IInv'
<1>1. halt' \in BOOLEAN /\ UNCHANGED <<live, files, fresh, fd, image, program, held>>
  BY DEF Breaks
<1>2. TypeOK'
  BY <1>1 DEF IInv, TypeOK
<1>3. OwnTables' /\ DeadHoldNothing'
  BY <1>1 DEF IInv, OwnTables, DeadHoldNothing
<1>4. HeldIsFile' /\ ProgramReadsItsFile' /\ ImagesKept'
  BY <1>1 DEF IInv, HeldIsFile, Entry, ProgramReadsItsFile, ImagesKept
<1> QED BY <1>2, <1>3, <1>4 DEF IInv

\* execve: the descriptor it takes becomes the image of the program.
LEMMA ExecveIInv ==
    ASSUME FdAssumption, IInv, NEW p, NEW path, Execve(p, path)
    PROVE  IInv'
<1> DEFINE i == First(p)
           o == FileOpen(fd[files[p]][i], path, {"read"})
           r == Header(o)
<1>1. p \in live /\ i \in Vacant(p) /\ i \in Fds /\ path \in Programs
  BY FirstIsVacant DEF Execve, Runs
<1>2. p \in Procs /\ files[p] \in Tables /\ fd[files[p]][i] \in FileStruct
  BY <1>1, EntryType
<1>3. r \in FileStruct /\ r.opened /\ r.ops = "fat32" /\ r.on = path
  <2>1. path \in Paths /\ path \in Files
    BY <1>1 DEF Paths, Files
  <2>2. o \in FileStruct /\ o.opened /\ o.ops = "fat32" /\ o.on = path
    BY <1>2, <2>1, FileOpenFacts DEF Opens, Rights
  <2> HIDE DEF o
  <2> QED BY <2>1, <2>2, HeaderFacts
<1>4. fd' = [fd EXCEPT ![files[p]][i] = r]
  BY <1>1, <1>2 DEF Execve
<1>5. /\ image' = [image EXCEPT ![p] = <<files[p], i>>]
      /\ program' = [program EXCEPT ![p] = path]
      /\ UNCHANGED <<halt, live, files, fresh, held>>
  BY DEF Execve
<1> HIDE DEF i, o, r
<1>6. Puts(files[p], i, r)
  BY <1>1, <1>2, <1>3, <1>4 DEF Puts
<1>7. /\ fd' \in [Tables -> [Fds -> FileStruct]] /\ fd'[files[p]][i] = r
      /\ \A u \in Tables, j \in Fds : u # files[p] \/ j # i => fd'[u][j] = fd[u][j]
  BY <1>6, PutsFacts DEF IInv
<1>8. TypeOK'
  BY <1>1, <1>2, <1>5, <1>7 DEF IInv, TypeOK
<1>9. OwnTables' /\ DeadHoldNothing'
  BY <1>5 DEF IInv, OwnTables, DeadHoldNothing
<1>10. ASSUME NEW q \in live, NEW j \in held[q]
       PROVE  fd'[files[q]][j] = fd[files[q]][j]
  <2>1. q \in Procs /\ files[q] \in Tables /\ j \in Fds
    BY DEF IInv, TypeOK, OwnTables
  <2>2. CASE q = p
    BY <1>1, <1>7, <2>1, <2>2, VacantNotHeld
  <2>3. CASE q # p
    BY <1>1, <1>7, <2>1, <2>3 DEF IInv, OwnTables
  <2> QED BY <2>2, <2>3
<1>11. HeldIsFile'
  BY <1>5, <1>10 DEF IInv, HeldIsFile, Entry
<1>12. ASSUME NEW q \in live, q # p, image[q] # None
       PROVE  /\ image'[q] = image[q] /\ program'[q] = program[q]
              /\ fd'[image[q][1]][image[q][2]] = fd[image[q][1]][image[q][2]]
  <2>1. q \in Procs /\ image[q][1] \in Tables /\ image[q][2] \in Fds
    BY <1>12 DEF IInv, TypeOK
  <2>2. image[q][1] = files[p] => image[q][2] # i
    BY <1>1, <1>12, NoImageThere
  <2>3. image'[q] = image[q] /\ program'[q] = program[q]
    BY <1>2, <1>5, <1>12, <2>1 DEF IInv, TypeOK
  <2>4. \A u \in Tables, j \in Fds : u # files[p] \/ j # i => fd'[u][j] = fd[u][j]
    BY <1>7
  <2> QED BY <2>1, <2>2, <2>3, <2>4
<1>13. image'[p] = <<files[p], i>> /\ program'[p] = path
  BY <1>2, <1>5 DEF IInv, TypeOK
<1>14. ProgramReadsItsFile'
  <2> SUFFICES ASSUME NEW q \in live, image'[q] # None
               PROVE  LET e == fd'[image'[q][1]][image'[q][2]]
                      IN  e.ops = "fat32" /\ e.on = program'[q]
    BY <1>5 DEF ProgramReadsItsFile
  <2>1. CASE q = p
    BY <1>3, <1>7, <1>13, <2>1
  <2>2. CASE q # p
    <3>1. image'[q] = image[q]
      BY <1>2, <1>5, <2>2 DEF IInv, TypeOK
    <3> QED BY <1>12, <2>2, <3>1 DEF IInv, ProgramReadsItsFile
  <2> QED BY <2>1, <2>2
<1>15. ImagesKept'
  <2> SUFFICES ASSUME NEW q \in live, image'[q] # None
               PROVE  /\ image'[q][1] \notin fresh
                      /\ program'[q] \in Programs
                      /\ \A u \in live :
                           files[u] = image'[q][1] =>
                             /\ fd'[files[u]][image'[q][2]].opened
                             /\ image'[q][2] \notin held[u]
    BY <1>5 DEF ImagesKept
  <2>1. CASE q = p
    <3>1. files[p] \notin fresh /\ \A u \in live : files[u] = files[p] => u = p
      BY <1>1 DEF IInv, OwnTables
    <3>2. i \notin held[p]
      BY <1>1, VacantNotHeld
    <3> QED BY <1>1, <1>3, <1>7, <1>13, <2>1, <3>1, <3>2
  <2>2. CASE q # p
    <3>1. image'[q] = image[q]
      BY <1>2, <1>5, <2>2 DEF IInv, TypeOK
    <3>2. /\ program'[q] = program[q]
          /\ fd'[image[q][1]][image[q][2]] = fd[image[q][1]][image[q][2]]
      BY <1>12, <2>2, <3>1
    <3> QED BY <3>1, <3>2 DEF IInv, ImagesKept
  <2> QED BY <2>1, <2>2
<1> QED BY <1>8, <1>9, <1>11, <1>14, <1>15 DEF IInv

\* A page fault moves an offset that is nobody's, but for the programs' pages.
LEMMA FaultIInv ==
    ASSUME FdAssumption, IInv, NEW p, NEW x \in Offsets, Fault(p, x)
    PROVE  IInv'
<1> DEFINE t == image[p][1]
           i == image[p][2]
           r == [fd[t][i] EXCEPT !.cfo = ReadTo(fd[t][i].on, x, PGSIZE)]
<1>1. p \in live /\ image[p] # None /\ p \in Procs
  BY DEF Fault, Runs, IInv, TypeOK
<1>2. t \in Tables /\ i \in Fds
  BY <1>1 DEF IInv, TypeOK
<1>3. /\ fd[t][i].on # None
      /\ fd' = [fd EXCEPT ![t][i].cfo = ReadTo(fd[t][i].on, x, PGSIZE)]
      /\ UNCHANGED <<halt, live, files, fresh, image, program, held>>
  BY DEF Fault
<1>4. \A o \in live : files[o] = t => fd[t][i].opened /\ i \notin held[o]
  BY <1>1 DEF IInv, ImagesKept
<1>5. fd[t][i].ops = "fat32"
  BY <1>1 DEF IInv, ProgramReadsItsFile
<1> HIDE DEF t, i
<1>6. fd[t][i] \in FileStruct
  BY <1>2 DEF IInv, TypeOK
<1>7. fd[t][i].on \in Files
  BY <1>3, <1>6 DEF FileStruct
<1>8. ReadTo(fd[t][i].on, x, PGSIZE) \in Offsets
  <2>1. x \in Nat /\ PGSIZE \in Nat
    BY DEF FdAssumption, Offsets
  <2> QED BY <1>7, <2>1, ReadToFacts
<1>9. /\ r \in FileStruct
      /\ r.on = fd[t][i].on /\ r.ops = fd[t][i].ops /\ r.opened = fd[t][i].opened
  BY <1>6, <1>8 DEF FileStruct
<1>10. fd' = [fd EXCEPT ![t][i] = r]
  BY <1>2, <1>3 DEF IInv, TypeOK
<1> HIDE DEF r
<1>11. Puts(t, i, r)
  BY <1>2, <1>9, <1>10 DEF Puts
<1>12. held' \in [Procs -> SUBSET Fds] /\ halt' \in BOOLEAN /\ held' = held
  BY <1>3 DEF IInv, TypeOK
<1> QED BY <1>3, <1>4, <1>5, <1>9, <1>11, <1>12, OneEntry

\* fork: the child's table is a fresh one, with the father's files opened again.
LEMMA ForkFacts ==
    ASSUME FdAssumption, IInv, NEW p, NEW c \in Procs, NEW t \in fresh,
           p \in live, c \notin live,
           files' = [files EXCEPT ![c] = t],
           fd' = [fd EXCEPT ![t] = [i \in Fds |-> Reopened(Entry(p, i))]]
    PROVE  /\ p \in Procs /\ p # c /\ t \in Tables
           /\ fd' \in [Tables -> [Fds -> FileStruct]]
           /\ files'[c] = t /\ \A q \in live : files'[q] = files[q] /\ files[q] # t
           /\ \A u \in Tables : u # t => fd'[u] = fd[u]
           /\ \A i \in Fds : fd'[t][i] = Reopened(Entry(p, i))
<1>1. p \in Procs /\ p # c /\ t \in Tables /\ live \subseteq Procs
  BY DEF IInv, TypeOK
<1>2. \A i \in Fds : Reopened(Entry(p, i)) \in FileStruct
  BY EntryType, ReopenedFacts
<1>3. [i \in Fds |-> Reopened(Entry(p, i))] \in [Fds -> FileStruct]
  BY <1>2
<1>4. fd' \in [Tables -> [Fds -> FileStruct]]
  BY <1>1, <1>3 DEF IInv, TypeOK
<1>5. files'[c] = t /\ \A q \in live : files'[q] = files[q] /\ files[q] # t
  BY <1>1 DEF IInv, TypeOK, OwnTables
<1>6. /\ \A u \in Tables : u # t => fd'[u] = fd[u]
      /\ \A i \in Fds : fd'[t][i] = Reopened(Entry(p, i))
  BY <1>1 DEF IInv, TypeOK
<1> QED BY <1>1, <1>4, <1>5, <1>6

LEMMA ForkIInv ==
    ASSUME FdAssumption, IInv, NEW p, NEW c \in Procs, Fork(p, c)
    PROVE  IInv'
<1>1. PICK t \in fresh :
         /\ fresh' = fresh \ {t}
         /\ files' = [files EXCEPT ![c] = t]
         /\ fd' = [fd EXCEPT ![t] = [i \in Fds |-> Reopened(Entry(p, i))]]
  BY DEF Fork
<1>2. /\ p \in live /\ c \notin live
      /\ live' = live \cup {c}
      /\ image' = [image EXCEPT ![c] = image[p]]
      /\ program' = [program EXCEPT ![c] = program[p]]
      /\ held' = [held EXCEPT ![c] = held[p]]
      /\ halt' = halt
  BY DEF Fork, Runs
<1>3. /\ p \in Procs /\ p # c /\ t \in Tables
      /\ fd' \in [Tables -> [Fds -> FileStruct]]
      /\ files'[c] = t /\ \A q \in live : files'[q] = files[q] /\ files[q] # t
      /\ \A u \in Tables : u # t => fd'[u] = fd[u]
      /\ \A i \in Fds : fd'[t][i] = Reopened(Entry(p, i))
  BY <1>1, <1>2, ForkFacts
<1>4. /\ image'[c] = image[p] /\ program'[c] = program[p] /\ held'[c] = held[p]
      /\ \A q \in Procs : q # c =>
           image'[q] = image[q] /\ program'[q] = program[q] /\ held'[q] = held[q]
  BY <1>2 DEF IInv, TypeOK
<1>5. TypeOK'
  <2>1. files' \in [Procs -> Tables \cup {None}] /\ fresh' \in SUBSET Tables
    BY <1>1, <1>3 DEF IInv, TypeOK
  <2>2. held' \in [Procs -> SUBSET Fds] /\ live' \in SUBSET Procs
    BY <1>2, <1>3 DEF IInv, TypeOK
  <2>3. /\ image' \in [Procs -> (Tables \X Fds) \cup {None}]
        /\ program' \in [Procs -> Programs \cup {None}]
    BY <1>2, <1>3 DEF IInv, TypeOK
  <2> QED BY <1>2, <1>3, <2>1, <2>2, <2>3 DEF IInv, TypeOK
<1>6. OwnTables'
  BY <1>1, <1>2, <1>3 DEF IInv, OwnTables
<1>7. DeadHoldNothing'
  BY <1>2, <1>4 DEF IInv, DeadHoldNothing
<1>8. HeldIsFile'
  <2> SUFFICES ASSUME NEW q \in live', NEW i \in held'[q]
               PROVE  IsFile(fd'[files'[q]][i])
    BY DEF HeldIsFile, Entry, IsFile
  <2>1. CASE q = c
    <3>1. i \in held[p]
      BY <1>4, <2>1
    <3>2. i \in Fds /\ Entry(p, i) \in FileStruct /\ IsFile(Entry(p, i))
      BY <1>2, <3>1, HeldFacts
    <3>3. IsFile(Reopened(Entry(p, i)))
      BY <3>2, ReopenedFacts DEF IsFile
    <3> QED BY <1>3, <2>1, <3>2, <3>3
  <2>2. CASE q # c
    <3>1. q \in live /\ q \in Procs
      BY <1>2, <2>2 DEF IInv, TypeOK
    <3>2. i \in held[q]
      BY <1>4, <2>2, <3>1
    <3>3. IsFile(fd[files[q]][i]) /\ files[q] \in Tables
      BY <3>1, <3>2, HeldFacts
    <3> QED BY <1>3, <3>1, <3>3
  <2> QED BY <2>1, <2>2
\* A process that has q's image, and the same program, before the fork.
<1>9. ASSUME NEW q \in live', image'[q] # None
      PROVE  \E o \in live : image[o] = image'[q] /\ program[o] = program'[q]
  BY <1>2, <1>3, <1>4 DEF IInv, TypeOK
<1>10. ASSUME NEW o \in live, image[o] # None
       PROVE  fd'[image[o][1]] = fd[image[o][1]] /\ image[o][1] # t
  <2>1. image[o][1] \in Tables /\ image[o][1] \notin fresh
    BY <1>10 DEF IInv, TypeOK, ImagesKept
  <2> QED BY <1>1, <1>3, <2>1
<1>11. ProgramReadsItsFile'
  BY <1>9, <1>10 DEF IInv, ProgramReadsItsFile
<1>12. ImagesKept'
  <2> SUFFICES ASSUME NEW q \in live', image'[q] # None
               PROVE  /\ image'[q][1] \notin fresh'
                      /\ program'[q] \in Programs
                      /\ \A u \in live' :
                           files'[u] = image'[q][1] =>
                             /\ fd'[files'[u]][image'[q][2]].opened
                             /\ image'[q][2] \notin held'[u]
    BY DEF ImagesKept
  <2>1. PICK o \in live : image[o] = image'[q] /\ program[o] = program'[q]
    BY <1>9
  <2>2. /\ image[o] # None
        /\ fd'[image[o][1]] = fd[image[o][1]] /\ image[o][1] # t
    BY <1>10, <2>1
  <2>3. /\ image[o][1] \notin fresh /\ program[o] \in Programs
        /\ \A u \in live :
             files[u] = image[o][1] =>
               fd[files[u]][image[o][2]].opened /\ image[o][2] \notin held[u]
    BY <2>2 DEF IInv, ImagesKept
  <2>4. ASSUME NEW u \in live', files'[u] = image[o][1]
        PROVE  fd'[files'[u]][image[o][2]].opened /\ image[o][2] \notin held'[u]
    <3>1. u # c /\ u \in live /\ u \in Procs
      BY <1>2, <1>3, <2>2, <2>4 DEF IInv, TypeOK
    <3>2. files'[u] = files[u] /\ held'[u] = held[u]
      BY <1>3, <1>4, <3>1
    <3> QED BY <2>2, <2>3, <2>4, <3>1, <3>2
  <2> QED BY <1>1, <2>1, <2>3, <2>4
<1> QED BY <1>5, <1>6, <1>7, <1>8, <1>11, <1>12 DEF IInv

\* exit closes what is opened in the table of p, and leaves the table behind.
LEMMA ExitFacts ==
    ASSUME FdAssumption, IInv, NEW p, Exit(p)
    PROVE  /\ p \in live /\ p \in Procs /\ files[p] \in Tables
           /\ fd' \in [Tables -> [Fds -> FileStruct]]
           /\ \A u \in Tables : u # files[p] => fd'[u] = fd[u]
           /\ \A u \in Tables, i \in Fds :
                fd'[u][i].on = fd[u][i].on /\ fd'[u][i].ops = fd[u][i].ops
<1> DEFINE r(i) == IF fd[files[p]][i].opened THEN Closed(fd[files[p]][i]) ELSE fd[files[p]][i]
<1>1. p \in live /\ p \in Procs /\ files[p] \in Tables
  BY DEF Exit, Runs, IInv, TypeOK, OwnTables
<1>2. ASSUME NEW i \in Fds
      PROVE  /\ r(i) \in FileStruct
             /\ r(i).on = fd[files[p]][i].on /\ r(i).ops = fd[files[p]][i].ops
  <2>1. fd[files[p]][i] \in FileStruct
    BY <1>1, EntryType
  <2> QED BY <2>1, ClosedFacts
<1>3. fd' = [fd EXCEPT ![files[p]] = [i \in Fds |-> r(i)]]
  BY <1>1 DEF Exit, IInv, TypeOK
<1> HIDE DEF r
<1>4. [i \in Fds |-> r(i)] \in [Fds -> FileStruct]
  BY <1>2
<1>5. fd' \in [Tables -> [Fds -> FileStruct]]
  BY <1>1, <1>3, <1>4 DEF IInv, TypeOK
<1>6. /\ \A u \in Tables : u # files[p] => fd'[u] = fd[u]
      /\ \A i \in Fds : fd'[files[p]][i] = r(i)
  BY <1>1, <1>3 DEF IInv, TypeOK
<1> QED BY <1>1, <1>2, <1>5, <1>6

LEMMA ExitIInv ==
    ASSUME FdAssumption, IInv, NEW p, Exit(p)
    PROVE  IInv'
<1>1. /\ p \in live /\ p \in Procs /\ files[p] \in Tables
      /\ fd' \in [Tables -> [Fds -> FileStruct]]
      /\ \A u \in Tables : u # files[p] => fd'[u] = fd[u]
      /\ \A u \in Tables, i \in Fds :
           fd'[u][i].on = fd[u][i].on /\ fd'[u][i].ops = fd[u][i].ops
  BY ExitFacts
<1>2. /\ live' = live \ {p} /\ fresh' = fresh /\ halt' = halt
      /\ files' = [files EXCEPT ![p] = None]
      /\ image' = [image EXCEPT ![p] = None]
      /\ program' = [program EXCEPT ![p] = None]
      /\ held' = [held EXCEPT ![p] = {}]
  BY DEF Exit, FreshOnExit
<1>3. TypeOK'
  BY <1>1, <1>2 DEF IInv, TypeOK
<1>4. ASSUME NEW q \in live'
      PROVE  /\ q \in live /\ q \in Procs /\ files[q] \in Tables /\ files[q] # files[p]
             /\ files'[q] = files[q] /\ image'[q] = image[q]
             /\ program'[q] = program[q] /\ held'[q] = held[q]
             /\ fd'[files[q]] = fd[files[q]]
  <2>1. q \in live /\ q # p /\ q \in Procs
    BY <1>2 DEF IInv, TypeOK
  <2>2. files[q] \in Tables /\ files[q] # files[p]
    BY <1>1, <2>1 DEF IInv, OwnTables
  <2> QED BY <1>1, <1>2, <2>1, <2>2 DEF IInv, TypeOK
<1>5. OwnTables'
  BY <1>2, <1>4 DEF IInv, OwnTables
<1>6. DeadHoldNothing'
  BY <1>1, <1>2 DEF IInv, TypeOK, DeadHoldNothing
<1>7. HeldIsFile'
  BY <1>4 DEF IInv, HeldIsFile, Entry
<1>8. ProgramReadsItsFile'
  <2> SUFFICES ASSUME NEW q \in live', image'[q] # None
               PROVE  LET e == fd'[image'[q][1]][image'[q][2]]
                      IN  e.ops = "fat32" /\ e.on = program'[q]
    BY DEF ProgramReadsItsFile
  <2>1. image[q] # None /\ image[q][1] \in Tables /\ image[q][2] \in Fds
    BY <1>4 DEF IInv, TypeOK
  <2>2. LET e == fd[image[q][1]][image[q][2]]
        IN  e.ops = "fat32" /\ e.on = program[q]
    BY <1>4, <2>1 DEF IInv, ProgramReadsItsFile
  <2>3. \A u \in Tables, i \in Fds :
          fd'[u][i].on = fd[u][i].on /\ fd'[u][i].ops = fd[u][i].ops
    BY <1>1
  <2>4. /\ fd'[image[q][1]][image[q][2]].on = fd[image[q][1]][image[q][2]].on
        /\ fd'[image[q][1]][image[q][2]].ops = fd[image[q][1]][image[q][2]].ops
    BY <2>1, <2>3
  <2> QED BY <1>4, <2>2, <2>4
<1>9. ImagesKept'
  BY <1>2, <1>4 DEF IInv, ImagesKept
<1> QED BY <1>3, <1>5, <1>6, <1>7, <1>8, <1>9 DEF IInv

\* IInv is inductive.
LEMMA NextIInv == ASSUME FdAssumption, IInv, [Next]_vars PROVE IInv'
<1>1. CASE UNCHANGED vars
  <2>1. TypeOK' /\ OwnTables' /\ DeadHoldNothing'
    BY <1>1 DEF vars, IInv, TypeOK, OwnTables, DeadHoldNothing
  <2>2. HeldIsFile' /\ ProgramReadsItsFile' /\ ImagesKept'
    BY <1>1 DEF vars, IInv, HeldIsFile, Entry, ProgramReadsItsFile, ImagesKept
  <2> QED BY <2>1, <2>2 DEF IInv
<1>2. ASSUME NEW p \in Procs, NEW path \in Paths,
             \/ \E flags \in Flags : Open(p, path, flags)
             \/ Execve(p, path) \/ ExecveNoProgram(p, path) \/ ExecveNoFile(p, path)
      PROVE  IInv'
  BY <1>2, OpenIInv, ExecveIInv, ExecveNoProgramIInv, ExecveNoFileIInv
<1>3. ASSUME NEW p \in Procs, NEW i \in Fds,
             \/ Close(p, i)
             \/ \E x \in Offsets : Lseek(p, i, x)
             \/ \E n \in 1 .. Room : Read(p, i, n) \/ Write(p, i, n) \/ Breaks(p, i, n)
      PROVE  IInv'
  BY <1>3, CloseIInv, LseekIInv, ReadIInv, WriteIInv, BreaksIInv
<1>4. ASSUME NEW p \in Procs,
             \/ \E x \in Offsets : Fault(p, x)
             \/ \E c \in Procs : Fork(p, c)
             \/ Exit(p)
      PROVE  IInv'
  BY <1>4, FaultIInv, ForkIInv, ExitIInv
<1> QED BY <1>1, <1>2, <1>3, <1>4 DEF Next

THEOREM Invariance == Spec => []IInv
<1>1. Init => IInv
  BY FdAssumption, InitIInv
<1>2. IInv /\ [Next]_vars => IInv'
  BY FdAssumption, NextIInv
<1> QED BY <1>1, <1>2, PTL DEF Spec

\* The types of the tables, images and descriptors.
THEOREM TypeCorrect == Spec => []TypeOK
<1>1. IInv => TypeOK
  BY DEF IInv
<1> QED BY <1>1, Invariance, PTL

\* What open or fork gave a program stays opened on its file, through every
\* call of every process (sys_openat, sys_close, do_fork, do_execve, do_exit).
THEOREM HeldStaysFile == Spec => []HeldIsFile
<1>1. IInv => HeldIsFile
  BY DEF IInv
<1> QED BY <1>1, Invariance, PTL

\* do_page_fault reads the pages of a program from the file it was executed
\* from, though the structure it goes through may be in the table of another
\* process, or of one that has exited.
THEOREM ProgramsReadTheirFiles == Spec => []ProgramReadsItsFile
<1>1. IInv => ProgramReadsItsFile
  BY DEF IInv
<1> QED BY <1>1, Invariance, PTL

-----------------------------------------------------------------------------
(* Refinement: what programs hold are descriptors of their own.            *)

Shown == [p \in Procs |-> Descs(p)]

LEMMA SameDescs ==
    ASSUME NEW p, held'[p] = held[p],
           \A i \in held[p] : fd'[files'[p]][i] = fd[files[p]][i]
    PROVE  Descs(p)' = Descs(p)
BY DEF Descs, Entry

\* Who does not run holds nothing.
LEMMA DeadDescs ==
    ASSUME IInv, NEW p \in Procs \ live, held'[p] = held[p]
    PROVE  Descs(p)' = Descs(p)
BY SameDescs DEF IInv, DeadHoldNothing

\* Only the descriptors of p change, to D.
LEMMA OneShown ==
    ASSUME NEW p \in Procs, NEW D, Descs(p)' = D,
           \A q \in Procs \ {p} : Descs(q)' = Descs(q)
    PROVE  Shown' = [Shown EXCEPT ![p] = D]
BY DEF Shown

LEMMA ShownOf ==
    ASSUME NEW p \in Procs
    PROVE  /\ Shown[p] = Descs(p) /\ DOMAIN Shown[p] = held[p]
           /\ \A i \in held[p] :
                Shown[p][i] = [file |-> Entry(p, i).on, may |-> Entry(p, i).flags,
                               off |-> Entry(p, i).cfo]
BY DEF Shown, Descs

LEMMA HeldShown ==
    ASSUME NEW p \in Procs, NEW i \in held[p]
    PROVE  /\ i \in DOMAIN Shown[p]
           /\ Shown[p][i].file = Entry(p, i).on
           /\ Shown[p][i].may = Entry(p, i).flags
           /\ Shown[p][i].off = Entry(p, i).cfo
BY DEF Shown, Descs

\* A call that changes one entry of the table of p.
LEMMA OthersKeep ==
    ASSUME FdAssumption, IInv, NEW p \in live, NEW i, NEW r, Puts(files[p], i, r),
           files' = files, \A q \in Procs \ {p} : held'[q] = held[q]
    PROVE  /\ \A q \in Procs \ {p} : Descs(q)' = Descs(q)
           /\ Entry(p, i)' = r
           /\ \A j \in Fds \ {i} : Entry(p, j)' = Entry(p, j)
<1>1. /\ fd' \in [Tables -> [Fds -> FileStruct]]
      /\ fd'[files[p]][i] = r
      /\ \A u \in Tables, j \in Fds : u # files[p] \/ j # i => fd'[u][j] = fd[u][j]
  BY PutsFacts DEF IInv
<1>2. ASSUME NEW q \in Procs \ {p} PROVE Descs(q)' = Descs(q)
  <2>1. CASE q \in live
    <3>1. files[q] \in Tables /\ files[q] # files[p]
      BY <1>2, <2>1 DEF IInv, OwnTables
    <3>2. \A j \in held[q] : j \in Fds
      BY DEF IInv, TypeOK
    <3>3. \A j \in held[q] : fd'[files'[q]][j] = fd[files[q]][j]
      BY <1>1, <3>1, <3>2
    <3> QED BY <3>3, SameDescs
  <2>2. CASE q \notin live
    BY <2>2, DeadDescs
  <2> QED BY <2>1, <2>2
<1>3. files[p] \in Tables
  BY DEF IInv, OwnTables
<1> QED BY <1>1, <1>2, <1>3 DEF Entry

\* Nobody holds the entry that changes.
LEMMA UnheldUnseen ==
    ASSUME FdAssumption, IInv, NEW t, NEW i, NEW r, Puts(t, i, r),
           \A o \in live : files[o] = t => i \notin held[o],
           UNCHANGED <<live, files, held>>
    PROVE  UNCHANGED <<live, Shown>>
<1>1. \A u \in Tables, j \in Fds : u # t \/ j # i => fd'[u][j] = fd[u][j]
  BY PutsFacts DEF IInv
<1>2. ASSUME NEW q \in Procs PROVE Descs(q)' = Descs(q)
  <2>1. CASE q \in live
    <3>1. files[q] \in Tables /\ held[q] \subseteq Fds
      BY <2>1 DEF IInv, TypeOK, OwnTables
    <3>2. \A j \in held[q] : fd'[files'[q]][j] = fd[files[q]][j]
      BY <1>1, <2>1, <3>1
    <3> QED BY <3>2, SameDescs
  <2>2. CASE q \notin live
    BY <2>2, DeadDescs
  <2> QED BY <2>1, <2>2
<1> QED BY <1>2 DEF Shown

LEMMA VacantUnseen ==
    ASSUME FdAssumption, IInv, NEW p \in live, NEW i \in Vacant(p), NEW r,
           Puts(files[p], i, r), UNCHANGED <<live, files, held>>
    PROVE  UNCHANGED <<live, Shown>>
<1>1. \A o \in live : files[o] = files[p] => i \notin held[o]
  BY VacantNotHeld DEF IInv, OwnTables
<1> QED BY <1>1, UnheldUnseen

\* A failed open, and every execve, is seen by nobody.
LEMMA TakenUnseen ==
    ASSUME FdAssumption, IInv, NEW p, NEW path \in Paths,
           \/ \E flags \in Flags : Open(p, path, flags) /\ ~Opens(path)
           \/ Execve(p, path) \/ ExecveNoProgram(p, path) \/ ExecveNoFile(p, path)
    PROVE  UNCHANGED <<live, Shown>>
<1> DEFINE i == First(p)
           r == fd[files[p]][i]
           o == FileOpen(r, path, {"read"})
<1>1. p \in live /\ i \in Vacant(p) /\ i \in Fds
  BY FirstIsVacant DEF Open, Execve, ExecveNoProgram, ExecveNoFile, Runs
<1>2. files[p] \in Tables /\ r \in FileStruct
  BY <1>1, EntryType
<1>3. UNCHANGED <<live, files, held>>
  BY DEF Open, Execve, ExecveNoProgram, ExecveNoFile
<1>4. \E e \in FileStruct : fd' = [fd EXCEPT ![files[p]][i] = e]
  <2>1. /\ o \in FileStruct
        /\ Opens(path) => Header(o) \in FileStruct /\ Closed(Header(o)) \in FileStruct
    <3>1. o \in FileStruct /\ (Opens(path) => o.on = path)
      BY <1>2, FileOpenFacts DEF Rights
    <3> HIDE DEF o
    <3> QED BY <3>1, HeaderFacts, ClosedFacts DEF Opens
  <2>2. ASSUME NEW flags \in Flags, Open(p, path, flags)
        PROVE  \E e \in FileStruct : fd' = [fd EXCEPT ![files[p]][i] = e]
    <3>1. flags \in SUBSET Rights
      BY DEF FdAssumption, Rights
    <3>2. FileOpen(r, path, flags) \in FileStruct
      BY <1>2, <3>1, FileOpenFacts
    <3>3. fd' = [fd EXCEPT ![files[p]][i] = FileOpen(r, path, flags)]
      BY <1>1, <1>2, <2>2 DEF Open
    <3> QED BY <3>2, <3>3
  <2>3. ASSUME Execve(p, path)
        PROVE  \E e \in FileStruct : fd' = [fd EXCEPT ![files[p]][i] = e]
    <3>1. Opens(path)
      BY <2>3 DEF Execve, Opens, Files
    <3>2. fd' = [fd EXCEPT ![files[p]][i] = Header(o)]
      BY <1>1, <1>2, <2>3 DEF Execve
    <3> QED BY <2>1, <3>1, <3>2
  <2>4. ASSUME ExecveNoProgram(p, path)
        PROVE  \E e \in FileStruct : fd' = [fd EXCEPT ![files[p]][i] = e]
    <3>1. Opens(path)
      BY <2>4 DEF ExecveNoProgram, Opens, Files
    <3>2. fd' = [fd EXCEPT ![files[p]][i] = Closed(Header(o))]
      BY <1>1, <1>2, <2>4 DEF ExecveNoProgram
    <3> QED BY <2>1, <3>1, <3>2
  <2>5. ASSUME ExecveNoFile(p, path)
        PROVE  \E e \in FileStruct : fd' = [fd EXCEPT ![files[p]][i] = e]
    <3>1. fd' = [fd EXCEPT ![files[p]][i] = o]
      BY <1>1, <1>2, <2>5 DEF ExecveNoFile
    <3> QED BY <2>1, <3>1
  <2> QED BY <2>2, <2>3, <2>4, <2>5
<1> HIDE DEF i, r, o
<1>5. PICK e \in FileStruct : fd' = [fd EXCEPT ![files[p]][i] = e]
  BY <1>4
<1>6. Puts(files[p], i, e)
  BY <1>1, <1>2, <1>5 DEF Puts
<1> QED BY <1>1, <1>3, <1>6, VacantUnseen

LEMMA FaultUnseen ==
    ASSUME FdAssumption, IInv, NEW p, NEW x \in Offsets, Fault(p, x)
    PROVE  UNCHANGED <<live, Shown>>
<1> DEFINE t == image[p][1]
           i == image[p][2]
           y == ReadTo(fd[t][i].on, x, PGSIZE)
           r == [fd[t][i] EXCEPT !.cfo = y]
<1>1. p \in live /\ image[p] # None /\ p \in Procs
  BY DEF Fault, Runs, IInv, TypeOK
<1>2. t \in Tables /\ i \in Fds
  BY <1>1 DEF IInv, TypeOK
<1>3. /\ fd[t][i].on # None
      /\ fd' = [fd EXCEPT ![t][i].cfo = y]
      /\ UNCHANGED <<live, files, held>>
  BY DEF Fault
<1>4. \A o \in live : files[o] = t => i \notin held[o]
  BY <1>1 DEF IInv, ImagesKept
<1> HIDE DEF t, i
<1>5. fd[t][i] \in FileStruct
  BY <1>2 DEF IInv, TypeOK
<1>6. y \in Offsets
  <2>1. fd[t][i].on \in Files
    BY <1>3, <1>5 DEF FileStruct
  <2>2. x \in Nat /\ PGSIZE \in Nat
    BY DEF FdAssumption, Offsets
  <2> QED BY <2>1, <2>2, ReadToFacts
<1> HIDE DEF y
<1>7. r \in FileStruct
  BY <1>5, <1>6 DEF FileStruct
<1>8. fd' = [fd EXCEPT ![t][i] = r]
  BY <1>2, <1>3 DEF IInv, TypeOK
<1> HIDE DEF r
<1>9. Puts(t, i, r)
  BY <1>2, <1>7, <1>8 DEF Puts
<1> QED BY <1>3, <1>4, <1>9, UnheldUnseen

LEMMA OpenShown ==
    ASSUME FdAssumption, IInv, NEW p, NEW path \in Paths, NEW flags \in Flags,
           Open(p, path, flags), Opens(path)
    PROVE  /\ First(p) \in Fds /\ live' = live
           /\ Desc!Open(p, First(p), path, flags)
<1>1. p \in live /\ First(p) \in Vacant(p) /\ First(p) \in Fds
  BY FirstIsVacant DEF Open, Runs
<1>2. PICK i \in Fds : i = First(p)
  BY <1>1
<1>3. p \in Procs /\ files[p] \in Tables /\ fd[files[p]][i] \in FileStruct
  BY <1>1, EntryType
<1>4. PICK r \in FileStruct :
         /\ r.on = path /\ r.flags = flags /\ r.cfo = 0
         /\ fd' = [fd EXCEPT ![files[p]][i] = r]
  <2> DEFINE o == FileOpen(fd[files[p]][i], path, flags)
  <2>1. flags \in SUBSET Rights
    BY DEF FdAssumption, Rights
  <2>2. o \in FileStruct /\ o.on = path /\ o.flags = flags /\ o.cfo = 0
    BY <1>3, <2>1, FileOpenFacts
  <2>3. fd' = [fd EXCEPT ![files[p]][i] = o]
    BY <1>2, <1>3 DEF Open
  <2> QED BY <2>2, <2>3
<1>5. /\ Puts(files[p], i, r)
      /\ held' = [held EXCEPT ![p] = @ \cup {i}]
      /\ UNCHANGED <<live, files>>
  BY <1>2, <1>3, <1>4 DEF Open, Puts
<1>6. held'[p] = held[p] \cup {i} /\ \A q \in Procs \ {p} : held'[q] = held[q]
  BY <1>3, <1>5 DEF IInv, TypeOK
<1>7. /\ \A q \in Procs \ {p} : Descs(q)' = Descs(q)
      /\ Entry(p, i)' = r
      /\ \A j \in Fds \ {i} : Entry(p, j)' = Entry(p, j)
  BY <1>1, <1>5, <1>6, OthersKeep
<1>8. i \notin held[p] /\ held[p] \subseteq Fds
  BY <1>1, <1>2, <1>3, VacantNotHeld DEF IInv, TypeOK
<1>9. PICK D : D = [j \in DOMAIN Shown[p] \cup {i} |->
                      IF j = i THEN [file |-> path, may |-> flags, off |-> 0]
                      ELSE Shown[p][j]]
  OBVIOUS
<1>10. Descs(p)' = D
  <2>1. DOMAIN Shown[p] = held[p]
        /\ \A j \in held[p] :
             Shown[p][j] = [file |-> Entry(p, j).on, may |-> Entry(p, j).flags,
                            off |-> Entry(p, j).cfo]
    BY <1>3, ShownOf
  <2>2. Descs(p)' = [j \in held'[p] |-> [file |-> Entry(p, j)'.on,
                                         may |-> Entry(p, j)'.flags,
                                         off |-> Entry(p, j)'.cfo]]
    BY DEF Descs
  <2> QED BY <1>4, <1>6, <1>7, <1>8, <1>9, <2>1, <2>2
<1>11. Shown' = [Shown EXCEPT ![p] = D]
  BY <1>3, <1>7, <1>10, OneShown
<1>12. DOMAIN Shown[p] = held[p]
  BY <1>3, ShownOf
<1> QED BY <1>2, <1>5, <1>8, <1>9, <1>11, <1>12 DEF Desc!Open, Shown

LEMMA CloseShown ==
    ASSUME FdAssumption, IInv, NEW p, NEW i, Close(p, i)
    PROVE  live' = live /\ Desc!Close(p, i)
<1>1. p \in live /\ p \in Procs /\ i \in held[p] /\ i \in Fds /\ files[p] \in Tables
  BY HeldFacts DEF Close, Runs, IInv, TypeOK
<1>2. PICK r \in FileStruct : r = Closed(fd[files[p]][i])
  BY <1>1, HeldFacts, ClosedFacts
<1>3. /\ Puts(files[p], i, r)
      /\ held' = [held EXCEPT ![p] = @ \ {i}]
      /\ UNCHANGED <<live, files>>
  BY <1>1, <1>2 DEF Close, Puts
<1>4. held'[p] = held[p] \ {i} /\ \A q \in Procs \ {p} : held'[q] = held[q]
  BY <1>1, <1>3 DEF IInv, TypeOK
<1>5. /\ \A q \in Procs \ {p} : Descs(q)' = Descs(q)
      /\ \A j \in Fds \ {i} : Entry(p, j)' = Entry(p, j)
  BY <1>1, <1>3, <1>4, OthersKeep
<1>6. PICK D : D = [j \in DOMAIN Shown[p] \ {i} |-> Shown[p][j]]
  OBVIOUS
<1>7. Descs(p)' = D
  <2>1. DOMAIN Shown[p] = held[p]
        /\ \A j \in held[p] :
             Shown[p][j] = [file |-> Entry(p, j).on, may |-> Entry(p, j).flags,
                            off |-> Entry(p, j).cfo]
    BY <1>1, ShownOf
  <2>2. Descs(p)' = [j \in held'[p] |-> [file |-> Entry(p, j)'.on,
                                         may |-> Entry(p, j)'.flags,
                                         off |-> Entry(p, j)'.cfo]]
    BY DEF Descs
  <2>3. held[p] \subseteq Fds
    BY <1>1 DEF IInv, TypeOK
  <2> QED BY <1>4, <1>5, <1>6, <2>1, <2>2, <2>3
<1>8. Shown' = [Shown EXCEPT ![p] = D]
  BY <1>1, <1>5, <1>7, OneShown
<1> QED BY <1>3, <1>6, <1>8 DEF Desc!Close, Desc!Restrict, Shown

\* lseek, read and write: the offset of one descriptor.
LEMMA OffsetShown ==
    ASSUME FdAssumption, IInv, NEW p \in live, NEW i \in held[p], NEW x \in Offsets,
           fd' = [fd EXCEPT ![files[p]][i].cfo = x],
           UNCHANGED <<live, files, held>>
    PROVE  Desc!Offset(p, i, x)
<1>1. /\ p \in Procs /\ i \in Fds /\ files[p] \in Tables
      /\ Entry(p, i) = fd[files[p]][i] /\ Entry(p, i) \in FileStruct
  BY HeldFacts DEF IInv, TypeOK
<1>2. PICK r : r = [Entry(p, i) EXCEPT !.cfo = x]
  OBVIOUS
<1>3. r \in FileStruct /\ r.on = Entry(p, i).on /\ r.flags = Entry(p, i).flags /\ r.cfo = x
  BY <1>1, <1>2 DEF FileStruct
<1>4. Puts(files[p], i, r)
  BY <1>1, <1>2, <1>3 DEF Puts, IInv, TypeOK
<1>5. /\ \A q \in Procs \ {p} : Descs(q)' = Descs(q)
      /\ Entry(p, i)' = r
      /\ \A j \in Fds \ {i} : Entry(p, j)' = Entry(p, j)
  BY <1>1, <1>4, OthersKeep
<1>6. PICK D : D = [Shown[p] EXCEPT ![i].off = x]
  OBVIOUS
<1>7. Descs(p)' = D
  <2>1. DOMAIN Shown[p] = held[p]
        /\ \A j \in held[p] :
             Shown[p][j] = [file |-> Entry(p, j).on, may |-> Entry(p, j).flags,
                            off |-> Entry(p, j).cfo]
    BY <1>1, ShownOf
  <2>2. Descs(p)' = [j \in held'[p] |-> [file |-> Entry(p, j)'.on,
                                         may |-> Entry(p, j)'.flags,
                                         off |-> Entry(p, j)'.cfo]]
    BY DEF Descs
  <2>3. held[p] \subseteq Fds
    BY <1>1 DEF IInv, TypeOK
  <2>4. Shown[p] = [j \in held[p] |-> [file |-> Entry(p, j).on,
                                       may |-> Entry(p, j).flags,
                                       off |-> Entry(p, j).cfo]]
    BY <1>1 DEF Shown, Descs
  <2>5. D = [j \in held[p] |-> IF j = i THEN [Shown[p][i] EXCEPT !.off = x]
                               ELSE Shown[p][j]]
    BY <1>6, <2>4
  <2>6. D[i] = [file |-> Entry(p, i).on, may |-> Entry(p, i).flags, off |-> x]
    <3>1. D[i] = [Shown[p][i] EXCEPT !.off = x]
      BY <2>5
    <3>2. Shown[p][i] = [file |-> Entry(p, i).on, may |-> Entry(p, i).flags,
                         off |-> Entry(p, i).cfo]
      BY <2>1
    <3> QED BY <3>1, <3>2
  <2>7. \A j \in held[p] :
          [file |-> Entry(p, j)'.on, may |-> Entry(p, j)'.flags,
           off |-> Entry(p, j)'.cfo] = D[j]
    BY <1>3, <1>5, <2>1, <2>3, <2>5, <2>6
  <2>8. D = [j \in held[p] |-> D[j]]
    BY <2>5
  <2> QED BY <2>2, <2>7, <2>8
<1>8. Shown' = [Shown EXCEPT ![p] = D]
  BY <1>1, <1>5, <1>7, OneShown
<1>9. Shown' = [Shown EXCEPT ![p][i].off = x] /\ i \in DOMAIN Shown[p]
  BY <1>1, <1>6, <1>8, ShownOf DEF Shown
<1> QED BY <1>9 DEF Desc!Offset, Shown

LEMMA ReadShown ==
    ASSUME FdAssumption, IInv, NEW p, NEW i, NEW n \in 1 .. Room, Read(p, i, n)
    PROVE  live' = live /\ Desc!Read(p, i, n)
<1> DEFINE x == ReadTo(Entry(p, i).on, Entry(p, i).cfo, n)
<1>1. /\ p \in live /\ i \in held[p] /\ x \in Offsets
      /\ fd' = [fd EXCEPT ![files[p]][i].cfo = x]
  BY ReadMoves, ZenonT(60)
<1>2. UNCHANGED <<live, files, held>>
  BY DEF Read
<1>3. Desc!Offset(p, i, x)
  <2> HIDE DEF x
  <2> QED BY <1>1, <1>2, OffsetShown
<1>4. "read" \in Entry(p, i).flags /\ Entry(p, i).cfo <= Size[Entry(p, i).on]
  BY DEF Read, CanRead
<1>5. /\ i \in DOMAIN Shown[p]
      /\ Shown[p][i].file = Entry(p, i).on /\ Shown[p][i].may = Entry(p, i).flags
      /\ Shown[p][i].off = Entry(p, i).cfo
  <2>1. p \in Procs /\ i \in held[p]
    BY <1>1 DEF IInv, TypeOK
  <2> QED BY <2>1, HeldShown
<1>6. x = IF Shown[p][i].off + n > Size[Shown[p][i].file] THEN Size[Shown[p][i].file]
          ELSE Shown[p][i].off + n
  BY <1>5 DEF ReadTo
<1> HIDE DEF x
<1> QED BY <1>2, <1>3, <1>4, <1>5, <1>6 DEF Desc!Read, Shown

LEMMA WriteShown ==
    ASSUME FdAssumption, IInv, NEW p, NEW i, NEW n \in 1 .. Room, Write(p, i, n)
    PROVE  live' = live /\ Desc!Write(p, i, n)
<1> DEFINE x == Entry(p, i).cfo + n
<1>1. /\ p \in live /\ i \in held[p] /\ x \in Offsets
      /\ fd' = [fd EXCEPT ![files[p]][i].cfo = x]
  BY WriteMoves, ZenonT(60)
<1>2. UNCHANGED <<live, files, held>>
  BY DEF Write
<1>3. Desc!Offset(p, i, x)
  <2> HIDE DEF x
  <2> QED BY <1>1, <1>2, OffsetShown
<1>4. "write" \in Entry(p, i).flags
  BY DEF Write
<1>5. /\ i \in DOMAIN Shown[p]
      /\ Shown[p][i].may = Entry(p, i).flags /\ Shown[p][i].off = Entry(p, i).cfo
  <2>1. p \in Procs /\ i \in held[p]
    BY <1>1 DEF IInv, TypeOK
  <2> QED BY <2>1, HeldShown
<1> QED BY <1>2, <1>3, <1>4, <1>5 DEF Desc!Write, Shown

\* The files that fork opens again are those of the father, where he was.
LEMMA ForkShown ==
    ASSUME FdAssumption, IInv, NEW p, NEW c \in Procs, Fork(p, c)
    PROVE  Desc!Spawn(p, c)
<1>1. PICK t \in fresh :
         /\ files' = [files EXCEPT ![c] = t]
         /\ fd' = [fd EXCEPT ![t] = [i \in Fds |-> Reopened(Entry(p, i))]]
  BY DEF Fork
<1>2. /\ p \in live /\ c \notin live /\ live' = live \cup {c}
      /\ held' = [held EXCEPT ![c] = held[p]]
  BY DEF Fork, Runs
<1>3. /\ p \in Procs /\ p # c /\ t \in Tables
      /\ fd' \in [Tables -> [Fds -> FileStruct]]
      /\ files'[c] = t /\ \A q \in live : files'[q] = files[q] /\ files[q] # t
      /\ \A u \in Tables : u # t => fd'[u] = fd[u]
      /\ \A i \in Fds : fd'[t][i] = Reopened(Entry(p, i))
  BY <1>1, <1>2, ForkFacts
<1>4. held'[c] = held[p] /\ \A q \in Procs \ {c} : held'[q] = held[q]
  BY <1>2 DEF IInv, TypeOK
<1>5. ASSUME NEW q \in Procs \ {c} PROVE Descs(q)' = Descs(q)
  <2>1. CASE q \in live
    <3>1. files[q] \in Tables
      BY <2>1 DEF IInv, OwnTables
    <3>2. \A i \in held[q] : fd'[files'[q]][i] = fd[files[q]][i]
      BY <1>3, <2>1, <3>1
    <3> QED BY <1>4, <3>2, SameDescs
  <2>2. CASE q \notin live
    BY <1>4, <2>2, DeadDescs
  <2> QED BY <2>1, <2>2
<1>6. ASSUME NEW i \in held[p]
      PROVE  /\ Entry(c, i)'.on = Entry(p, i).on /\ Entry(c, i)'.cfo = Entry(p, i).cfo
             /\ Entry(c, i)'.flags = Entry(p, i).flags
  <2>1. i \in Fds /\ Entry(p, i) \in FileStruct /\ IsFile(Entry(p, i))
    BY <1>2, HeldFacts
  <2>2. Entry(c, i)' = Reopened(Entry(p, i))
    BY <1>3, <2>1 DEF Entry
  <2> QED BY <2>1, <2>2, ReopenedFacts DEF IsFile
<1>7. Descs(c)' = Shown[p]
  <2>1. Descs(c)' = [i \in held[p] |-> [file |-> Entry(c, i)'.on,
                                        may |-> Entry(c, i)'.flags,
                                        off |-> Entry(c, i)'.cfo]]
    BY <1>4 DEF Descs
  <2>2. Shown[p] = [i \in held[p] |-> [file |-> Entry(p, i).on,
                                       may |-> Entry(p, i).flags,
                                       off |-> Entry(p, i).cfo]]
    BY <1>3 DEF Shown, Descs
  <2> QED BY <1>6, <2>1, <2>2
<1>8. PICK D : D = Shown[p]
  OBVIOUS
<1>9. Shown' = [Shown EXCEPT ![c] = D]
  BY <1>5, <1>7, <1>8, OneShown
<1> QED BY <1>2, <1>8, <1>9 DEF Desc!Spawn, Shown

LEMMA ExitShown ==
    ASSUME FdAssumption, IInv, NEW p, Exit(p)
    PROVE  Desc!Die(p)
<1>1. /\ p \in live /\ p \in Procs /\ files[p] \in Tables
      /\ \A u \in Tables : u # files[p] => fd'[u] = fd[u]
  BY ExitFacts
<1>2. /\ p # Root /\ live' = live \ {p}
      /\ files' = [files EXCEPT ![p] = None]
      /\ held' = [held EXCEPT ![p] = {}]
  BY DEF Exit
<1>3. held'[p] = {} /\ \A q \in Procs \ {p} : held'[q] = held[q]
  BY <1>1, <1>2 DEF IInv, TypeOK
<1>4. ASSUME NEW q \in Procs \ {p} PROVE Descs(q)' = Descs(q)
  <2>1. CASE q \in live
    <3>1. files[q] \in Tables /\ files[q] # files[p] /\ files'[q] = files[q]
      BY <1>1, <1>2, <2>1 DEF IInv, TypeOK, OwnTables
    <3> QED BY <1>1, <1>3, <3>1, SameDescs
  <2>2. CASE q \notin live
    BY <1>3, <2>2, DeadDescs
  <2> QED BY <2>1, <2>2
<1>5. Descs(p)' = Desc!Nothing
  BY <1>3 DEF Descs, Desc!Nothing
<1>6. Shown' = [Shown EXCEPT ![p] = Desc!Nothing]
  BY <1>1, <1>4, <1>5, OneShown DEF Desc!Nothing
<1> QED BY <1>2, <1>6 DEF Desc!Die, Shown

LEMMA DescStep ==
    ASSUME FdAssumption, IInv, [Next]_vars
    PROVE  [Desc!Next]_(Desc!dvars)
<1>1. UNCHANGED <<live, Shown>> <=> UNCHANGED Desc!dvars
  BY DEF Desc!dvars, Shown
<1>2. \A p : Runs(p) => p \in live
  BY DEF Runs
<1>3. CASE UNCHANGED vars
  BY <1>1, <1>3 DEF vars, Shown, Descs, Entry
<1>4. ASSUME NEW p \in Procs, NEW path \in Paths,
             \/ \E flags \in Flags : Open(p, path, flags)
             \/ Execve(p, path) \/ ExecveNoProgram(p, path) \/ ExecveNoFile(p, path)
      PROVE  [Desc!Next]_(Desc!dvars)
  <2>1. ASSUME NEW flags \in Flags, Open(p, path, flags), Opens(path)
        PROVE  Desc!Next
    <3>1. flags \in SUBSET Rights /\ path \in Files /\ p \in live
      BY <1>2, <2>1 DEF FdAssumption, Rights, Opens, Open
    <3>2. /\ First(p) \in Fds /\ live' = live
          /\ Desc!Open(p, First(p), path, flags)
      BY <2>1, OpenShown
    <3> QED BY <3>1, <3>2 DEF Desc!Next
  <2>2. CASE ~(\E flags \in Flags : Open(p, path, flags) /\ Opens(path))
    BY <1>1, <1>4, <2>2, TakenUnseen
  <2> QED BY <2>1, <2>2
<1>5. ASSUME NEW p \in Procs, NEW i \in Fds,
             \/ Close(p, i)
             \/ \E x \in Offsets : Lseek(p, i, x)
             \/ \E n \in 1 .. Room : Read(p, i, n) \/ Write(p, i, n)
      PROVE  Desc!Next
  <2>1. p \in live /\ live' = live
    BY <1>2, <1>5 DEF Close, Lseek, Read, Write
  <2>2. 1 .. Room \subseteq Offsets
    BY DEF FdAssumption, Offsets
  <2>3. \A x \in Offsets : Lseek(p, i, x) => Desc!Offset(p, i, x)
    BY OffsetShown DEF Lseek, Runs
  <2> QED BY <1>5, <2>1, <2>2, <2>3, CloseShown, ReadShown, WriteShown DEF Desc!Next
<1>6. ASSUME NEW p, NEW i, NEW n, Breaks(p, i, n) PROVE UNCHANGED Desc!dvars
  BY <1>1, <1>6 DEF Breaks, Shown, Descs, Entry
<1>7. ASSUME NEW p \in Procs, NEW x \in Offsets, Fault(p, x)
      PROVE  UNCHANGED Desc!dvars
  BY <1>1, <1>7, FaultUnseen
<1>8. ASSUME NEW p \in Procs,
             (\E c \in Procs : Fork(p, c)) \/ Exit(p)
      PROVE  Desc!Next
  <2>1. p \in live
    BY <1>2, <1>8 DEF Fork, Exit
  <2> QED BY <1>8, <2>1, ForkShown, ExitShown DEF Desc!Next
<1> QED BY <1>3, <1>4, <1>5, <1>6, <1>7, <1>8 DEF Next

\* A program's descriptors are its own: neither the tables of others, nor fork
\* opening files again by their paths, nor failed opens, nor the page faults of
\* programs that read through a table show in them.
THEOREM DescriptorsAreOwn == Spec => DescSpec
<1>1. ASSUME Init PROVE Desc!Init
  <2>1. \A p \in Procs : Descs(p) = Desc!Nothing
    BY <1>1 DEF Init, Descs, Desc!Nothing
  <2> QED BY <1>1, <2>1 DEF Init, Desc!Init
<1>2. IInv /\ [Next]_vars => [Desc!Next]_(Desc!dvars)
  BY DescStep, FdAssumption
<1> QED BY <1>1, <1>2, Invariance, PTL DEF Spec, DescSpec, Desc!Spec

=============================================================================
