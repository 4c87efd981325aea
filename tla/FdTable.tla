------------------------------ MODULE FdTable ------------------------------
(***************************************************************************)
(* Open files: the descriptor tables of the processes, the system calls    *)
(* that use them (ksyscalls.c, file_open in fs.c, the offsets of fat32.c), *)
(* do_fork, which opens the father's files again by their paths, do_execve,*)
(* which keeps a program's file open, and the page faults that read pages  *)
(* of the program through it (do_page_fault in trap.c).                    *)
(*                                                                         *)
(* A call runs with interrupts off and is one action; one that returns -1  *)
(* and changes nothing is a stuttering step.  Files are counted in units,  *)
(* and what they contain is left out.  A program uses a descriptor only    *)
(* when open gave it, or fork with it, and it has not closed it since.     *)
(***************************************************************************)
EXTENDS Integers, FiniteSets

CONSTANTS
    Procs, Root,    \* processes, and the first one, task 1
    Tables,         \* pages of files_struct
    Fds,            \* 3 .. MAX_FILE_NUMBER - 1
    Data, Programs, \* the regular files of the volume
    Missing,        \* a path under /fat32/ that leads nowhere
    Foreign,        \* a path of another file system, or of none
    None,
    Flags,          \* rights that open is asked for
    Size,           \* Size[f]: units in file f
    Room,           \* units in the clusters of a file
    PGSIZE          \* units in a page

Files == Data \cup Programs
Paths == Files \cup {Missing, Foreign}

ASSUME FdAssumption ==
    /\ Root \in Procs
    /\ Fds \subseteq Nat /\ IsFiniteSet(Fds)
    /\ {Missing, Foreign, None} \cap Files = {}
    /\ Missing # Foreign /\ None \notin {Missing, Foreign} \cup Tables
    /\ Flags \subseteq SUBSET {"read", "write"}
    /\ PGSIZE \in Nat \ {0} /\ Room \in Nat
    /\ Size \in [Files -> 1 .. Room]

Rights == {"read", "write"}

VARIABLES
    halt,   \* after a read or write that never comes back
    live,   \* processes that have not exited
    files,  \* task[p]->files
    fresh,  \* pages that were never a files_struct
    fd,     \* fd[t][i]: descriptor i of the files_struct on page t
    image,  \* image[p]: the descriptor that p's pages are read through
    program,\* history: the file that p runs
    held    \* history: held[p]: the descriptors that open gave p (or the father
            \* of p) and that p has not closed

vars == <<halt, live, files, fresh, fd, image, program, held>>

Offsets == 0 .. Room

\* struct file: flags, path and fat32_file are those of the last file_open, and
\* ops says whether read, write and lseek were ever set.
FileStruct ==
    [opened : BOOLEAN, flags : SUBSET Rights, cfo : Offsets, path : Paths \cup {None},
     on : Files \cup {None}, ops : {"null", "fat32"}]

TypeOK ==
    /\ halt \in BOOLEAN
    /\ live \in SUBSET Procs
    /\ files \in [Procs -> Tables \cup {None}]
    /\ fresh \in SUBSET Tables
    /\ fd \in [Tables -> [Fds -> FileStruct]]
    /\ image \in [Procs -> (Tables \X Fds) \cup {None}]
    /\ program \in [Procs -> Programs \cup {None}]
    /\ held \in [Procs -> SUBSET Fds]

\* file_init.
Unused == [opened |-> FALSE, flags |-> {}, cfo |-> 0, path |-> None, on |-> None,
           ops |-> "null"]

Init ==
    /\ halt = FALSE
    /\ live = {Root}
    /\ \E t \in Tables :
         /\ files = [p \in Procs |-> IF p = Root THEN t ELSE None]
         /\ fresh = Tables \ {t}
    /\ fd = [t \in Tables |-> [i \in Fds |-> Unused]]
    /\ image = [p \in Procs |-> None]
    /\ program = [p \in Procs |-> None]
    /\ held = [p \in Procs |-> {}]

-----------------------------------------------------------------------------
(* open and close.                                                         *)

Runs(p) == ~halt /\ p \in live

\* Descriptor i of p.
Entry(p, i) == fd[files[p]][i]

\* file_open leaves the structure opened, whether it succeeds or not.  For a
\* path of no known file system it leaves the functions and the cluster alone.
FileOpen(r, path, flags) ==
    LET named == [r EXCEPT !.opened = TRUE, !.flags = flags, !.cfo = 0, !.path = path]
    IN  IF path = Foreign THEN named
        ELSE [named EXCEPT !.ops = "fat32",
                           !.on = IF path \in Files THEN path ELSE None]

Opens(path) == path \in Files

Vacant(p) == {i \in Fds : ~Entry(p, i).opened}

\* Fault: descriptors in use are not skipped.
FirstAny(p) == CHOOSE i \in Fds : \A j \in Fds : i <= j

\* The descriptor that sys_openat takes.
First(p) == CHOOSE i \in Vacant(p) : \A j \in Vacant(p) : i <= j

Open(p, path, flags) ==
    /\ Runs(p)
    /\ Vacant(p) # {}
    /\ fd' = [fd EXCEPT ![files[p]][First(p)] = FileOpen(@, path, flags)]
    /\ held' = IF Opens(path) THEN [held EXCEPT ![p] = @ \cup {First(p)}] ELSE held
    /\ UNCHANGED <<halt, live, files, fresh, image, program>>

\* sys_close.  Path and flags stay too, but the next file_open sets them.
Closed(r) == [r EXCEPT !.opened = FALSE, !.cfo = 0, !.flags = {}, !.path = None]

\* Programs close what they have opened.
Close(p, i) ==
    /\ Runs(p)
    /\ i \in held[p]
    /\ Entry(p, i).opened
    /\ fd' = [fd EXCEPT ![files[p]][i] = Closed(@)]
    /\ held' = [held EXCEPT ![p] = @ \ {i}]
    /\ UNCHANGED <<halt, live, files, fresh, image, program>>

-----------------------------------------------------------------------------
(* lseek, read and write, on what a program holds.  It seeks to places     *)
(* within the clusters of the file.                                        *)

\* fat32_lseek.  SEEK_END takes the offset from a data sector, so whatever the
\* mode, any place can be the result.
Lseek(p, i, x) ==
    /\ Runs(p)
    /\ i \in held[p]
    /\ Entry(p, i).opened /\ Entry(p, i).ops = "fat32"
    /\ fd' = [fd EXCEPT ![files[p]][i].cfo = x]
    /\ UNCHANGED <<halt, live, files, fresh, image, program, held>>

\* fat32_read: where a read of n units at x ends.
ReadTo(f, x, n) == IF x + n > Size[f] THEN Size[f] ELSE x + n

\* With the offset past the end the length wraps around and the loop runs on.
CanRead(r) == r.ops = "fat32" /\ r.on # None /\ r.cfo <= Size[r.on]

Read(p, i, n) ==
    /\ Runs(p)
    /\ i \in held[p]
    /\ Entry(p, i).opened /\ "read" \in Entry(p, i).flags
    /\ CanRead(Entry(p, i))
    /\ fd' = [fd EXCEPT ![files[p]][i].cfo = ReadTo(Entry(p, i).on, @, n)]
    /\ UNCHANGED <<halt, live, files, fresh, image, program, held>>

CanWrite(r, n) == r.ops = "fat32" /\ r.on # None /\ r.cfo + n <= Room

Write(p, i, n) ==
    /\ Runs(p)
    /\ i \in held[p]
    /\ Entry(p, i).opened /\ "write" \in Entry(p, i).flags
    /\ CanWrite(Entry(p, i), n)
    /\ fd' = [fd EXCEPT ![files[p]][i].cfo = @ + n]
    /\ UNCHANGED <<halt, live, files, fresh, image, program, held>>

\* A read or write that never comes back: through a function that was never
\* set, or over sectors that are not those of the file.
Breaks(p, i, n) ==
    /\ Runs(p)
    /\ i \in held[p]
    /\ Entry(p, i).opened
    /\ \/ "read" \in Entry(p, i).flags /\ ~CanRead(Entry(p, i))
       \/ "write" \in Entry(p, i).flags /\ ~CanWrite(Entry(p, i), n)
    /\ halt' = TRUE
    /\ UNCHANGED <<live, files, fresh, fd, image, program, held>>

-----------------------------------------------------------------------------
(* Programs: execve, page faults, fork and exit.                           *)

\* Where the sys_read of the first page leaves the offset.
Header(r) == [r EXCEPT !.cfo = ReadTo(r.on, 0, PGSIZE)]

\* The file's descriptor stays open: the areas of the program name it.
Execve(p, path) ==
    /\ Runs(p)
    /\ path \in Programs /\ Vacant(p) # {}
    /\ LET i == First(p) IN
         /\ fd' = [fd EXCEPT ![files[p]][i] = Header(FileOpen(@, path, {"read"}))]
         /\ image' = [image EXCEPT ![p] = <<files[p], i>>]
    /\ program' = [program EXCEPT ![p] = path]
    /\ UNCHANGED <<halt, live, files, fresh, held>>

\* A file that is no program: the descriptor is closed again.
ExecveNoProgram(p, path) ==
    /\ Runs(p)
    /\ path \in Data /\ Vacant(p) # {}
    /\ fd' = [fd EXCEPT ![files[p]][First(p)] =
                Closed(Header(FileOpen(@, path, {"read"})))]
    /\ UNCHANGED <<halt, live, files, fresh, image, program, held>>

\* A file that cannot be opened: the descriptor stays taken.
ExecveNoFile(p, path) ==
    /\ Runs(p)
    /\ ~Opens(path) /\ Vacant(p) # {}
    /\ fd' = [fd EXCEPT ![files[p]][First(p)] = FileOpen(@, path, {"read"})]
    /\ UNCHANGED <<halt, live, files, fresh, image, program, held>>

\* The first access to the page at x of the program, x within its file: lseek
\* and read through the structure that the area names, open or not, whoever's
\* table it is in.
Fault(p, x) ==
    /\ Runs(p)
    /\ image[p] # None
    /\ LET t == image[p][1]
           i == image[p][2]
       IN  /\ fd[t][i].on # None /\ x < Size[fd[t][i].on]
           /\ fd' = [fd EXCEPT ![t][i].cfo = ReadTo(fd[t][i].on, x, PGSIZE)]
    /\ UNCHANGED <<halt, live, files, fresh, image, program, held>>

\* Fault: the child's files start at the beginning.
ReopenedAtStart(r) ==
    IF r.opened THEN FileOpen(Unused, r.path, r.flags) ELSE Unused

\* do_fork opens again, by path, what is opened, and seeks to where it was.
Reopened(r) ==
    IF ~r.opened THEN Unused
    ELSE IF ~Opens(r.path) THEN FileOpen(Unused, r.path, r.flags)
    ELSE [FileOpen(Unused, r.path, r.flags) EXCEPT !.cfo = r.cfo]

Fork(p, c) ==
    /\ Runs(p)
    /\ c \notin live
    /\ \E t \in fresh :
         /\ fresh' = fresh \ {t}
         /\ files' = [files EXCEPT ![c] = t]
         /\ fd' = [fd EXCEPT ![t] = [i \in Fds |-> Reopened(Entry(p, i))]]
    /\ live' = live \cup {c}
    /\ image' = [image EXCEPT ![c] = image[p]]
    /\ program' = [program EXCEPT ![c] = program[p]]
    /\ held' = [held EXCEPT ![c] = held[p]]
    /\ UNCHANGED halt

\* Fault: the page of the table is handed out again.
FreshOnExitReused(p) == fresh \cup {files[p]}

\* free_pages leaves the page as it is, and nothing takes it again (Buddy).
FreshOnExit(p) == fresh

\* Task 1 cannot exit (Proc).
Exit(p) ==
    /\ Runs(p)
    /\ p # Root
    /\ fd' = [fd EXCEPT ![files[p]] =
                [i \in Fds |-> IF @[i].opened THEN Closed(@[i]) ELSE @[i]]]
    /\ fresh' = FreshOnExit(p)
    /\ live' = live \ {p}
    /\ files' = [files EXCEPT ![p] = None]
    /\ image' = [image EXCEPT ![p] = None]
    /\ program' = [program EXCEPT ![p] = None]
    /\ held' = [held EXCEPT ![p] = {}]
    /\ UNCHANGED halt

-----------------------------------------------------------------------------

Next ==
    \E p \in Procs :
        \/ \E path \in Paths :
             \/ \E flags \in Flags : Open(p, path, flags)
             \/ Execve(p, path) \/ ExecveNoProgram(p, path) \/ ExecveNoFile(p, path)
        \/ \E i \in Fds :
             \/ Close(p, i)
             \/ \E x \in Offsets : Lseek(p, i, x)
             \/ \E n \in 1 .. Room : Read(p, i, n) \/ Write(p, i, n) \/ Breaks(p, i, n)
        \/ \E x \in Offsets : Fault(p, x)
        \/ \E c \in Procs : Fork(p, c)
        \/ Exit(p)

Spec == Init /\ [][Next]_vars

-----------------------------------------------------------------------------
(* Safety.                                                                 *)

\* A descriptor that open gave a program, or that fork copied, stays opened on
\* the file it was opened for, whatever else is opened, executed or fails.
HeldIsFile ==
    \A p \in live : \A i \in held[p] :
        /\ Entry(p, i).opened /\ Entry(p, i).ops = "fat32"
        /\ Entry(p, i).on \in Files /\ Entry(p, i).on = Entry(p, i).path

\* The pages of a program come from the file that was executed, even when the
\* area still points into the table of a father that has exited since.
ProgramReadsItsFile ==
    \A p \in live :
        image[p] # None =>
            LET r == fd[image[p][1]][image[p][2]]
            IN  r.ops = "fat32" /\ r.on = program[p]

-----------------------------------------------------------------------------
(* Refinement.                                                             *)

Descs(p) ==
    [i \in held[p] |-> [file |-> Entry(p, i).on, may |-> Entry(p, i).flags,
                        off |-> Entry(p, i).cfo]]

Desc == INSTANCE Descriptors WITH
           Proc <- Procs, Fd <- Fds, File <- Files, Right <- Rights, Length <- Size,
           Count <- Offsets, alive <- live, desc <- [p \in Procs |-> Descs(p)]

\* What programs hold behaves as descriptors of their own: reopening in fork,
\* page faults of programs, failed opens and the tables do not show.
DescSpec == Desc!Spec
=============================================================================
