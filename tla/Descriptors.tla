---------------------------- MODULE Descriptors ----------------------------
(***************************************************************************)
(* What user programs are promised about open files, without the tables of *)
(* the kernel, the paths kept in them or the files that programs run from: *)
(* a descriptor that open returned is a file, a right and an offset of its *)
(* process alone, until that process closes it or exits.  Implemented by   *)
(* FdTable.                                                                *)
(***************************************************************************)
EXTENDS Naturals, Functions

CONSTANTS
    Proc,   \* the names of processes
    Fd,     \* the numbers of descriptors
    File,   \* the files there are
    Right,  \* what a file may be opened for: "read" or "write"
    Length, \* Length[f]: the number of units in f
    Count,  \* offsets and lengths that a call may name
    Root    \* the first process

VARIABLES
    alive,  \* the processes that run
    desc    \* desc[p]: the descriptors of p, with file, rights and offset

dvars == <<alive, desc>>

Nothing == [i \in {} |-> 0]

Init == alive = {Root} /\ desc = [p \in Proc |-> Nothing]

Open(p, i, f, may) ==
    /\ i \notin DOMAIN desc[p]
    /\ desc' = [desc EXCEPT ![p] =
                  [j \in DOMAIN desc[p] \cup {i} |->
                      IF j = i THEN [file |-> f, may |-> may, off |-> 0]
                      ELSE desc[p][j]]]

Close(p, i) == desc' = [desc EXCEPT ![p] = Restrict(desc[p], DOMAIN desc[p] \ {i})]

Offset(p, i, x) ==
    /\ i \in DOMAIN desc[p]
    /\ desc' = [desc EXCEPT ![p][i].off = x]

\* A read of n units stops at the end of the file.
Read(p, i, n) ==
    /\ i \in DOMAIN desc[p]
    /\ "read" \in desc[p][i].may
    /\ LET end == Length[desc[p][i].file] IN
         /\ desc[p][i].off <= end
         /\ Offset(p, i, IF desc[p][i].off + n > end THEN end ELSE desc[p][i].off + n)

Write(p, i, n) ==
    /\ i \in DOMAIN desc[p]
    /\ "write" \in desc[p][i].may
    /\ Offset(p, i, desc[p][i].off + n)

\* The child has the same descriptors, at the same offsets, which move apart.
Spawn(p, c) ==
    /\ c \notin alive
    /\ alive' = alive \cup {c}
    /\ desc' = [desc EXCEPT ![c] = desc[p]]

Die(p) ==
    /\ p # Root
    /\ alive' = alive \ {p}
    /\ desc' = [desc EXCEPT ![p] = Nothing]

Next ==
    \E p \in alive :
        \/ /\ \E i \in Fd :
                \/ \E f \in File, may \in SUBSET Right : Open(p, i, f, may)
                \/ Close(p, i)
                \/ \E n \in Count : Read(p, i, n) \/ Write(p, i, n) \/ Offset(p, i, n)
           /\ UNCHANGED alive
        \/ \E c \in Proc : Spawn(p, c)
        \/ Die(p)

Spec == Init /\ [][Next]_dvars
=============================================================================
