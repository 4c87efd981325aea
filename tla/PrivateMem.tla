----------------------------- MODULE PrivateMem -----------------------------
(***************************************************************************)
(* What user programs are promised about memory, without frames, page      *)
(* tables, reference counts or a TLB: every process has pages of its own.  *)
(* A child starts with a copy of its father's pages, and from then on only *)
(* the process itself changes what is in them.  Implemented by Cow.        *)
(*                                                                         *)
(* A page comes into being on its first access, with any contents: those   *)
(* of a file, or, since the kernel does not clear the frames it hands out, *)
(* whatever its frame held before.                                         *)
(***************************************************************************)
EXTENDS Functions

CONSTANTS
    Proc,   \* the names of processes
    Page,   \* the pages of an address space
    Value,  \* the contents of a page
    Root    \* the first process

VARIABLES
    alive,  \* the processes that run
    mem     \* mem[p]: the pages of p that have been touched, with contents

mvars == <<alive, mem>>

Nothing == [v \in {} |-> 0]

Init == alive = {Root} /\ mem = [p \in Proc |-> Nothing]

Touch(p, v, x) ==
    /\ v \notin DOMAIN mem[p]
    /\ mem' = [mem EXCEPT ![p] =
                 [u \in DOMAIN mem[p] \cup {v} |-> IF u = v THEN x ELSE mem[p][u]]]

Write(p, v, x) ==
    /\ v \in DOMAIN mem[p]
    /\ mem' = [mem EXCEPT ![p][v] = x]

\* munmap, and the loss of the whole image in execve.
Unmap(p, S) == mem' = [mem EXCEPT ![p] = Restrict(mem[p], DOMAIN mem[p] \ S)]

Spawn(p, c) ==
    /\ c \notin alive
    /\ alive' = alive \cup {c}
    /\ mem' = [mem EXCEPT ![c] = mem[p]]

Die(p) ==
    /\ p # Root
    /\ alive' = alive \ {p}
    /\ mem' = [mem EXCEPT ![p] = Nothing]

Next ==
    \E p \in alive :
        \/ /\ \/ \E v \in Page, x \in Value : Touch(p, v, x) \/ Write(p, v, x)
              \/ \E S \in SUBSET Page : Unmap(p, S)
           /\ UNCHANGED alive
        \/ \E c \in Proc : Spawn(p, c)
        \/ Die(p)

Spec == Init /\ [][Next]_mvars
=============================================================================
