------------------------------ MODULE ProcTree ------------------------------
(***************************************************************************)
(* What the process code promises its users, without slots, arrays, queues *)
(* or schedules: a set of processes under one root.  A live process may    *)
(* have a child; a process that dies leaves its children to the root and   *)
(* is remembered until it is reaped.  Implemented by Proc.                 *)
(*                                                                         *)
(* A dying process may hand processes to the root that are not its         *)
(* children: the kernel's list of children keeps the numbers of reaped     *)
(* ones, which may have been given to others since.                        *)
(***************************************************************************)
EXTENDS Functions

CONSTANTS
    Proc,   \* the names of processes
    Root    \* the process that is never reaped

VARIABLES
    live,   \* the processes that have not exited
    dead,   \* those that have, and are not reaped
    father  \* the father of each of them but the root

tvars == <<live, dead, father>>

Init == live = {Root} /\ dead = {} /\ father = [q \in {} |-> Root]

Spawn(p, c) ==
    /\ p \in live
    /\ c \notin live \cup dead
    /\ live' = live \cup {c}
    /\ father' = [q \in DOMAIN father \cup {c} |-> IF q = c THEN p ELSE father[q]]
    /\ UNCHANGED dead

Die(p, handed) ==
    /\ p \in live \ {Root}
    /\ \A q \in DOMAIN father : father[q] = p => q \in handed
    /\ live' = live \ {p}
    /\ dead' = dead \cup {p}
    /\ father' = [q \in DOMAIN father |-> IF q \in handed THEN Root ELSE father[q]]

\* Any dead process may be taken away: whose child it is is not asked.
Reap(z) ==
    /\ z \in dead
    /\ dead' = dead \ {z}
    /\ father' = Restrict(father, DOMAIN father \ {z})
    /\ UNCHANGED live

Next ==
    \/ \E p, c \in Proc : Spawn(p, c)
    \/ \E p \in Proc, handed \in SUBSET Proc : Die(p, handed)
    \/ \E z \in Proc : Reap(z)

Spec == Init /\ [][Next]_tvars
=============================================================================
