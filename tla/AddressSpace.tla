---------------------------- MODULE AddressSpace ----------------------------
(***************************************************************************)
(* What a process may expect of its address space: mmap lays an area over  *)
(* a range, munmap takes one layer off a range that is covered throughout, *)
(* or changes nothing, and only pages under an area are ever backed by     *)
(* memory.  Implemented by Vma.                                            *)
(***************************************************************************)
EXTENDS Integers

CONSTANTS
    TOP,        \* end of the user addresses
    PAGE,       \* addresses in a page
    Programs    \* what a program may cover when it starts

VARIABLES
    down,       \* the kernel has followed a pointer it should not have
    cover,      \* cover[a]: the areas over address a
    backed      \* pages with a frame

Addr == 0 .. TOP - 1

asvars == <<down, cover, backed>>

Init == ~down /\ cover \in Programs /\ backed = {}

\* n layers are laid over a range of addresses, or taken off it.
Layer(n, range) ==
    /\ \A a, b \in range : a .. b \subseteq range
    /\ \A a \in range : cover'[a] = cover[a] + n

Changed == {a \in Addr : cover'[a] # cover[a]}

Map ==
    /\ UNCHANGED <<down, backed>>
    /\ \E range \in {Changed} : Layer(1, range)

\* One layer is taken off all of the range, and the frames under it go.
Unmap ==
    /\ UNCHANGED down
    /\ \E range \in {Changed} :
         /\ backed' = backed \ {a \div PAGE : a \in range}
         /\ Layer(-1, range)

Touch(a) ==
    /\ cover[a] > 0
    /\ backed' = backed \cup {a \div PAGE}
    /\ UNCHANGED <<down, cover>>

\* execve, or the end of the process.
Replace ==
    /\ cover' \in Programs
    /\ backed' = {}
    /\ UNCHANGED down

Crash == down' = TRUE

Next ==
    /\ ~down
    /\ \/ Map \/ Unmap \/ Replace \/ Crash
       \/ \E a \in Addr : Touch(a)

Spec == Init /\ [][Next]_asvars
=============================================================================
