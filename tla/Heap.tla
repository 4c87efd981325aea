-------------------------------- MODULE Heap --------------------------------
(***************************************************************************)
(* What malloc and free promise a program: a block is its own from malloc  *)
(* until free.  Implemented by Malloc.                                     *)
(***************************************************************************)
EXTENDS Integers

CONSTANT Sizes

VARIABLES
    held,   \* blocks in use: <<address, size>>
    own,    \* what the allocator keeps for itself in the heap, the same way
    end     \* of the heap

vars == <<held, own, end>>

Disjoint(a, b) == a[1] + a[2] <= b[1] \/ b[1] + b[2] <= a[1]

\* A block is inside the heap, apart from the other blocks and from what the
\* allocator keeps.
Alone(b) ==
    /\ b[1] + b[2] <= end
    /\ \A other \in (held \ {b}) \cup own : Disjoint(b, other)

Init == held = {} /\ own = {} /\ end \in Nat

\* The heap may grow for a new block, and the allocator keep more of it.
Malloc(b) ==
    /\ held' = held \cup {b}
    /\ own \subseteq own' /\ end <= end'
    /\ \A other \in held' : Alone(other)'

Free(b) == held' = held \ {b} /\ UNCHANGED <<own, end>>

\* The blocks that a step has added.
New == held' \ held

Next ==
    \/ \E b \in New : b[2] \in Sizes /\ Malloc(b)
    \/ \E b \in held : Free(b)

Spec == Init /\ [][Next]_vars
=============================================================================
