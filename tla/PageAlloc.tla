----------------------------- MODULE PageAlloc ------------------------------
(***************************************************************************)
(* What the page allocator promises: aligned blocks of a power of two of   *)
(* pages that never overlap, each with a count of references, gone when    *)
(* the count reaches 0; and no failure while a block that fits is free.    *)
(* Implemented by Buddy.                                                   *)
(***************************************************************************)
EXTENDS Integers, Functions

CONSTANTS
    Size,       \* pages of memory
    BlockSizes  \* the sizes a block may have

VARIABLES
    down,       \* the machine was shut down for lack of memory
    blocks      \* blocks[b]: size and references of the block that starts at b

avars == <<down, blocks>>

PagesOf(b, size) == b .. b + size - 1

Fits(b, size) ==
    /\ b % size = 0
    /\ PagesOf(b, size) \subseteq 0 .. Size - 1
    /\ \A a \in DOMAIN blocks :
         PagesOf(a, blocks[a].size) \cap PagesOf(b, size) = {}

Init == ~down /\ blocks = [b \in {} |-> 0]

Alloc(b, size) ==
    /\ Fits(b, size)
    /\ blocks' = [a \in DOMAIN blocks \cup {b} |->
                    IF a = b THEN [size |-> size, refs |-> 1] ELSE blocks[a]]
    /\ UNCHANGED down

Fail(size) ==
    /\ \A b \in 0 .. Size - 1 : ~Fits(b, size)
    /\ down' = TRUE
    /\ UNCHANGED blocks

Take(b) == blocks' = [blocks EXCEPT ![b].refs = @ + 1] /\ UNCHANGED down

Drop(b) ==
    /\ blocks' = IF blocks[b].refs > 1 THEN [blocks EXCEPT ![b].refs = @ - 1]
                 ELSE Restrict(blocks, DOMAIN blocks \ {b})
    /\ UNCHANGED down

Next ==
    /\ ~down
    /\ \/ \E size \in BlockSizes :
            Fail(size) \/ \E b \in 0 .. Size - 1 : Alloc(b, size)
       \/ \E b \in DOMAIN blocks : Take(b) \/ Drop(b)

Spec == Init /\ [][Next]_avars
=============================================================================
