------------------------------- MODULE Buddy -------------------------------
(***************************************************************************)
(* The buddy allocator of physical pages and its reference counts          *)
(* (arch/riscv/kernel/mm.c).                                               *)
(*                                                                         *)
(* bitmap[] is a complete binary tree in an array.  A node holds the size  *)
(* of the longest block that can be allocated below it; 0 marks a block    *)
(* that is allocated as a whole, and what is below such a node is stale.   *)
(***************************************************************************)
EXTENDS Integers, FiniteSets

CONSTANTS
    SIZE,       \* buddy.size, the pages of memory: a power of two
    RESERVED,   \* pages of the kernel image, allocated at boot for good
    Requests,   \* numbers of pages asked for
    REF_MAX     \* bound: references to a page

Powers == {2 ^ k : k \in 0 .. 30}

ASSUME BuddyAssumption ==
    /\ SIZE \in Powers
    /\ RESERVED \in 0 .. SIZE
    /\ Requests \subseteq 0 .. 2 ^ 30
    /\ REF_MAX \in Nat \ {0}

Pfns  == 0 .. SIZE - 1
Nodes == 0 .. 2 * SIZE - 2

VARIABLES
    halt,       \* "oom" when the machine has been shut down
    boot,       \* pages buddy_init has still to reserve
    bitmap,
    ref_cnt,
    given_back  \* what the kernel has handed to free_pages

vars == <<halt, boot, bitmap, ref_cnt, given_back>>

TypeOK ==
    /\ halt \in {"no", "oom"}
    /\ boot \in 0 .. RESERVED
    /\ bitmap \in [Nodes -> 0 .. SIZE]
    /\ ref_cnt \in [Pfns -> 0 .. REF_MAX]
    /\ given_back \in SUBSET Pfns

-----------------------------------------------------------------------------
(* The tree.                                                               *)

LeftLeaf(i) == 2 * i + 1
RightLeaf(i) == 2 * i + 2
Parent(i) == (i + 1) \div 2 - 1
Leaf(pfn) == pfn + SIZE - 1

\* The node and its ancestors up to the root.
Path ==
    LET up[i \in Nodes] == {i} \cup (IF i = 0 THEN {} ELSE up[Parent(i)])
    IN [i \in Nodes |-> up[i]]

\* buddy_init gives the nodes of a row half of the size of the row before.
NodeSize ==
    LET size[i \in Nodes] == IF i = 0 THEN SIZE ELSE size[Parent(i)] \div 2
    IN [i \in Nodes |-> size[i]]

\* The longer of what two nodes offer.
Longer(a, b) == IF a > b THEN a ELSE b

\* Fault: two free halves are not joined.
JoinedNever(a, b, size) == Longer(a, b)

Joined(a, b, size) == IF a + b = size THEN size ELSE Longer(a, b)

\* fixsize, for a positive number.
FixSize(n) == CHOOSE s \in Powers : s >= n /\ s < 2 * n

Init ==
    /\ halt = "no"
    /\ boot = RESERVED
    /\ bitmap = NodeSize
    /\ ref_cnt = [pfn \in Pfns |-> 0]
    /\ given_back = {}

-----------------------------------------------------------------------------
(* buddy_alloc.                                                            *)

Need(n) == IF n = 0 THEN 1 ELSE FixSize(n)

\* Sizes halve from SIZE on, so the first that is not above need is need.
Descend(need) ==
    LET at[i \in Nodes] ==
          IF NodeSize[i] <= need THEN i
          ELSE IF bitmap[LeftLeaf(i)] >= need THEN at[LeftLeaf(i)]
               ELSE at[RightLeaf(i)]
    IN at[0]

FirstPfn(i) == (i + 1) * NodeSize[i] - SIZE

\* Fault: only the parent of the node learns of the allocation.
BitmapOnAllocNoClimb(x) ==
    [i \in Nodes |->
       IF i = x THEN 0
       ELSE IF x > 0 /\ i = Parent(x)
            THEN Longer(IF LeftLeaf(i) = x THEN 0 ELSE bitmap[LeftLeaf(i)],
                        IF RightLeaf(i) = x THEN 0 ELSE bitmap[RightLeaf(i)])
            ELSE bitmap[i]]

BitmapOnAlloc(x) ==
    LET new[i \in Nodes] ==
          IF i = x THEN 0
          ELSE IF i \in Path[x] THEN Longer(new[LeftLeaf(i)], new[RightLeaf(i)])
               ELSE bitmap[i]
    IN new

Alloc(n) ==
    /\ halt = "no"
    /\ bitmap[0] >= Need(n)
    /\ LET x == Descend(Need(n)) IN
         /\ bitmap' = BitmapOnAlloc(x)
         /\ ref_cnt' = [ref_cnt EXCEPT ![FirstPfn(x)] = 1]
         /\ given_back' = given_back \ {FirstPfn(x)}
    /\ UNCHANGED halt

AllocPages(n) == boot = 0 /\ Alloc(n) /\ UNCHANGED boot

OutOfMemory(n) ==
    /\ halt = "no" /\ boot = 0
    /\ bitmap[0] < Need(n)
    /\ halt' = "oom"
    /\ UNCHANGED <<boot, bitmap, ref_cnt, given_back>>

\* The loop at the end of buddy_init.
Reserve == boot > 0 /\ boot' = boot - 1 /\ Alloc(1)

-----------------------------------------------------------------------------
(* buddy_free, and the references that lead to it.                         *)

\* The climb from the leaf: the first node on the way that is 0, else the root.
Holder(pfn) ==
    LET at[i \in Nodes] ==
          IF bitmap[i] = 0 \/ i = 0 THEN i ELSE at[Parent(i)]
    IN at[Leaf(pfn)]

BitmapOnFree(pfn) ==
    LET x == Holder(pfn)
        new[i \in Nodes] ==
          IF i = x THEN IF bitmap[x] = 0 THEN NodeSize[x] ELSE 2 * SIZE
          ELSE IF i \in Path[x]
               THEN Joined(new[LeftLeaf(i)], new[RightLeaf(i)], NodeSize[i])
               ELSE bitmap[i]
    IN new

\* Only kernel pages are handed to free_pages, some of them again (tasks share
\* a signal_struct), and they have the one reference that buddy_alloc gave them.
FreePages(pfn) ==
    /\ halt = "no" /\ boot = 0
    /\ pfn >= RESERVED
    /\ ref_cnt[pfn] = 1
    /\ given_back' = given_back \cup {pfn}
    /\ bitmap' = IF ref_cnt[pfn] # 0 THEN bitmap ELSE BitmapOnFree(pfn)
    /\ UNCHANGED <<halt, boot, ref_cnt>>

RefPage(pfn) ==
    /\ halt = "no" /\ boot = 0
    /\ ref_cnt[pfn] \in 1 .. REF_MAX - 1
    /\ ref_cnt' = [ref_cnt EXCEPT ![pfn] = @ + 1]
    /\ UNCHANGED <<halt, boot, bitmap, given_back>>

\* Pages of the kernel image are not dereferenced, nor those given back.
DerefPage(pfn) ==
    /\ halt = "no" /\ boot = 0
    /\ pfn >= RESERVED /\ pfn \notin given_back
    /\ ref_cnt[pfn] # 0
    /\ ref_cnt' = [ref_cnt EXCEPT ![pfn] = @ - 1]
    /\ bitmap' = IF ref_cnt[pfn] = 1 THEN BitmapOnFree(pfn) ELSE bitmap
    /\ UNCHANGED <<halt, boot, given_back>>

-----------------------------------------------------------------------------

Next ==
    \/ Reserve
    \/ \E n \in Requests : AllocPages(n) \/ OutOfMemory(n)
    \/ \E pfn \in Pfns : FreePages(pfn) \/ RefPage(pfn) \/ DerefPage(pfn)

Spec == Init /\ [][Next]_vars

-----------------------------------------------------------------------------
(* The abstract allocator.                                                 *)

Bases == {pfn \in Pfns : ref_cnt[pfn] > 0}

Block(b) == [size |-> NodeSize[Holder(b)], refs |-> ref_cnt[b]]

Allocator == INSTANCE PageAlloc WITH
               Size <- SIZE,
               BlockSizes <- {Need(n) : n \in Requests \cup {1}},
               down <- halt = "oom",
               blocks <- [b \in Bases |-> Block(b)]

\* buddy_alloc hands out aligned blocks that overlap no other and fails only
\* when none is free; deref_page frees the block that was allocated, no more.
AllocatorSpec == Allocator!Spec

\* The page that alloc_pages returns starts a block of the size asked for that
\* overlaps none in use: nothing is handed out twice.  AllocatorSpec alone does
\* not say so, for a second grant of the same page may look like a dropped
\* reference or like no step.
AllocIsFresh ==
    [][\A n \in Requests :
         AllocPages(n) => \E b \in Pfns : Allocator!Alloc(b, Need(n))]_vars

-----------------------------------------------------------------------------
(* Safety.                                                                 *)

Taken == UNION {b .. b + Block(b).size - 1 : b \in Bases}

\* A node that no allocated block contains holds the size of the longest
\* aligned free block below it, so that what was split is joined again and
\* nothing free is out of reach.
BitmapIsExact ==
    \A i \in Nodes :
        (\A j \in Path[i] : bitmap[j] # 0 \/ j = i)
        => LET below == {j \in Nodes :
                           /\ i \in Path[j]
                           /\ Taken \cap (FirstPfn(j) .. FirstPfn(j) + NodeSize[j] - 1) = {}}
           IN bitmap[i] = IF below = {} THEN 0
                          ELSE CHOOSE s \in {NodeSize[j] : j \in below} :
                                 \A j \in below : NodeSize[j] <= s
=============================================================================
