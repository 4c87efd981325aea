------------------------------- MODULE Malloc -------------------------------
(***************************************************************************)
(* The heap of a user program (src/user/src/malloc.c).  A size belongs to  *)
(* one of 24 classes; a class has slabs of pages, each with a header and   *)
(* blocks of one size, on the list of slabs with blocks to give or on the  *)
(* list of slabs without.  Slabs are cut off the end of the heap, which    *)
(* doubles when it has to, and are never given back.                       *)
(*                                                                         *)
(* A block starts with a word that links it to the next free one or, in    *)
(* use, leads to its slab.  The program frees what malloc gave, once.  A   *)
(* store through a list head that is NULL hits the program's first page    *)
(* and none of this state.                                                 *)
(***************************************************************************)
EXTENDS Integers, Sequences, FiniteSets, SequencesExt

CONSTANTS
    PGSIZE,
    HEADER,     \* sizeof(slab)
    WORD,       \* sizeof(mblock)
    Sizes,      \* what the program asks for
    MAX_HELD    \* bound: blocks in use

ASSUME LayoutAssumption == PGSIZE = 4096 /\ HEADER = 48 /\ WORD = 8

\* What malloc supports: up to 8 MiB less what a slab needs for itself.
ASSUME SizesAssumption == Sizes \subseteq 1 .. 2048 * PGSIZE - HEADER - WORD

VARIABLES
    used_slab, avail_slab,  \* heads of the lists of a class
    slabs,      \* the slabs, in the order of their addresses
    prev, next, \* links between slabs
    ufree_start, heap_size, \* in pages from the start of the heap
    held        \* held[b]: the size asked for of block b = <<slab, number>>

vars == <<used_slab, avail_slab, slabs, prev, next, ufree_start, heap_size, held>>

Nil == 0
Classes == 0 .. 23
Ids == 1 .. Len(slabs)

-----------------------------------------------------------------------------
(* Sizes and classes.                                                      *)

\* The power of two at or above a size; 0 wraps around to 0, and so does what lies
\* above 2^63, the only values above 2^30 there are.
fixsize(size) ==
    IF size \notin 1 .. 2 ^ 30 THEN 0
    ELSE 2 ^ (CHOOSE k \in 0 .. 30 : 2 ^ k >= size /\ (k = 0 \/ 2 ^ (k - 1) < size))

\* The shifts that bring a power of two to 0.
Shifts(size) == IF size = 0 THEN 0 ELSE 1 + CHOOSE k \in 0 .. 30 : 2 ^ k = size

\* Fault: the header of the slab is left out.
get_used_slab_idx_bare(size) ==
    IF size <= PGSIZE \div 2 THEN 12 + Shifts(fixsize(size)) - 1
    ELSE Shifts(fixsize(size) \div PGSIZE) - 1

get_used_slab_idx(size) ==
    IF size <= PGSIZE \div 2 THEN 12 + Shifts(fixsize(size)) - 1
    ELSE Shifts(fixsize(size + HEADER + WORD) \div PGSIZE) - 1

\* Fault: the step that brings the size to 0 is counted.
get_block_idx_over(size) ==
    IF fixsize(size) < PGSIZE THEN 12 + Shifts(fixsize(size))
    ELSE Shifts(fixsize(size) \div PGSIZE)

get_block_idx(size) ==
    IF fixsize(size) < PGSIZE THEN 12 + Shifts(fixsize(size)) - 1
    ELSE Shifts(fixsize(size) \div PGSIZE) - 1

slab_max_count(idx) ==
    IF idx < 12 THEN 1 ELSE (PGSIZE - HEADER) \div (2 ^ (idx - 12) + WORD)

slab_num_page(idx) == IF idx < 12 THEN 2 ^ idx ELSE 1

\* 1 << 31 as a size_t: 2^64 - 2^31.
SignExtended == 65536 * 65536 * 65536 * 65536 - 65536 * 32768

\* For 8 .. 11 the source shifts by a negative number, of which the machine
\* takes the lower five bits.
UNIT_SIZE_SLAB(idx) ==
    IF idx < 8 THEN 2 ^ idx * PGSIZE
    ELSE IF idx = 11 THEN SignExtended
    ELSE 2 ^ ((idx - 12) % 32)

-----------------------------------------------------------------------------

Slab == [idx : Classes, page : Nat, unit_size : Nat, unit_count : Nat,
         bfreelist : Seq(Nat)]

Blocks == UNION {{<<s, n>> : n \in 0 .. slab_max_count(slabs[s].idx) - 1} : s \in Ids}

Init ==
    /\ used_slab = [c \in Classes |-> Nil]
    /\ avail_slab = [c \in Classes |-> Nil]
    /\ slabs = <<>> /\ prev = <<>> /\ next = <<>>
    /\ ufree_start = 0
    /\ heap_size = 1
    /\ held = <<>>

\* heap_inflate doubles the heap until the end of the new slab is inside.
Inflated(end) ==
    heap_size * 2 ^ (CHOOSE k \in 0 .. 24 :
        heap_size * 2 ^ k >= end /\ \A j \in 0 .. k - 1 : heap_size * 2 ^ j < end)

\* Fault: the loop over the blocks ends one early.
alloc_slab_short(idx) ==
    [idx |-> idx, page |-> ufree_start, unit_size |-> UNIT_SIZE_SLAB(idx),
     unit_count |-> slab_max_count(idx),
     bfreelist |-> [n \in 1 .. slab_max_count(idx) - 1 |-> n - 1]]

\* alloc_slab, called when no slab of the class has blocks to give: the new one
\* is alone on its list.
alloc_slab(idx) ==
    [idx |-> idx, page |-> ufree_start, unit_size |-> UNIT_SIZE_SLAB(idx),
     unit_count |-> slab_max_count(idx),
     bfreelist |-> [n \in 1 .. slab_max_count(idx) |-> n - 1]]

\* Slab s leaves its list and goes before the slab `first' of another; p and n
\* are the links, and s need not be on a list of its own class.
MovedPrev(s, first, p, n) ==
    [x \in DOMAIN p |-> IF x = s THEN Nil ELSE IF x = first THEN s
                        ELSE IF x = n[s] THEN p[s] ELSE p[x]]

MovedNext(s, first, p, n) ==
    [x \in DOMAIN n |-> IF x = s THEN first ELSE IF x = p[s] THEN n[s] ELSE n[x]]

\* A slab gives its first free block, or takes back block n.
Given(slab) ==
    [slab EXCEPT !.unit_count = IF @ = 0 THEN 0 ELSE @ - 1, !.bfreelist = Tail(@)]

TakenBack(slab, n, count) ==
    [slab EXCEPT !.unit_count = count, !.bfreelist = <<n>> \o @]

\* alloc_block: the first free block of the first slab with blocks to give.
\* With the last one that is counted the slab changes lists.
malloc(size) ==
    LET idx == get_used_slab_idx(size)
        new == avail_slab[idx] = Nil
        s == IF new THEN Len(slabs) + 1 ELSE avail_slab[idx]
        all == IF new THEN Append(slabs, alloc_slab(idx)) ELSE slabs
        p == IF new THEN Append(prev, Nil) ELSE prev
        n == IF new THEN Append(next, Nil) ELSE next
        b == <<s, Head(all[s].bfreelist)>> IN
    /\ Cardinality(DOMAIN held) < MAX_HELD
    /\ all[s].bfreelist # <<>>
    /\ slabs' = [all EXCEPT ![s] = Given(@)]
    /\ held' = [x \in DOMAIN held \cup {b} |-> IF x = b THEN size ELSE held[x]]
    /\ ufree_start' = IF new THEN ufree_start + slab_num_page(idx) ELSE ufree_start
    /\ heap_size' = IF new THEN Inflated(ufree_start') ELSE heap_size
    /\ IF all[s].unit_count = 1
       THEN /\ avail_slab' = [avail_slab EXCEPT ![idx] = n[s]]
            /\ used_slab' = [used_slab EXCEPT ![idx] = s]
            /\ prev' = MovedPrev(s, used_slab[idx], p, n)
            /\ next' = MovedNext(s, used_slab[idx], p, n)
       ELSE /\ avail_slab' = [avail_slab EXCEPT ![idx] = s]
            /\ prev' = p /\ next' = n
            /\ UNCHANGED used_slab

\* Fault: the test is the wrong way round.
GetsBlocksUnnegated(s) == slabs[s].unit_count # 0

\* The slab had no block to give.  Only then is the block counted.
GetsBlocks(s) == slabs[s].unit_count = 0

\* free_block: the slab has blocks to give again and changes lists.
free(b) ==
    LET s == b[1]  idx == get_block_idx(slabs[s].unit_size) IN
    /\ held' = Restrict(held, DOMAIN held \ {b})
    /\ slabs' = [slabs EXCEPT ![s] =
                    TakenBack(@, b[2], IF GetsBlocks(s) THEN 1 ELSE @.unit_count)]
    /\ IF GetsBlocks(s)
       THEN /\ used_slab' = [used_slab EXCEPT ![idx] = IF @ = s THEN next[s] ELSE @]
            /\ avail_slab' = [avail_slab EXCEPT ![idx] = s]
            /\ prev' = MovedPrev(s, avail_slab[idx], prev, next)
            /\ next' = MovedNext(s, avail_slab[idx], prev, next)
       ELSE UNCHANGED <<used_slab, avail_slab, prev, next>>
    /\ UNCHANGED <<ufree_start, heap_size>>

Next ==
    \/ \E size \in Sizes : malloc(size)
    \/ \E b \in DOMAIN held : free(b)

Spec == Init /\ [][Next]_vars

-----------------------------------------------------------------------------
(* Safety.                                                                 *)

TypeOK ==
    /\ slabs \in Seq(Slab) /\ prev \in [Ids -> Ids \cup {Nil}]
    /\ next \in [Ids -> Ids \cup {Nil}]
    /\ used_slab \in [Classes -> Ids \cup {Nil}]
    /\ avail_slab \in [Classes -> Ids \cup {Nil}]
    /\ DOMAIN held \subseteq Blocks /\ \A b \in DOMAIN held : held[b] \in Sizes
    /\ ufree_start <= heap_size

\* The head of the list a slab is to be on: slabs with a count are on the list
\* malloc takes from, the others on the other list of their class.
HeadFor(s) ==
    IF slabs[s].unit_count > 0 THEN avail_slab[slabs[s].idx] ELSE used_slab[slabs[s].idx]

SameList(s, t) ==
    slabs[s].idx = slabs[t].idx /\ (slabs[s].unit_count > 0 <=> slabs[t].unit_count > 0)

\* Every slab is on the one list of its class and count: from each, prev leads
\* over slabs of the same list, without a ring, to the head, next leads back,
\* and no head is a slab of another list.  So the class found from the size asked
\* for and the one found again from the size of the blocks agree.
SlabsListed ==
    /\ \A s \in Ids : IF prev[s] = Nil THEN HeadFor(s) = s
                      ELSE SameList(s, prev[s]) /\ next[prev[s]] = s
    /\ \A s \in Ids : next[s] # Nil => prev[next[s]] = s
    /\ \A c \in Classes :
         /\ \A s \in {avail_slab[c], used_slab[c]} \ {Nil} :
               slabs[s].idx = c /\ prev[s] = Nil
         /\ avail_slab[c] # Nil => slabs[avail_slab[c]].unit_count > 0
         /\ used_slab[c] # Nil => slabs[used_slab[c]].unit_count = 0
    /\ \A S \in (SUBSET Ids) \ {{}} : \E s \in S : prev[s] \notin S

\* The count of a slab may fall behind its free blocks but never promises one
\* that is not there, so malloc finds a block in the slab it is given.
CountIsBacked == \A s \in Ids : slabs[s].unit_count <= Len(slabs[s].bfreelist)

\* A slab without blocks to give holds a block that is in use, whatever the count
\* has missed: there are never more slabs of a class than blocks were in use.
NoIdleSlab ==
    \A s \in Ids : slabs[s].unit_count = 0 => \E b \in DOMAIN held : b[1] = s

Address(b) ==
    LET slab == slabs[b[1]] IN
    slab.page * PGSIZE + HEADER + b[2] * (slab.unit_size + WORD) + WORD

\* The memory of a slab that is not the program's: the header and the words in
\* front of the blocks.
Own(s) ==
    {<<slabs[s].page * PGSIZE, HEADER>>} \cup
    {<<Address(b) - WORD, WORD>> : b \in {x \in Blocks : x[1] = s}}

H == INSTANCE Heap WITH
        held <- {<<Address(b), held[b]>> : b \in DOMAIN held},
        own <- UNION {Own(s) : s \in Ids},
        end <- heap_size * PGSIZE

\* Classes, slabs and free lists implement blocks that are their owners' alone:
\* what a program may write to a block hits no other block, no header of a slab,
\* no word that links the blocks, and nothing beyond the heap.
HeapSpec == H!Spec
=============================================================================
