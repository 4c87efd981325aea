-------------------------------- MODULE Cow --------------------------------
(***************************************************************************)
(* User memory: demand paging, copy-on-write after fork, the reference     *)
(* counts of frames and the TLB (do_page_fault in trap.c, do_fork, do_exit,*)
(* do_execve, sys_mmap and do_munmap in proc.c, remove_mapping in vm.c,    *)
(* ref_page, deref_page and get_ref_cnt in mm.c, __switch_to in entry.S).  *)
(*                                                                         *)
(* The hart walks the page table of the running process on every access    *)
(* or uses a translation that it has cached and that nothing has flushed.  *)
(* A handler runs with interrupts off and is one action.                   *)
(*                                                                         *)
(* Frames that the kernel takes for itself only make the pool smaller, but *)
(* for the page tables that remove_mapping puts where there are none: in   *)
(* do_munmap nothing flushes the TLB before the program runs on, so such a *)
(* table may lie in a frame that the program can still write.  Every other *)
(* allocation is followed by a flush, or (a fault in vain, an execve that  *)
(* fails) the page is never used.                                          *)
(***************************************************************************)
EXTENDS Integers, Sequences, FiniteSets

CONSTANTS
    Procs,      \* processes
    Root,       \* the first one, task 1
    Pages,      \* pages of an address space
    Frames,     \* frames of user pages
    NoFrame,
    Values,     \* contents of a page
    MAX_OVERLAP,\* bound: areas that mmap may lay over one page
    REF_MAX     \* bound: references counted for a frame

ASSUME CowAssumption ==
    /\ Root \in Procs /\ IsFiniteSet(Procs) /\ IsFiniteSet(Pages)
    /\ NoFrame \notin Frames
    /\ Values # {}
    /\ MAX_OVERLAP \in Nat \ {0} /\ REF_MAX \in Nat

\* Whether the areas over a page may be written, in the order of the list: the
\* list is sorted by start address, and mmap checks no overlap.
Areas == UNION {[1 .. n -> BOOLEAN] : n \in 0 .. MAX_OVERLAP}

\* One page in an image of a program: not there, read-only or writable.
ImageAreas == {<<>>, <<FALSE>>, <<TRUE>>}

VARIABLES
    halt,       \* "oom": buddy_alloc has shut the machine down; "table": a
                \* program has written into a page table of its own, and what
                \* it may do from there is anything
    live,       \* processes that have not exited
    current,
    area,       \* area[p][v]: the areas of p over page v
    frame,      \* frame[p][v]: the frame of a valid page table entry
    writable,   \* pairs <<p, v>> whose entry has W
    shared,     \* pairs <<p, v>> whose entry has S, the software bit of do_fork
    ref,        \* buddy.ref_cnt, 0 for a free frame
    content,
    tlb,        \* translations [page, frame, w] the hart may use
    walked,     \* pairs <<p, v>> whose entry has a place: its tables exist
    tables      \* frames that remove_mapping has made page tables

vars == <<halt, live, current, area, frame, writable, shared, ref, content, tlb,
          walked, tables>>

Pairs == Procs \X Pages

TypeOK ==
    /\ halt \in {"no", "oom", "table"}
    /\ live \in SUBSET Procs
    /\ current \in live
    /\ area \in [Procs -> [Pages -> Areas]]
    /\ frame \in [Procs -> [Pages -> Frames \cup {NoFrame}]]
    /\ writable \in SUBSET Pairs
    /\ shared \in SUBSET Pairs
    /\ ref \in [Frames -> Nat]
    /\ content \in [Frames -> Values]
    /\ tlb \in SUBSET [page : Pages, frame : Frames, w : BOOLEAN]
    /\ walked \in SUBSET Pairs
    /\ tables \in SUBSET Frames

Init ==
    /\ halt = "no"
    /\ live = {Root}
    /\ current = Root
    /\ \E image \in [Pages -> ImageAreas] :
         area = [p \in Procs |-> IF p = Root THEN image ELSE [v \in Pages |-> <<>>]]
    /\ frame = [p \in Procs |-> [v \in Pages |-> NoFrame]]
    /\ writable = {}
    /\ shared = {}
    /\ ref = [f \in Frames |-> 0]
    /\ content \in [Frames -> Values]
    /\ tlb = {}
    /\ walked = {}
    /\ tables = {}

-----------------------------------------------------------------------------
(* The hart.                                                               *)

InUser == halt = "no"

Present(v) == frame[current][v] # NoFrame
Writable(v) == <<current, v>> \in writable
Shared(v) == <<current, v>> \in shared

\* The translation found by a walk of the page table.
Walk(v) ==
    IF Present(v) THEN {[page |-> v, frame |-> frame[current][v], w |-> Writable(v)]}
    ELSE {}

\* Any cached translation may have been evicted, so a walk is always possible.
Translations(v) == {e \in tlb : e.page = v} \cup Walk(v)

Load(v) ==
    /\ InUser
    /\ \E e \in Walk(v) : tlb' = tlb \cup {e}
    /\ UNCHANGED <<halt, live, current, area, frame, writable, shared, ref, content,
                   walked, tables>>

Store(v, x) ==
    /\ InUser
    /\ \E e \in Translations(v) :
         /\ e.w /\ e.frame \notin tables
         /\ content' = [content EXCEPT ![e.frame] = x]
         /\ tlb' = tlb \cup {e}
    /\ UNCHANGED <<halt, live, current, area, frame, writable, shared, ref,
                   walked, tables>>

\* The store goes to a page that munmap has taken away, whose frame has become
\* a page table since.
StoreToTable(v) ==
    /\ InUser
    /\ \E e \in Translations(v) : e.w /\ e.frame \in tables
    /\ halt' = "table"
    /\ UNCHANGED <<live, current, area, frame, writable, shared, ref, content, tlb,
                   walked, tables>>

\* Fault: the sfence.vma is missing.
KeepTlb == tlb

\* sfence.vma at the end of do_fork, of do_page_fault and of __switch_to.
FlushOnFork == {}
FlushOnFault == {}
FlushOnSwitch == {}

\* schedule() gives the CPU to another process (to which one, Proc says).
Switch ==
    /\ InUser
    /\ current' \in live \ {current}
    /\ tlb' = FlushOnSwitch
    /\ UNCHANGED <<halt, live, area, frame, writable, shared, ref, content,
                   walked, tables>>

-----------------------------------------------------------------------------
(* do_page_fault.  Without an area over the page, or for a store without   *)
(* VM_WRITE in the first one, it changes nothing and the access faults     *)
(* again; those faults are stuttering steps.                               *)

Free == {f \in Frames : ref[f] = 0}

\* find_vma gives the first of the areas over the page.
MayWrite(v) == Head(area[current][v])

LoadFaults(v) == ~Present(v) /\ area[current][v] # <<>>

StoreFaults(v) ==
    /\ area[current][v] # <<>> /\ MayWrite(v)
    /\ ~Present(v) \/ ~Writable(v)

Covered(p) == {v \in Pages : area[p][v] # <<>>}

\* The most tables, two levels for a page, that remove_mapping may have to make
\* on its way to the entries of S.
MostTables(p, S) == 2 * Cardinality({v \in S : <<p, v>> \notin walked})

\* A fault allocates the new page before anything else is looked at; munmap,
\* execve and exit allocate tables.
OutOfMemory ==
    /\ InUser
    /\ \/ /\ \E v \in Pages : LoadFaults(v) \/ StoreFaults(v)
          /\ Free = {}
       \/ Cardinality(Free) < MostTables(current, Covered(current))
    /\ halt' = "oom"
    /\ UNCHANGED <<live, current, area, frame, writable, shared, ref, content, tlb,
                   walked, tables>>

CopyNeeded(f) == ref[f] >= 2

\* Fault: the page taken over is any that is referenced at all.
LastReferenceAny(f) == ref[f] # 0
LastReference(f) == ref[f] = 1

\* The first access: the page is read from the file or the program image, or
\* left as the frame was.
PageIn(v, store) ==
    /\ InUser
    /\ IF store THEN StoreFaults(v) ELSE LoadFaults(v)
    /\ ~Present(v)
    /\ \E f \in Free, x \in Values :
         /\ ref' = [ref EXCEPT ![f] = 1]
         /\ content' = [content EXCEPT ![f] = x]
         /\ frame' = [frame EXCEPT ![current][v] = f]
    /\ writable' = IF MayWrite(v) THEN writable \cup {<<current, v>>} ELSE writable
    /\ walked' = walked \cup {<<current, v>>}
    /\ tlb' = FlushOnFault
    /\ UNCHANGED <<halt, live, current, area, shared, tables>>

\* A store to a shared page with other references: copy it.
CopyOnWrite(v) ==
    /\ InUser
    /\ StoreFaults(v) /\ Present(v) /\ Shared(v)
    /\ LET old == frame[current][v] IN
         /\ CopyNeeded(old)
         /\ \E f \in Free :
              /\ ref' = [ref EXCEPT ![f] = 1, ![old] = @ - 1]
              /\ content' = [content EXCEPT ![f] = content[old]]
              /\ frame' = [frame EXCEPT ![current][v] = f]
    /\ writable' = writable \cup {<<current, v>>}
    /\ shared' = shared \ {<<current, v>>}
    /\ tlb' = FlushOnFault
    /\ UNCHANGED <<halt, live, current, area, walked, tables>>

\* A store to a page marked shared whose other references are gone: take it
\* over.  The page allocated in advance is neither mapped nor freed.
TakeOver(v) ==
    /\ InUser
    /\ StoreFaults(v) /\ Present(v) /\ Shared(v)
    /\ LastReference(frame[current][v])
    /\ \E f \in Free : ref' = [ref EXCEPT ![f] = 1]
    /\ writable' = writable \cup {<<current, v>>}
    /\ shared' = shared \ {<<current, v>>}
    /\ tlb' = FlushOnFault
    /\ UNCHANGED <<halt, live, current, area, frame, content, walked, tables>>

\* A store to a page that was mapped read-only under an area that another one
\* has come before since: a page is allocated and the access faults again.
FaultInVain(v) ==
    /\ InUser
    /\ StoreFaults(v) /\ Present(v) /\ ~Shared(v)
    /\ \E f \in Free : ref' = [ref EXCEPT ![f] = 1]
    /\ UNCHANGED <<halt, live, current, area, frame, writable, shared, content, tlb,
                   walked, tables>>

-----------------------------------------------------------------------------
(* fork.                                                                   *)

PagesOn(p, f) == {v \in Pages : frame[p][v] = f}

\* do_fork visits the pages area by area and counts a page once for each of
\* the areas over it.  (A process maps a frame at one page at most.)
RefsOnFork ==
    [f \in Frames |->
        IF PagesOn(current, f) = {} THEN ref[f]
        ELSE ref[f] + Len(area[current][CHOOSE v \in PagesOn(current, f) : TRUE])]

Mapped(p) == {<<p, v>> : v \in {u \in Pages : frame[p][u] # NoFrame}}

\* Fault: the parent keeps its right to write.
WritableOnForkChildOnly == writable

WritableOnFork == writable \ Mapped(current)

\* Fault: only the child's entries are marked.
SharedOnForkChildOnly(c) == shared \cup {<<c, m[2]>> : m \in Mapped(current)}

SharedOnFork(c) ==
    shared \cup Mapped(current) \cup {<<c, m[2]>> : m \in Mapped(current)}

\* The child has a root table of its own, and create_mapping makes the tables
\* for the pages it is given.
WalkedOnFork(c) ==
    (walked \ ({c} \X Pages)) \cup {<<c, m[2]>> : m \in Mapped(current)}

Fork(c) ==
    /\ InUser
    /\ c \notin live
    /\ \A f \in Frames : RefsOnFork[f] <= REF_MAX
    /\ live' = live \cup {c}
    /\ area' = [area EXCEPT ![c] = area[current]]
    /\ frame' = [frame EXCEPT ![c] = frame[current]]
    /\ ref' = RefsOnFork
    /\ writable' = WritableOnFork
    /\ shared' = SharedOnFork(c)
    /\ tlb' = FlushOnFork
    /\ walked' = WalkedOnFork(c)
    /\ UNCHANGED <<halt, current, content, tables>>

-----------------------------------------------------------------------------
(* mmap, munmap, execve and exit.                                          *)

\* Fault: a reference is dropped for every area over the page, as in do_fork.
RefsWithoutPerArea(p, S) ==
    [f \in Frames |->
        IF PagesOn(p, f) \cap S = {} THEN ref[f]
        ELSE ref[f] - Len(area[p][CHOOSE v \in PagesOn(p, f) \cap S : TRUE])]

\* remove_mapping clears an entry as it drops its reference, so a page that
\* is met again under a second area is not counted again.
RefsWithout(p, S) ==
    [f \in Frames |-> IF PagesOn(p, f) \cap S = {} THEN ref[f] ELSE ref[f] - 1]

RefsWithTables(p, S, T) ==
    [f \in Frames |-> IF f \in T THEN 1 ELSE RefsWithout(p, S)[f]]

\* Where there are no tables for a page of S, remove_mapping allocates them, to
\* put an empty entry in: T are the frames it takes, and those whose last
\* reference it has dropped before are among the ones it may get.
RemoveMapping(p, S) ==
    /\ \E T \in SUBSET {f \in Frames : RefsWithout(p, S)[f] = 0} :
         /\ Cardinality(T) <= MostTables(p, S)
         /\ ref' = RefsWithTables(p, S, T)
         /\ tables' = tables \cup T
    /\ frame' = [frame EXCEPT ![p] =
                   [v \in Pages |-> IF v \in S THEN NoFrame ELSE frame[p][v]]]
    /\ writable' = writable \ ({p} \X S)
    /\ shared' = shared \ ({p} \X S)

\* The new area comes after those with the same start or before those that
\* start later.
Mmap(v, w) ==
    /\ InUser
    /\ Len(area[current][v]) < MAX_OVERLAP
    /\ \/ area' = [area EXCEPT ![current][v] = Append(@, w)]
       \/ area' = [area EXCEPT ![current][v] = <<w>> \o @]
    /\ UNCHANGED <<halt, live, current, frame, writable, shared, ref, content, tlb,
                   walked, tables>>

\* do_munmap of a page; of a longer range it is this for every page, in order.
\* There is no sfence.vma: the translation stays cached, also when the frame
\* becomes a table for the next page.
Munmap(v) ==
    /\ InUser
    /\ area[current][v] # <<>>
    /\ RemoveMapping(current, {v})
    /\ walked' = walked \cup {<<current, v>>}
    /\ area' = [area EXCEPT ![current][v] = Tail(@)]
    /\ UNCHANGED <<halt, live, current, content, tlb>>

\* do_execve once the file is known to be a program.
Execve ==
    /\ InUser
    /\ RemoveMapping(current, Covered(current))
    /\ \E image \in [Pages -> ImageAreas] :
         area' = [area EXCEPT ![current] = image]
    /\ walked' = walked \cup ({current} \X Covered(current))
    /\ tlb' = {}
    /\ UNCHANGED <<halt, live, current, content>>

\* do_exit ends with schedule(); with nobody left to run the machine stops.
Exit ==
    /\ InUser
    /\ current # Root
    /\ RemoveMapping(current, Covered(current))
    /\ area' = [area EXCEPT ![current] = [v \in Pages |-> <<>>]]
    /\ live' = live \ {current}
    /\ current' \in live'
    /\ walked' = walked \ ({current} \X Pages)
    /\ tlb' = FlushOnSwitch
    /\ UNCHANGED <<halt, content>>

-----------------------------------------------------------------------------

Next ==
    \/ Switch \/ OutOfMemory
    \/ \E v \in Pages :
         \/ Load(v)
         \/ \E x \in Values : Store(v, x)
         \/ StoreToTable(v)
         \/ \E store \in BOOLEAN : PageIn(v, store)
         \/ CopyOnWrite(v) \/ TakeOver(v) \/ FaultInVain(v)
         \/ \E w \in BOOLEAN : Mmap(v, w)
         \/ Munmap(v)
    \/ \E c \in Procs : Fork(c)
    \/ Execve \/ Exit

Spec == Init /\ [][Next]_vars

-----------------------------------------------------------------------------
(* Safety.                                                                 *)

Users(f) == {pv \in Pairs : frame[pv[1]][pv[2]] = f}

\* A frame that page tables map is counted at least as often as it is mapped,
\* so that deref_page never frees it under a process that still uses it.
RefCountCovers == \A f \in Frames : Cardinality(Users(f)) <= ref[f]

\* A frame that one process may write is mapped by no other.
WriterIsAlone ==
    \A pv \in writable : Users(frame[pv[1]][pv[2]]) = {pv}

\* Every entry for a frame with several users is marked, so that a store to it
\* ends up in the copying branch and not in the one that does nothing.
SharersAreMarked ==
    \A f \in Frames : Cardinality(Users(f)) > 1 => Users(f) \subseteq shared

\* What the running process can write through a cached translation no page
\* table maps elsewhere, and a translation of a mapped page is the one that the
\* page table holds: whatever is cached, entries change only with a flush.  A
\* page table can be reached, since munmap does not flush, but only through a
\* page that the process has unmapped itself and has not touched since.
TlbIsolation ==
    \A e \in tlb :
        /\ e.w => Users(e.frame) \subseteq {<<current, e.page>>}
        /\ Present(e.page) => e \in Walk(e.page)
        /\ e.frame \in tables => ~Present(e.page)

\* A frame that remove_mapping has taken for a table, often one that it has just
\* freed, is never given back or mapped, through faults, forks, munmap and exit.
TablesStay == \A f \in tables : ref[f] = 1 /\ Users(f) = {}

\* A store to a present page under a writable area finds a branch of the handler
\* that ends its fault: entries lose W only in exchange for S.  (Areas that
\* overlap break this, see FaultInVain.)
StoreFaultEnds ==
    \A p \in Procs, v \in Pages :
        frame[p][v] # NoFrame /\ area[p][v] = <<TRUE>>
        => <<p, v>> \in writable \cup shared

-----------------------------------------------------------------------------
(* Refinement.                                                             *)

Memory(p) ==
    [v \in {u \in Pages : frame[p][u] # NoFrame} |-> content[frame[p][v]]]

Private == INSTANCE PrivateMem WITH
              Proc <- Procs, Page <- Pages, Value <- Values, Root <- Root,
              alive <- live, mem <- [p \in Procs |-> Memory(p)]

\* Frames, copy-on-write, reference counts and the TLB implement memories that
\* are private to their processes, until one of them writes into a page table
\* through a page it has unmapped (halt = "table"): nothing is promised then.
PrivateSpec == Private!Spec
=============================================================================
