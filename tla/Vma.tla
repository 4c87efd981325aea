-------------------------------- MODULE Vma ---------------------------------
(***************************************************************************)
(* The areas of a process (find_vma, do_mmap, remove_vma, do_munmap,       *)
(* copy_mm, do_fork, do_execve, do_exit in proc.c; do_page_fault in        *)
(* trap.c) and its page table (PageTable).                                 *)
(*                                                                         *)
(* An area takes a slot of the page that holds the mm_struct; used slots   *)
(* form a list sorted by start, the others a free list.  The model follows *)
(* one process, and after a fork either the parent or the child: each has  *)
(* its own mm_struct and page table, and no operation touches another's.   *)
(* Permissions, frames and their references are Cow's subject.             *)
(***************************************************************************)
EXTENDS PageTable, Sequences, SequencesExt

CONSTANTS
    NR_VMA_SLOTS,
    USER_END,   \* end of the user addresses; the stack is the last page
    Sections,   \* what setup_vm_final maps: <<va, ppn, size, perm>>
    Images,     \* programs: sequences of areas <<start, end>>
    Lens        \* bound: lengths of an mmap or munmap

Addresses == 0 .. USER_END
User == "user"  \* the permissions of a page of an area

\* The kernel lies above the users.  A length of 0 at address 0 is left out, here
\* and in Next: remove_mapping wraps around at it.
ASSUME VmaAssumption ==
    /\ NR_VMA_SLOTS \in Nat \ {0} /\ Lens \subseteq Nat
    /\ USER_END \in Nat /\ USER_END % PGSIZE = 0 /\ PGSIZE <= USER_END
    /\ Low(USER_END) \in Vpns /\ User \in Perms
    /\ \A image \in Images : image \in Seq({x \in Addresses \X Addresses : x[1] <= x[2] /\ 0 < x[2]})
    /\ Sections \in Seq(Nat \X Nat \X (Nat \ {0}) \X Perms)
    /\ \A k \in 1 .. Len(Sections) :
         USER_END <= Sections[k][1] /\ High(Sections[k][1], Sections[k][3]) \in Vpns

Nil == -1
Garbage == -2   \* a pointer nobody has written
Slots == 0 .. NR_VMA_SLOTS - 1
Links == Slots \cup {Nil, Garbage}

VARIABLES
    alive,      \* "yes", "zombie", "reaped"
    mm,         \* the mm_struct and its slots; fault, once the kernel has
                \* followed a pointer that is NULL or that nobody has written
    pgd

vars == <<alive, mm, pgd>>

Unused == [i \in Slots |-> 0]
NoLinks == [i \in Slots |-> Nil]

Faults == {"no", "null", "garbage", "wild"}

MM == [fault : Faults, mmap : Links, free_vma_list : Links, num_vmas : Nat,
       next : [Slots -> Links], prev : [Slots -> Links],
       start : [Slots -> Addresses], end : [Slots -> Addresses]]

TypeOK ==
    /\ alive \in {"yes", "zombie", "reaped"}
    /\ mm \in MM

\* A page for an mm_struct, as task_init and do_execve set it up.  What nobody
\* reads before it is written stands at 0.
FreshMM == [fault |-> "no", mmap |-> Nil, free_vma_list |-> Nil,
            num_vmas |-> 0, next |-> NoLinks, prev |-> NoLinks,
            start |-> Unused, end |-> Unused]

-----------------------------------------------------------------------------
(* The lists.                                                              *)

\* The least element of a set of positions, or one that stands for none.
FirstOf(S, none) == Min(S \cup {none})

\* The pointers met from first on.
Walk(next, first) ==
    LET behind == [s \in Links |-> IF s \in Slots THEN next[s] ELSE Nil]
        at[n \in 1 .. NR_VMA_SLOTS + 1] ==
          IF n = 1 THEN first ELSE behind[at[n - 1]]
    IN at

\* The slots on the way from first.
ListFrom(next, first) ==
    LET at == Walk(next, first)  n == NR_VMA_SLOTS + 1
    IN SubSeq(at, 1, FirstOf({k \in 1 .. n : at[k] \notin Slots}, n + 1) - 1)

AreaList(m) == ListFrom(m.next, m.mmap)
FreeList(m) == ListFrom(m.next, m.free_vma_list)

\* Fault: the search goes on past areas that start beyond va.
find_vma_first(m, va) ==
    IF AreaList(m) = <<>> \/ m.start[AreaList(m)[1]] > va \/ m.end[AreaList(m)[1]] <= va
    THEN Nil ELSE AreaList(m)[1]

\* The search ends at the first area that starts or ends beyond va.
find_vma(m, va) ==
    LET list == AreaList(m)
        k == FirstOf({i \in 1 .. Len(list) : va < m.start[list[i]] \/ va < m.end[list[i]]},
                     Len(list) + 1)
    IN IF k > Len(list) \/ va < m.start[list[k]] THEN Nil ELSE list[k]

-----------------------------------------------------------------------------
(* do_mmap and remove_vma.                                                 *)

\* The first area of a list that is empty lays all slots out again.
InitSlots(m) ==
    [m EXCEPT !.mmap = 0,
              !.next = [i \in Slots |-> IF i = 0 \/ i = NR_VMA_SLOTS - 1 THEN Nil
                                        ELSE i + 1],
              !.prev[0] = Nil,
              !.free_vma_list = IF NR_VMA_SLOTS > 1 THEN 1 ELSE Nil]

GoesAfter(m, s, va) == m.start[s] <= va

\* The first free slot goes before the first area that starts beyond va.
LinkFree(m, va) ==
    LET vma == m.free_vma_list
        list == AreaList(m)
        k == FirstOf({i \in 1 .. Len(list) : ~GoesAfter(m, list[i], va)}, Len(list) + 1) - 1
        curr == IF k < Len(list) THEN list[k + 1] ELSE Nil
        prev == IF k > 0 THEN list[k] ELSE Nil
        before == [s \in Slots |-> IF s = vma THEN prev
                                   ELSE IF s = curr THEN vma ELSE m.prev[s]]
        after == [s \in Slots |-> IF s = vma THEN curr
                                  ELSE IF s = prev THEN vma ELSE m.next[s]]
    IN [m EXCEPT !.free_vma_list = m.next[vma], !.next = after, !.prev = before,
                 !.mmap = IF prev = Nil THEN vma ELSE @]

Lost(m, fault) == [m EXCEPT !.fault = fault]

do_mmap(m, va, end) ==
    LET linked == IF m.mmap = Nil THEN InitSlots(m) ELSE LinkFree(m, va)
        vma == IF m.mmap = Nil THEN 0 ELSE m.free_vma_list
    IN IF m.fault # "no" THEN m
       ELSE CASE vma = Nil -> Lost(m, "null")
              [] vma = Garbage -> Lost(m, "garbage")
              [] OTHER -> [linked EXCEPT !.start[vma] = va, !.end[vma] = end,
                                         !.num_vmas = @ + 1]

\* Fault: the list keeps its head when that is removed.
HeadWithoutKept(m, vma) == m.mmap
HeadWithout(m, vma) == IF vma = m.mmap THEN m.next[vma] ELSE m.mmap

remove_vma(m, vma) ==
    [m EXCEPT
        !.mmap = HeadWithout(m, vma),
        !.next = [s \in Slots |-> IF s = vma THEN m.free_vma_list
                                  ELSE IF s = m.prev[vma] THEN m.next[vma]
                                  ELSE m.next[s]],
        !.prev = [s \in Slots |-> IF s = vma THEN Nil
                                  ELSE IF s = m.next[vma] THEN m.prev[vma]
                                  ELSE m.prev[s]],
        !.start[vma] = 0, !.end[vma] = 0,
        !.free_vma_list = vma, !.num_vmas = @ - 1]

-----------------------------------------------------------------------------
(* mmap and munmap.                                                        *)

Running == mm.fault = "no" /\ alive = "yes"

\* sys_mmap looks at neither the address nor the length.
Mmap(va, len) ==
    /\ Running
    /\ mm' = do_mmap(mm, va, va + len)
    /\ UNCHANGED <<alive, pgd>>

\* Fault: an area may follow after a gap.
TouchesAny(m, s) == m.next[s] # Nil
Touches(m, s) == m.next[s] # Nil /\ m.start[m.next[s]] = m.end[s]

\* The areas that do_munmap goes through, <<>> when it gives up: one that holds
\* va and those that follow it without a gap, up to the end of the range.
Affected(m, va, end) ==
    LET list == ListFrom(m.next, find_vma(m, va))
        n == FirstOf({k \in 1 .. Len(list) : m.end[list[k]] >= end}, Len(list) + 1)
    IN IF n <= Len(list) /\ \A k \in 1 .. n - 1 : Touches(m, list[k])
       THEN SubSeq(list, 1, n) ELSE <<>>

\* The area is removed; what it has before the range and behind it is mapped
\* again.
Cut(m, vma, va, end) ==
    LET removed == remove_vma(m, vma)
        before == IF m.start[vma] < va THEN do_mmap(removed, m.start[vma], va)
                  ELSE removed
    IN IF m.fault # "no" THEN m
       ELSE IF m.end[vma] > end THEN do_mmap(before, end, m.end[vma])
       ELSE before

CutAll(m, areas, va, end) ==
    LET done[k \in 0 .. Len(areas)] ==
          IF k = 0 THEN m ELSE Cut(done[k - 1], areas[k], va, end)
    IN done[Len(areas)]

\* Addresses and lengths that are not aligned are refused.
Munmap(va, len) ==
    LET areas == Affected(mm, va, va + len) IN
    /\ Running
    /\ va % PGSIZE = 0 /\ len % PGSIZE = 0
    /\ areas # <<>>
    /\ UNCHANGED alive
    /\ IF MeetsWild(pgd, Low(va), High(va, len))
       THEN mm' = Lost(mm, "wild") /\ UNCHANGED pgd
       ELSE /\ pgd' = remove_mapping(pgd, va, len)
            /\ mm' = CutAll(mm, areas, va, va + len)

-----------------------------------------------------------------------------
(* Page faults.                                                            *)

PageFault(va) ==
    LET page == Low(va)  pte == Pte(pgd, page) IN
    /\ Running
    /\ find_vma(mm, va) # Nil
    /\ UNCHANGED alive
    /\ \/ pte = Wild /\ mm' = Lost(mm, "wild") /\ UNCHANGED pgd
       \/ /\ ~is_valid_pte(pte)
          /\ pgd' = create_mapping(pgd, page * PGSIZE, 0, PGSIZE, User)
          /\ UNCHANGED mm

-----------------------------------------------------------------------------
(* fork, seen from the child.                                              *)

\* setup_vm_final: the kernel's own table.
swapper_pg_dir ==
    LET Map(t, x) == create_mapping(t, x[1], x[2], x[3], x[4])
        mapped[k \in 0 .. Len(Sections)] ==
          IF k = 0 THEN EmptyTable ELSE Map(mapped[k - 1], Sections[k])
    IN mapped[Len(Sections)]

\* The links of the copies point to the same slots of the other page; the free
\* list is whatever the page held.
copy_mm(src) ==
    IF src.mmap = Nil THEN FreshMM
    ELSE LET used == Range(AreaList(src)) IN
         [src EXCEPT
            !.free_vma_list = Garbage,
            !.next = [s \in Slots |-> IF s \in used THEN @[s] ELSE Nil],
            !.prev = [s \in Slots |-> IF s \in used THEN @[s] ELSE Nil],
            !.start = [s \in Slots |-> IF s \in used THEN @[s] ELSE 0],
            !.end = [s \in Slots |-> IF s \in used THEN @[s] ELSE 0]]

\* The pages of an area, up to those it shares with others.
PagesOf(m, s) == Low(m.start[s]) .. Low(m.end[s] + PGSIZE - 1) - 1

AreaPages(m) == UNION {PagesOf(m, s) : s \in Range(AreaList(m))}

Share(table, page) == create_mapping(table, page * PGSIZE, 0, PGSIZE, User)

ShareAll(table, pages) ==
    LET shared[k \in 0 .. Low(USER_END)] ==
          IF k = 0 THEN table
          ELSE IF k - 1 \in pages THEN Share(shared[k - 1], k - 1) ELSE shared[k - 1]
    IN shared[Low(USER_END)]

\* The pages of the copy were used before, or none was.
Fork(junk) ==
    LET table == copy_mapping(swapper_pg_dir, junk, junk)
        valid == {p \in AreaPages(mm) : is_valid_pte(Pte(pgd, p))} IN
    /\ Running
    /\ UNCHANGED alive
    /\ IF \/ \E p \in AreaPages(mm) : Pte(pgd, p) = Wild
          \/ \E p \in valid : MeetsWild(table, p, p)
       THEN mm' = Lost(mm, "wild") /\ UNCHANGED pgd
       ELSE /\ mm' = copy_mm(mm)
            /\ pgd' = ShareAll(table, valid)

-----------------------------------------------------------------------------
(* execve, exit and the father's sigchld_handler.                          *)

\* The areas of a program and the stack.
LoadProgram(image) ==
    LET loaded[k \in 0 .. Len(image)] ==
          IF k = 0 THEN FreshMM
          ELSE do_mmap(loaded[k - 1], image[k][1], image[k][2])
    IN do_mmap(loaded[Len(image)], USER_END - PGSIZE, USER_END)

Size(m, s) == m.end[s] - m.start[s]

\* The mappings of the areas are removed, one area after the other.
Unmapped(table, m, areas) ==
    LET cleared[k \in 0 .. Len(areas)] ==
          IF k = 0 THEN table
          ELSE remove_mapping(cleared[k - 1], m.start[areas[k]], Size(m, areas[k]))
    IN cleared[Len(areas)]

\* Those of all areas are, unless an entry leads astray.
UnmapAll(next) ==
    IF \E s \in Range(AreaList(mm)) :
          MeetsWild(pgd, Low(mm.start[s]), High(mm.start[s], Size(mm, s)))
    THEN mm' = Lost(mm, "wild") /\ UNCHANGED <<alive, pgd>>
    ELSE pgd' = Unmapped(pgd, mm, AreaList(mm)) /\ next

Execve(image) ==
    /\ Running
    /\ UnmapAll(mm' = LoadProgram(image) /\ UNCHANGED alive)

Exit ==
    /\ Running
    /\ UnmapAll(mm' = FreshMM /\ alive' = "zombie")

\* The tables are emptied, not given back.
Reap ==
    /\ mm.fault = "no" /\ alive = "zombie"
    /\ IF \E r \in Index : pgd[r] = Wild \/ (pgd[r] # None /\ Wild \in Range(pgd[r]))
       THEN mm' = Lost(mm, "wild") /\ UNCHANGED <<alive, pgd>>
       ELSE pgd' = delete_mapping(pgd) /\ alive' = "reaped" /\ UNCHANGED mm

-----------------------------------------------------------------------------

\* The areas of the first program fit into the slots.
Init ==
    /\ alive = "yes"
    /\ \E image \in Images : mm = LoadProgram(image)
    /\ mm.fault = "no"
    /\ pgd = copy_mapping(swapper_pg_dir, None, None)

Next ==
    \/ \E va \in 0 .. USER_END - 1, len \in Lens :
         /\ 0 < va + len /\ va + len <= USER_END
         /\ Mmap(va, len) \/ Munmap(va, len)
    \/ \E va \in 0 .. USER_END - 1 : PageFault(va)
    \/ \E junk \in {None, Wild} : Fork(junk)
    \/ \E image \in Images : Execve(image)
    \/ Exit \/ Reap

Spec == Init /\ [][Next]_vars

-----------------------------------------------------------------------------
(* Safety.                                                                 *)

\* Whatever munmap has cut, the areas form one list, sorted by start, with links
\* that agree in both directions, as long as the count; and no slot is on both
\* lists or lost, except for those a child never had on its free list.
ListsAgree ==
    LET list == AreaList(mm)  free == FreeList(mm) IN
    Running =>
        /\ Len(list) = mm.num_vmas
        /\ \A k \in 1 .. Len(list) :
             /\ mm.prev[list[k]] = (IF k = 1 THEN Nil ELSE list[k - 1])
             /\ mm.next[list[k]] = (IF k = Len(list) THEN Nil ELSE list[k + 1])
             /\ k > 1 => mm.start[list[k - 1]] <= mm.start[list[k]]
        /\ IsInjective(list) /\ IsInjective(free)
        /\ list # <<>> => Range(list) \cap Range(free) = {}
        /\ list # <<>> /\ Garbage \notin Range(Walk(mm.next, mm.free_vma_list))
           => Range(list) \cup Range(free) = Slots

\* find_vma may give up at the first area that starts beyond the address: it
\* finds an area over every address that has one, also among areas that overlap.
FindsWhatCovers ==
    LET used == Range(AreaList(mm)) IN
    Running => \A a \in Addresses :
        (find_vma(mm, a) # Nil) <=> \E s \in used : mm.start[s] <= a /\ a < mm.end[s]

\* Tables that neither the kernel nor this process have filled are not followed.
Sound == mm.fault = "no" /\ ~MeetsWild(pgd, 0, RADIX * RADIX * RADIX - 1)

\* Mapping or unmapping any range changes the translations of just that range,
\* the pages of it going to consecutive frames, wherever it crosses tables.
RangesExact ==
    \A lo, hi \in Vpns : lo <= hi =>
        LET sz == (hi - lo + 1) * PGSIZE
            made == create_mapping(pgd, lo * PGSIZE, 7, sz, User)
            gone == remove_mapping(pgd, lo * PGSIZE, sz) IN
        \A p \in Vpns :
            IF lo <= p /\ p <= hi
            THEN Pte(made, p) = [ppn |-> 7 + p - lo, perm |-> User] /\ Pte(gone, p) = None
            ELSE Pte(made, p) = Pte(pgd, p) /\ Pte(gone, p) = Pte(pgd, p)

\* So it is in every table that is reached; evaluated when there is one area.
MappingsAreExact == Sound /\ mm.num_vmas = 1 => RangesExact

\* Every page the kernel has mapped for itself is mapped to the same frame in
\* every process, after any forks, until its father has reaped it.
KernelMapped ==
    alive # "reaped" => \A p \in Vpns :
        is_valid_pte(Pte(swapper_pg_dir, p)) => Pte(pgd, p) = Pte(swapper_pg_dir, p)

-----------------------------------------------------------------------------
(* Refinement.                                                             *)

Cover(m) ==
    LET used == Range(AreaList(m)) IN
    [a \in 0 .. USER_END - 1 |->
        Cardinality({s \in used : m.start[s] <= a /\ a < m.end[s]})]

Backed == {p \in 0 .. Low(USER_END) - 1 : is_valid_pte(Pte(pgd, p)) /\ Pte(pgd, p) # Wild}

ProgramCovers == {Cover(FreshMM)} \cup {Cover(LoadProgram(i)) : i \in Images}

Space == INSTANCE AddressSpace WITH
            TOP <- USER_END, PAGE <- PGSIZE,
            Programs <- ProgramCovers,
            down <- mm.fault # "no", cover <- Cover(mm), backed <- Backed

\* Slots, lists and tables implement layers of areas: munmap takes one layer off
\* the whole range or changes nothing, and no frame stays behind without an area.
AddressSpaceSpec == Space!Spec

-----------------------------------------------------------------------------
(* What the repository says of the areas and the code does not do.         *)

\* do_mmap adds an area ("向 mm 中添加一个 vm_area_struct"), unless all slots are
\* in use: a child has no free list and follows what its page held.
MmapAddsArea == mm.fault # "garbage"
=============================================================================
