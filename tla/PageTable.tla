----------------------------- MODULE PageTable ------------------------------
(***************************************************************************)
(* The three levels of page tables (vm.c): create_mapping, remove_mapping, *)
(* copy_mapping, delete_mapping and walk_page_table_pte, with RADIX        *)
(* entries in a table instead of 512.                                      *)
(*                                                                         *)
(* A table is a function from indices to entries; an entry is None (V is   *)
(* not set), Wild (whatever an earlier owner of the page left there) or,   *)
(* by level, the table it points to or a leaf.  No two entries of these    *)
(* trees point to one page, so a tree is a value.                          *)
(***************************************************************************)
EXTENDS Integers, FiniteSets

CONSTANTS
    RADIX,      \* entries of a table, 1 << SV39_VPN_LEN
    PGSIZE,     \* units of address in a page
    Perms,      \* the bits of a leaf beside its frame number
    None,
    Wild

Index == 0 .. RADIX - 1
Vpns == 0 .. RADIX * RADIX * RADIX - 1

\* What the tables of each level hold.
Frames == [ppn : Nat, perm : Perms]
Ptes == Frames \cup {None}
SecondTables == [Index -> Ptes]
FirstTables == [Index -> SecondTables \cup {None, Wild}]
Tables == [Index -> FirstTables \cup {None, Wild}]

ASSUME PageTableAssumption ==
    /\ RADIX \in Nat \ {0, 1} /\ PGSIZE \in Nat \ {0}
    /\ None # Wild
    /\ \A none \in {None, Wild} :
         none \notin Frames /\ none \notin SecondTables /\ none \notin FirstTables

\* extract_bits: the index of a page at each level, 1 for the last table.
Vpn(page) == <<page % RADIX, (page \div RADIX) % RADIX, page \div (RADIX * RADIX)>>

\* memset of a table to 0.
EmptyTable == [i \in Index |-> None]

Low(va) == va \div PGSIZE
High(va, sz) == (va + sz - 1) \div PGSIZE

RootRange(lo, hi) == Vpn(lo)[3] .. Vpn(hi)[3]

FirstRange(lo, hi, r) ==
    (IF r = Vpn(lo)[3] THEN Vpn(lo)[2] ELSE 0) ..
    (IF r = Vpn(hi)[3] THEN Vpn(hi)[2] ELSE RADIX - 1)

\* Fault: the last table of a range is gone through to its end.
SecondRangeToEnd(lo, hi, r, f) ==
    (IF r = Vpn(lo)[3] /\ f = Vpn(lo)[2] THEN Vpn(lo)[1] ELSE 0) .. RADIX - 1

SecondRange(lo, hi, r, f) ==
    (IF r = Vpn(lo)[3] /\ f = Vpn(lo)[2] THEN Vpn(lo)[1] ELSE 0) ..
    (IF r = Vpn(hi)[3] /\ f = Vpn(hi)[2] THEN Vpn(hi)[1] ELSE RADIX - 1)

\* The leaves that the three nested loops come to.
Visited(lo, hi) ==
    UNION {UNION {{<<r, f, s>> : s \in SecondRange(lo, hi, r, f)} :
                  f \in FirstRange(lo, hi, r)} : r \in RootRange(lo, hi)}

Before(a, b) ==
    \/ a[1] < b[1]
    \/ a[1] = b[1] /\ (a[2] < b[2] \/ (a[2] = b[2] /\ a[3] < b[3]))

\* A missing table is allocated and cleared.
Table(entry) == IF entry = None THEN EmptyTable ELSE entry

\* The loops of create_mapping and remove_mapping: leaf(r, f, s) is written at
\* every leaf of the range.
ForLeaves(root, lo, hi, leaf(_)) ==
    [r \in Index |->
        IF r \notin RootRange(lo, hi) THEN root[r]
        ELSE [f \in Index |->
            IF f \notin FirstRange(lo, hi, r) THEN Table(root[r])[f]
            ELSE [s \in Index |->
                IF s \in SecondRange(lo, hi, r, f) THEN leaf(<<r, f, s>>)
                ELSE Table(Table(root[r])[f])[s]]]]

\* The loops follow an entry that nobody has written.
MeetsWild(root, lo, hi) ==
    \E r \in RootRange(lo, hi) :
        \/ root[r] = Wild
        \/ root[r] # None /\ \E f \in FirstRange(lo, hi, r) : root[r][f] = Wild

\* The frame number goes up by one with each leaf.
create_mapping(root, va, ppn, sz, perm) ==
    LET visited == Visited(Low(va), High(va, sz)) IN
    ForLeaves(root, Low(va), High(va, sz),
        LAMBDA l : [ppn |-> ppn + Cardinality({k \in visited : Before(k, l)}),
                    perm |-> perm])

\* Missing tables are allocated here, too.
remove_mapping(root, va, sz) == ForLeaves(root, Low(va), High(va, sz), LAMBDA l : None)

\* Fault: the entries of the second level are not copied.
copy_mapping_root(src, rootJunk, firstJunk) ==
    [r \in Index |-> IF src[r] = None THEN rootJunk ELSE [f \in Index |-> firstJunk]]

\* The pages of the two upper levels are not cleared: where the original has no
\* entry the copy keeps what the page held.
copy_mapping(src, rootJunk, firstJunk) ==
    [r \in Index |->
        IF src[r] = None THEN rootJunk
        ELSE [f \in Index |-> IF src[r][f] = None THEN firstJunk ELSE src[r][f]]]

\* free_pages gives no table back, as each still has its first reference.
delete_mapping(root) == EmptyTable

\* walk_page_table_pte: None stands for INVALID_PA and for an entry without V.
Pte(root, page) ==
    LET first == root[Vpn(page)[3]] IN
    IF first \in {None, Wild} THEN first
    ELSE LET second == first[Vpn(page)[2]] IN
         IF second \in {None, Wild} THEN second ELSE second[Vpn(page)[1]]

is_valid_pte(pte) == pte # None
=============================================================================
