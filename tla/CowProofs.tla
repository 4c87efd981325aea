----------------------------- MODULE CowProofs ------------------------------
(***************************************************************************)
(* Proofs about Cow, for any finite set of processes and of pages, any set *)
(* of frames and contents, and areas that overlap to any depth.            *)
(***************************************************************************)
EXTENDS Cow, FiniteSetTheorems, SequenceTheorems, TLAPS

-----------------------------------------------------------------------------
(* The inductive invariant, page by page and without counting sharers.     *)

\* Only live processes map pages, and only pages under an area, so that exit
\* and execve find every page that is mapped.
MappedUnderArea ==
    \A p \in Procs, v \in Pages :
        frame[p][v] # NoFrame => p \in live /\ area[p][v] # <<>>

\* A process maps a frame at one page at most, so that one reference is right.
FrameAtOnePage ==
    \A p \in Procs, u, v \in Pages :
        frame[p][u] # NoFrame /\ frame[p][u] = frame[p][v] => u = v

\* The bits of an entry are those of a valid one.
BitsOfMapped ==
    \A p \in Procs, v \in Pages :
        <<p, v>> \in writable \cup shared => frame[p][v] # NoFrame

Alone(p, v) ==
    \A q \in Procs, u \in Pages : frame[q][u] = frame[p][v] => q = p /\ u = v

WritersAlone ==
    \A p \in Procs, v \in Pages : <<p, v>> \in writable => Alone(p, v)

SharedUnlessAlone ==
    \A p \in Procs, v \in Pages :
        frame[p][v] # NoFrame => Alone(p, v) \/ <<p, v>> \in shared

TlbInv ==
    \A e \in tlb :
        /\ e.w => \A q \in Procs, u \in Pages :
                     frame[q][u] = e.frame => q = current /\ u = e.page
        /\ frame[current][e.page] # NoFrame =>
              /\ e.frame = frame[current][e.page]
              /\ e.w <=> <<current, e.page>> \in writable

Tables == MappedUnderArea /\ FrameAtOnePage /\ BitsOfMapped

IInv ==
    /\ TypeOK /\ Tables /\ RefCountCovers
    /\ WritersAlone /\ SharedUnlessAlone /\ StoreFaultEnds
    /\ TlbInv

-----------------------------------------------------------------------------
(* Facts about areas and users.                                            *)

LEMMA AreaFacts ==
    ASSUME CowAssumption, NEW a
    PROVE  a \in Areas <=> a \in Seq(BOOLEAN) /\ Len(a) <= MAX_OVERLAP
<1>1. ASSUME a \in Areas PROVE a \in Seq(BOOLEAN) /\ Len(a) <= MAX_OVERLAP
  <2>1. PICK n \in 0 .. MAX_OVERLAP : a \in [1 .. n -> BOOLEAN]
    BY <1>1 DEF Areas
  <2> QED BY <2>1 DEF CowAssumption
<1>2. ASSUME a \in Seq(BOOLEAN), Len(a) <= MAX_OVERLAP PROVE a \in Areas
  <2>1. Len(a) \in 0 .. MAX_OVERLAP /\ a \in [1 .. Len(a) -> BOOLEAN]
    BY <1>2 DEF CowAssumption
  <2> QED BY <2>1 DEF Areas
<1> QED BY <1>1, <1>2

\* The two ways an area comes before or after those over the page.
LEMMA AreaGrows ==
    ASSUME CowAssumption, NEW a \in Areas, Len(a) < MAX_OVERLAP, NEW w \in BOOLEAN
    PROVE  /\ Append(a, w) \in Areas /\ <<w>> \o a \in Areas
           /\ Append(a, w) # <<>> /\ <<w>> \o a # <<>>
           /\ a # <<>> => Append(a, w) # <<TRUE>> /\ <<w>> \o a # <<TRUE>>
<1>1. a \in Seq(BOOLEAN) /\ Len(a) \in Nat /\ <<w>> \in Seq(BOOLEAN) /\ Len(<<w>>) = 1
  BY AreaFacts
<1>2. PICK b : b = Append(a, w)
  OBVIOUS
<1>3. PICK c : c = <<w>> \o a
  OBVIOUS
<1>4. b \in Seq(BOOLEAN) /\ Len(b) = Len(a) + 1
  BY <1>1, <1>2, AppendProperties
<1>5. c \in Seq(BOOLEAN) /\ Len(c) = Len(a) + 1
  BY <1>1, <1>3, ConcatProperties
<1>6. b \in Areas /\ c \in Areas
  <2>1. MAX_OVERLAP \in Nat
    BY DEF CowAssumption
  <2>2. Len(b) <= MAX_OVERLAP /\ Len(c) <= MAX_OVERLAP
    BY <1>1, <1>4, <1>5, <2>1
  <2> QED BY <1>4, <1>5, <2>2, AreaFacts
<1>7. Len(<<TRUE>>) = 1 /\ Len(<<>>) = 0 /\ (a # <<>> => Len(a) # 0)
  BY <1>1, EmptySeq
<1>8. b # <<>> /\ c # <<>> /\ (a # <<>> => b # <<TRUE>> /\ c # <<TRUE>>)
  <2>1. Len(b) # 0 /\ Len(c) # 0 /\ (Len(a) # 0 => Len(b) # 1 /\ Len(c) # 1)
    BY <1>1, <1>4, <1>5
  <2> QED BY <2>1, <1>7, Zenon
<1> QED BY <1>2, <1>3, <1>6, <1>8

LEMMA AreaShrinks ==
    ASSUME CowAssumption, NEW a \in Areas, a # <<>>
    PROVE  Tail(a) \in Areas /\ Head(a) \in BOOLEAN /\ Len(a) \in Nat \ {0}
<1>1. a \in Seq(BOOLEAN) /\ Len(a) <= MAX_OVERLAP
  BY AreaFacts
<1>2. PICK t : t = Tail(a)
  OBVIOUS
<1>3. t \in Seq(BOOLEAN) /\ Len(t) = Len(a) - 1 /\ Head(a) \in BOOLEAN
  BY <1>1, <1>2, HeadTailProperties
<1>4. Len(a) \in Nat \ {0} /\ MAX_OVERLAP \in Nat
  BY <1>1 DEF CowAssumption
<1>5. t \in Areas
  <2>1. Len(t) <= MAX_OVERLAP
    BY <1>1, <1>3, <1>4
  <2> QED BY <1>3, <2>1, AreaFacts
<1> QED BY <1>2, <1>3, <1>4, <1>5, Zenon

LEMMA NoArea == ASSUME CowAssumption PROVE <<>> \in Areas
<1>1. <<>> \in Seq(BOOLEAN) /\ Len(<<>>) = 0
  BY EmptySeq
<1>2. Len(<<>>) <= MAX_OVERLAP
  BY <1>1 DEF CowAssumption
<1> QED BY <1>1, <1>2, AreaFacts

LEMMA ImageFacts ==
    ASSUME CowAssumption PROVE ImageAreas \subseteq Areas
<1>1. \A a \in ImageAreas : a \in Seq(BOOLEAN) /\ Len(a) <= 1
  <2>1. <<>> \in Seq(BOOLEAN) /\ Len(<<>>) <= 1
    BY EmptySeq
  <2>2. \A w \in BOOLEAN : <<w>> \in Seq(BOOLEAN) /\ Len(<<w>>) <= 1
    OBVIOUS
  <2> SUFFICES ASSUME NEW a \in ImageAreas
               PROVE  a \in Seq(BOOLEAN) /\ Len(a) <= 1
    OBVIOUS
  <2>3. a = <<>> \/ a = <<FALSE>> \/ a = <<TRUE>>
    BY Zenon DEF ImageAreas
  <2>4. a = <<>> => a \in Seq(BOOLEAN) /\ Len(a) <= 1
    BY <2>1, Zenon
  <2>5. FALSE \in BOOLEAN /\ TRUE \in BOOLEAN
    OBVIOUS
  <2>6. a = <<FALSE>> => a \in Seq(BOOLEAN) /\ Len(a) <= 1
    BY <2>2, <2>5, Zenon
  <2>7. a = <<TRUE>> => a \in Seq(BOOLEAN) /\ Len(a) <= 1
    BY <2>2, <2>5, Zenon
  <2> QED BY <2>3, <2>4, <2>6, <2>7
<1>2. 1 <= MAX_OVERLAP
  BY DEF CowAssumption
<1>3. \A a \in ImageAreas : Len(a) <= MAX_OVERLAP
  BY <1>1, <1>2 DEF CowAssumption
<1> QED BY <1>1, <1>3, AreaFacts

LEMMA UsersFinite ==
    ASSUME CowAssumption, NEW f
    PROVE  IsFiniteSet(Users(f)) /\ Cardinality(Users(f)) \in Nat
<1>1. IsFiniteSet(Pairs)
  BY FS_Product DEF CowAssumption, Pairs
<1>2. Users(f) \subseteq Pairs
  BY DEF Users
<1> QED BY <1>1, <1>2, FS_Subset, FS_CardinalityType

LEMMA OneUserLess ==
    ASSUME CowAssumption, NEW f, NEW pv \in Users(f)
    PROVE  Cardinality(Users(f) \ {pv}) = Cardinality(Users(f)) - 1
BY UsersFinite, FS_RemoveElement

LEMMA OneUserMore ==
    ASSUME CowAssumption, NEW f, NEW pv, pv \notin Users(f)
    PROVE  Cardinality(Users(f) \cup {pv}) = Cardinality(Users(f)) + 1
BY UsersFinite, FS_AddElement

LEMMA InUsers ==
    ASSUME NEW f, NEW p \in Procs, NEW v \in Pages
    PROVE  <<p, v>> \in Users(f) <=> frame[p][v] = f
BY DEF Users, Pairs

\* A frame without references is mapped nowhere.
LEMMA FreeUnmapped ==
    ASSUME CowAssumption, RefCountCovers, NEW f \in Frames, ref[f] = 0
    PROVE  Users(f) = {} /\ \A p \in Procs, v \in Pages : frame[p][v] # f
<1>1. Cardinality(Users(f)) = 0
  BY UsersFinite DEF RefCountCovers
<1>2. Users(f) = {}
  BY <1>1, UsersFinite, FS_EmptySet
<1> QED BY <1>2, InUsers

\* A frame with one reference that p maps is mapped by nobody else.
LEMMA LastUser ==
    ASSUME CowAssumption, RefCountCovers, NEW p \in Procs, NEW v \in Pages,
           frame[p][v] \in Frames, ref[frame[p][v]] = 1
    PROVE  Alone(p, v)
<1> DEFINE f == frame[p][v]
           U == Users(f) \ {<<p, v>>}
<1>1. <<p, v>> \in Users(f)
  BY InUsers
<1>2. IsFiniteSet(U) /\ Cardinality(U) = Cardinality(Users(f)) - 1
  BY <1>1, UsersFinite, FS_RemoveElement
<1>3. Cardinality(Users(f)) <= 1 /\ Cardinality(U) \in Nat
  BY <1>2, FS_CardinalityType DEF RefCountCovers
<1>4. Cardinality(U) = 0
  BY <1>2, <1>3, UsersFinite
<1>5. U = {}
  BY <1>2, <1>4, FS_EmptySet
<1> SUFFICES ASSUME NEW q \in Procs, NEW u \in Pages, frame[q][u] = f
             PROVE  q = p /\ u = v
  BY DEF Alone
<1>6. <<q, u>> \in Users(f)
  BY InUsers
<1>7. <<q, u>> = <<p, v>>
  BY <1>5, <1>6
<1> QED BY <1>7

\* A mapped frame has a reference.
LEMMA MappedHasRef ==
    ASSUME CowAssumption, TypeOK, RefCountCovers, NEW p \in Procs, NEW v \in Pages,
           frame[p][v] # NoFrame
    PROVE  frame[p][v] \in Frames /\ ref[frame[p][v]] \in Nat \ {0}
<1>1. frame[p][v] \in Frames /\ ref[frame[p][v]] \in Nat
  BY DEF TypeOK
<1> QED BY <1>1, FreeUnmapped

-----------------------------------------------------------------------------
(* The parts of the invariant that do not speak of the TLB.                *)

Sharing ==
    Tables /\ RefCountCovers /\ WritersAlone /\ SharedUnlessAlone /\ StoreFaultEnds

LEMMA EmptyTlb == ASSUME tlb' = {} PROVE TlbInv'
BY DEF TlbInv

\* What leaves the tables alone and drops no reference keeps all of it.
LEMMA SameTables ==
    ASSUME CowAssumption, TypeOK, Sharing, TypeOK',
           UNCHANGED <<live, area, frame, writable, shared>>,
           \A f \in Frames : ref'[f] >= ref[f]
    PROVE  Sharing'
<1>1. Tables'
  BY DEF Sharing, Tables, MappedUnderArea, FrameAtOnePage, BitsOfMapped
<1>2. RefCountCovers'
  <2> SUFFICES ASSUME NEW f \in Frames PROVE Cardinality(Users(f)') <= ref'[f]
    BY DEF RefCountCovers
  <2>1. Users(f)' = Users(f)
    BY DEF Users
  <2>2. Cardinality(Users(f)) \in Nat /\ Cardinality(Users(f)) <= ref[f]
    BY UsersFinite DEF Sharing, RefCountCovers
  <2> QED BY <2>1, <2>2 DEF TypeOK
<1>3. WritersAlone' /\ SharedUnlessAlone'
  BY DEF Sharing, WritersAlone, SharedUnlessAlone, Alone
<1>4. StoreFaultEnds'
  BY DEF Sharing, StoreFaultEnds
<1> QED BY <1>1, <1>2, <1>3, <1>4 DEF Sharing

\* A walk of the page table adds a translation that the invariant allows.
LEMMA AddWalk ==
    ASSUME CowAssumption, TypeOK, WritersAlone, TlbInv, NEW v \in Pages,
           NEW e \in Walk(v)
    PROVE  /\ e \in [page : Pages, frame : Frames, w : BOOLEAN]
           /\ e.w => \A q \in Procs, u \in Pages :
                       frame[q][u] = e.frame => q = current /\ u = e.page
           /\ e.frame = frame[current][e.page]
           /\ e.w <=> <<current, e.page>> \in writable
<1>1. /\ frame[current][v] # NoFrame
      /\ e = [page |-> v, frame |-> frame[current][v], w |-> Writable(v)]
  BY DEF Walk, Present
<1>2. current \in Procs /\ frame[current][v] \in Frames
  BY <1>1 DEF TypeOK
<1>3. Writable(v) \in BOOLEAN /\ (Writable(v) <=> <<current, v>> \in writable)
  BY DEF Writable
<1>4. e.page = v /\ e.frame = frame[current][v] /\ e.w = Writable(v)
  BY <1>1
<1>5. e \in [page : Pages, frame : Frames, w : BOOLEAN]
  BY <1>1, <1>2, <1>3
<1>6. e.w <=> <<current, v>> \in writable
  BY <1>3, <1>4, Zenon
<1>7. ASSUME <<current, v>> \in writable, NEW q \in Procs, NEW u \in Pages,
             frame[q][u] = e.frame
      PROVE  q = current /\ u = e.page
  BY <1>2, <1>4, <1>7 DEF WritersAlone, Alone
<1> QED BY <1>4, <1>5, <1>6, <1>7, Zenon

LEMMA MoreTlb ==
    ASSUME CowAssumption, TypeOK, WritersAlone, TlbInv, NEW v \in Pages,
           NEW e \in tlb \cup Walk(v), tlb' = tlb \cup {e},
           UNCHANGED <<current, frame, writable>>
    PROVE  TlbInv' /\ tlb' \in SUBSET [page : Pages, frame : Frames, w : BOOLEAN]
<1>1. current' = current /\ frame' = frame /\ writable' = writable
  OBVIOUS
<1>2. ASSUME NEW d \in tlb'
      PROVE  /\ d \in [page : Pages, frame : Frames, w : BOOLEAN]
             /\ d.w => \A q \in Procs, u \in Pages :
                         frame[q][u] = d.frame => q = current /\ u = d.page
             /\ frame[current][d.page] # NoFrame =>
                   /\ d.frame = frame[current][d.page]
                   /\ d.w <=> <<current, d.page>> \in writable
  <2>1. CASE d \in tlb
    BY <2>1, Zenon DEF TlbInv, TypeOK
  <2>2. CASE d \in Walk(v)
    BY <2>2, AddWalk, Zenon
  <2> QED BY <2>1, <2>2
<1>3. tlb' \subseteq [page : Pages, frame : Frames, w : BOOLEAN]
  BY <1>2, Zenon
<1>4. TlbInv'
  BY <1>1, <1>2, SMT DEF TlbInv
<1> QED BY <1>3, <1>4

LEMMA LoadStep ==
    ASSUME CowAssumption, IInv, NEW v \in Pages, Load(v) PROVE IInv'
<1> USE DEF IInv
<1>1. PICK e \in Walk(v) : tlb' = tlb \cup {e}
  BY DEF Load
<1>2. TlbInv' /\ tlb' \in SUBSET [page : Pages, frame : Frames, w : BOOLEAN]
  BY <1>1, MoreTlb DEF Load
<1>3. TypeOK'
  BY <1>2 DEF Load, TypeOK
<1>4. Sharing'
  BY <1>3, SameTables DEF Load, TypeOK, Sharing
<1> QED BY <1>2, <1>3, <1>4 DEF Sharing

LEMMA StoreStep ==
    ASSUME CowAssumption, IInv, NEW v \in Pages, NEW x \in Values, Store(v, x)
    PROVE  IInv'
<1> USE DEF IInv
<1>1. PICK e \in tlb \cup Walk(v) :
          tlb' = tlb \cup {e} /\ content' = [content EXCEPT ![e.frame] = x]
  BY DEF Store, Translations
<1>2. TlbInv' /\ tlb' \in SUBSET [page : Pages, frame : Frames, w : BOOLEAN]
  BY <1>1, MoreTlb DEF Store
<1>3. TypeOK'
  BY <1>1, <1>2 DEF Store, TypeOK
<1>4. Sharing'
  BY <1>3, SameTables DEF Store, TypeOK, Sharing
<1> QED BY <1>2, <1>3, <1>4 DEF Sharing

LEMMA StoreToTableStep ==
    ASSUME CowAssumption, IInv, NEW v \in Pages, StoreToTable(v) PROVE IInv'
<1> USE DEF IInv
<1>1. TypeOK'
  BY DEF StoreToTable, TypeOK
<1>2. Sharing'
  BY <1>1, SameTables DEF StoreToTable, TypeOK, Sharing
<1>3. TlbInv'
  BY DEF StoreToTable, TlbInv
<1> QED BY <1>1, <1>2, <1>3 DEF Sharing

LEMMA SwitchStep == ASSUME CowAssumption, IInv, Switch PROVE IInv'
<1> USE DEF IInv
<1>1. TypeOK'
  BY DEF Switch, TypeOK, FlushOnSwitch
<1>2. Sharing'
  BY <1>1, SameTables DEF Switch, TypeOK, Sharing
<1>3. TlbInv'
  BY EmptyTlb DEF Switch, FlushOnSwitch
<1> QED BY <1>1, <1>2, <1>3 DEF Sharing

LEMMA OutOfMemoryStep == ASSUME CowAssumption, IInv, OutOfMemory PROVE IInv'
<1> USE DEF IInv
<1>1. TypeOK'
  BY DEF OutOfMemory, TypeOK
<1>2. Sharing'
  BY <1>1, SameTables DEF OutOfMemory, TypeOK, Sharing
<1>3. TlbInv'
  BY DEF OutOfMemory, TlbInv
<1> QED BY <1>1, <1>2, <1>3 DEF Sharing

LEMMA FaultInVainStep ==
    ASSUME CowAssumption, IInv, NEW v \in Pages, FaultInVain(v) PROVE IInv'
<1> USE DEF IInv
<1>1. PICK f \in Frames : ref[f] = 0 /\ ref' = [ref EXCEPT ![f] = 1]
  BY DEF FaultInVain, Free
<1>2. TypeOK'
  BY <1>1 DEF FaultInVain, TypeOK
<1>3. Sharing'
  BY <1>1, <1>2, SameTables DEF FaultInVain, TypeOK, Sharing
<1>4. TlbInv'
  BY DEF FaultInVain, TlbInv
<1> QED BY <1>2, <1>3, <1>4 DEF Sharing

LEMMA MmapStep ==
    ASSUME CowAssumption, IInv, NEW v \in Pages, NEW w \in BOOLEAN, Mmap(v, w)
    PROVE  IInv'
<1> USE DEF IInv
<1> DEFINE p == current
<1>1. p \in Procs /\ area[p][v] \in Areas /\ Len(area[p][v]) < MAX_OVERLAP
  BY DEF Mmap, TypeOK
<1>2. PICK b \in Areas :
          /\ area' = [area EXCEPT ![p][v] = b]
          /\ b # <<>>
          /\ area[p][v] # <<>> => b # <<TRUE>>
  <2>1. CASE area' = [area EXCEPT ![current][v] = Append(@, w)]
    BY <1>1, <2>1, AreaGrows
  <2>2. CASE area' = [area EXCEPT ![current][v] = <<w>> \o @]
    BY <1>1, <2>2, AreaGrows
  <2> QED BY <2>1, <2>2 DEF Mmap
<1>3. TypeOK'
  BY <1>1, <1>2 DEF Mmap, TypeOK
<1>4. \A q \in Procs, u \in Pages :
          area'[q][u] = IF q = p /\ u = v THEN b ELSE area[q][u]
  BY <1>1, <1>2 DEF TypeOK
<1>5. Tables'
  BY <1>2, <1>4 DEF Mmap, Tables, MappedUnderArea, FrameAtOnePage, BitsOfMapped
<1>6. RefCountCovers' /\ WritersAlone' /\ SharedUnlessAlone' /\ TlbInv'
  BY SMTT(30) DEF Mmap, RefCountCovers, WritersAlone, SharedUnlessAlone, Alone, TlbInv, Users
<1>7. StoreFaultEnds'
  <2> SUFFICES ASSUME NEW q \in Procs, NEW u \in Pages,
                      frame[q][u] # NoFrame, area'[q][u] = <<TRUE>>
               PROVE  <<q, u>> \in writable \cup shared
    BY DEF Mmap, StoreFaultEnds
  <2>1. area[q][u] # <<>>
    BY DEF Tables, MappedUnderArea
  <2>2. ~(q = p /\ u = v)
    BY <1>2, <1>4, <2>1, Zenon
  <2> QED BY <1>4, <2>2, Zenon DEF StoreFaultEnds
<1> QED BY <1>3, <1>5, <1>6, <1>7

-----------------------------------------------------------------------------
(* Page faults.                                                            *)

\* A fault that puts a free frame at page v keeps the sharing of all others.
LEMMA Remapped ==
    ASSUME CowAssumption, TypeOK, Sharing, NEW p \in live, NEW v \in Pages,
           NEW f \in Frames, ref[f] = 0, area[p][v] # <<>>,
           UNCHANGED <<live, area>>,
           frame' = [frame EXCEPT ![p][v] = f],
           writable' \in SUBSET Pairs, writable' \subseteq writable \cup {<<p, v>>},
           shared' \in SUBSET Pairs, shared' \subseteq shared,
           shared \subseteq shared' \cup {<<p, v>>},
           writable \subseteq writable',
           area[p][v] = <<TRUE>> => <<p, v>> \in writable',
           \A g \in Frames : ref'[g] = IF g = f THEN 1
                                       ELSE IF g = frame[p][v] THEN ref[g] - 1
                                       ELSE ref[g]
    PROVE  Sharing'
<1> USE DEF Sharing
<1>1. p \in Procs
  BY DEF TypeOK
<1>2. \A q \in Procs, u \in Pages :
          frame'[q][u] = IF q = p /\ u = v THEN f ELSE frame[q][u]
  BY <1>1 DEF TypeOK
<1>3. \A q \in Procs, u \in Pages : frame[q][u] # f
  BY FreeUnmapped
<1>4. f # NoFrame
  BY DEF CowAssumption
<1>5. \A q \in Procs, u \in Pages :
          ~(q = p /\ u = v) =>
              /\ <<q, u>> \in writable' <=> <<q, u>> \in writable
              /\ <<q, u>> \in shared' <=> <<q, u>> \in shared
  OBVIOUS
<1>6. MappedUnderArea'
  BY <1>1, <1>2 DEF Tables, MappedUnderArea
<1>7. FrameAtOnePage'
  BY <1>2, <1>3, <1>4 DEF Tables, FrameAtOnePage
<1>8. BitsOfMapped'
  BY <1>2, <1>4, <1>5 DEF Tables, BitsOfMapped
<1>9. Alone(p, v)'
  BY <1>1, <1>2, <1>3 DEF Alone
<1>10. ASSUME NEW q \in Procs, NEW u \in Pages, ~(q = p /\ u = v),
              frame[q][u] # NoFrame, Alone(q, u)
       PROVE  Alone(q, u)'
  BY <1>2, <1>3, <1>10 DEF Alone
<1>11. WritersAlone'
  BY <1>2, <1>5, <1>9, <1>10 DEF WritersAlone, Tables, BitsOfMapped
<1>12. SharedUnlessAlone'
  BY <1>2, <1>5, <1>9, <1>10 DEF SharedUnlessAlone
<1>13. StoreFaultEnds'
  <2> SUFFICES ASSUME NEW q \in Procs, NEW u \in Pages,
                      frame'[q][u] # NoFrame, area[q][u] = <<TRUE>>
               PROVE  <<q, u>> \in writable' \cup shared'
    BY DEF StoreFaultEnds
  <2>1. CASE q = p /\ u = v
    BY <2>1
  <2>2. CASE ~(q = p /\ u = v)
    <3>1. frame[q][u] # NoFrame
      BY <1>2, <2>2, Zenon, ZenonT(60)
    <3>2. <<q, u>> \in writable \cup shared
      BY <3>1, Zenon DEF StoreFaultEnds
    <3> QED BY <1>5, <2>2, <3>2
  <2> QED BY <2>1, <2>2
<1>14. RefCountCovers'
  <2> SUFFICES ASSUME NEW g \in Frames PROVE Cardinality(Users(g)') <= ref'[g]
    BY DEF RefCountCovers
  <2>1. Cardinality(Users(g)) \in Nat /\ Cardinality(Users(g)) <= ref[g] /\ ref[g] \in Nat
    BY UsersFinite DEF RefCountCovers, TypeOK
  <2>2. CASE g = f
    <3>1. Users(g)' = {<<p, v>>}
      BY <1>1, <1>2, <1>3, <2>2 DEF Users, Pairs
    <3>2. Cardinality(Users(g)') = 1
      BY <3>1, FS_Singleton
    <3> QED BY <2>2, <3>2
  <2>3. CASE g # f /\ g = frame[p][v]
    <3>1. Users(g)' = Users(g) \ {<<p, v>>}
      BY <1>1, <1>2, <2>3 DEF Users, Pairs
    <3>2. <<p, v>> \in Users(g)
      BY <1>1, <2>3, InUsers
    <3>3. Cardinality(Users(g) \ {<<p, v>>}) = Cardinality(Users(g)) - 1
      BY <3>2, OneUserLess
    <3> QED BY <2>1, <2>3, <3>1, <3>3
  <2>4. CASE g # f /\ g # frame[p][v]
    <3>1. Users(g)' = Users(g)
      BY <1>1, <1>2, <2>4 DEF Users, Pairs
    <3>2. ref'[g] = ref[g]
      BY <2>4
    <3> QED BY <2>1, <3>1, <3>2
  <2> QED BY <2>2, <2>3, <2>4
<1> QED BY <1>6, <1>7, <1>8, <1>11, <1>12, <1>13, <1>14 DEF Tables

\* A page under a single area may be written if that area may.
LEMMA FirstArea == \A w \in BOOLEAN : Head(<<w>>) = w
OBVIOUS

LEMMA PageInStep ==
    ASSUME CowAssumption, IInv, NEW v \in Pages, NEW store \in BOOLEAN,
           PageIn(v, store)
    PROVE  IInv'
<1> USE DEF IInv
<1>1. PICK f \in Frames, x \in Values :
          /\ ref[f] = 0 /\ ref' = [ref EXCEPT ![f] = 1]
          /\ content' = [content EXCEPT ![f] = x]
          /\ frame' = [frame EXCEPT ![current][v] = f]
  BY DEF PageIn, Free
<1>2. current \in live /\ current \in Procs /\ frame[current][v] = NoFrame
  BY DEF PageIn, Present, TypeOK
<1>3. /\ area[current][v] # <<>>
      /\ store => MayWrite(v)
  BY DEF PageIn, StoreFaults, LoadFaults
<1>4. /\ writable' = IF MayWrite(v) THEN writable \cup {<<current, v>>} ELSE writable
      /\ UNCHANGED <<halt, live, current, area, shared, tables>> /\ tlb' = {}
      /\ walked' = walked \cup {<<current, v>>}
  BY DEF PageIn, FlushOnFault
<1>5. TypeOK'
  BY <1>1, <1>2, <1>4 DEF TypeOK, Pairs
<1>6. area[current][v] = <<TRUE>> => <<current, v>> \in writable'
  BY <1>4, FirstArea DEF MayWrite
<1>7. writable \subseteq writable' /\ writable' \subseteq writable \cup {<<current, v>>}
  BY <1>4
<1>8. \A g \in Frames : ref'[g] = IF g = f THEN 1
                                  ELSE IF g = frame[current][v] THEN ref[g] - 1
                                  ELSE ref[g]
  BY <1>1, <1>2 DEF TypeOK, CowAssumption
<1>9. writable' \in SUBSET Pairs /\ shared' \in SUBSET Pairs
  BY <1>5 DEF TypeOK
<1>10. Sharing'
  BY <1>1, <1>2, <1>3, <1>4, <1>6, <1>7, <1>8, <1>9, Remapped, ZenonT(60) DEF Sharing
<1> QED BY <1>4, <1>5, <1>10, EmptyTlb DEF Sharing

LEMMA CopyOnWriteStep ==
    ASSUME CowAssumption, IInv, NEW v \in Pages, CopyOnWrite(v) PROVE IInv'
<1> USE DEF IInv
<1> DEFINE old == frame[current][v]
<1>1. PICK f \in Frames :
          /\ ref[f] = 0 /\ ref' = [ref EXCEPT ![f] = 1, ![old] = @ - 1]
          /\ content' = [content EXCEPT ![f] = content[old]]
          /\ frame' = [frame EXCEPT ![current][v] = f]
  BY DEF CopyOnWrite, Free
<1>2. /\ current \in live /\ current \in Procs
      /\ old \in Frames /\ ref[old] >= 2 /\ ref[old] \in Nat /\ old # f
  BY <1>1 DEF CopyOnWrite, CopyNeeded, Present, TypeOK
<1>3. area[current][v] # <<>>
  BY DEF CopyOnWrite, StoreFaults
<1>4. /\ writable' = writable \cup {<<current, v>>}
      /\ shared' = shared \ {<<current, v>>}
      /\ UNCHANGED <<halt, live, current, area, walked, tables>> /\ tlb' = {}
  BY DEF CopyOnWrite, FlushOnFault
<1>5. \A g \in Frames : ref'[g] = IF g = f THEN 1
                                  ELSE IF g = frame[current][v] THEN ref[g] - 1
                                  ELSE ref[g]
  BY <1>1, <1>2 DEF TypeOK
<1>6. ref' \in [Frames -> Nat]
  <2>1. 1 \in Nat /\ ref[old] - 1 \in Nat
    BY <1>2
  <2> QED BY <1>1, <1>2, <2>1 DEF TypeOK
<1>7. TypeOK'
  BY <1>1, <1>2, <1>4, <1>6 DEF TypeOK, Pairs
<1>8. writable' \in SUBSET Pairs /\ shared' \in SUBSET Pairs
  BY <1>7 DEF TypeOK
<1>9. Sharing'
  BY <1>1, <1>2, <1>3, <1>4, <1>5, <1>8, Remapped DEF Sharing
<1> QED BY <1>4, <1>7, <1>9, EmptyTlb DEF Sharing

LEMMA TakeOverStep ==
    ASSUME CowAssumption, IInv, NEW v \in Pages, TakeOver(v) PROVE IInv'
<1> USE DEF IInv
<1>1. PICK f \in Frames : ref[f] = 0 /\ ref' = [ref EXCEPT ![f] = 1]
  BY DEF TakeOver, Free
<1>2. /\ writable' = writable \cup {<<current, v>>}
      /\ shared' = shared \ {<<current, v>>}
      /\ UNCHANGED <<halt, live, current, area, frame, content, walked, tables>>
      /\ tlb' = {}
  BY DEF TakeOver, FlushOnFault
<1>3. current \in Procs /\ frame[current][v] \in Frames /\ frame[current][v] # NoFrame
  BY DEF TakeOver, Present, TypeOK
<1>4. TypeOK'
  BY <1>1, <1>2, <1>3 DEF TypeOK, Pairs
<1>5. Alone(current, v)
  BY <1>3, LastUser DEF TakeOver, LastReference
<1>6. Tables'
  BY <1>2, <1>3 DEF Tables, MappedUnderArea, FrameAtOnePage, BitsOfMapped
<1>7. RefCountCovers'
  <2> SUFFICES ASSUME NEW g \in Frames PROVE Cardinality(Users(g)') <= ref'[g]
    BY DEF RefCountCovers
  <2>1. Users(g)' = Users(g)
    BY <1>2 DEF Users
  <2>2. Cardinality(Users(g)) \in Nat /\ Cardinality(Users(g)) <= ref[g] /\ ref[g] \in Nat
    BY UsersFinite DEF RefCountCovers, TypeOK
  <2>3. ref'[g] >= ref[g]
    BY <1>1, <2>2 DEF TypeOK
  <2> QED BY <2>1, <2>2, <2>3, <1>4 DEF TypeOK
<1>8. \A q \in Procs, u \in Pages : Alone(q, u)' <=> Alone(q, u)
  BY <1>2 DEF Alone
<1>9. WritersAlone'
  BY <1>2, <1>5, <1>8, Zenon DEF WritersAlone
<1>10. SharedUnlessAlone'
  <2> SUFFICES ASSUME NEW q \in Procs, NEW u \in Pages, frame[q][u] # NoFrame,
                      ~Alone(q, u)
               PROVE  <<q, u>> \in shared'
    BY <1>2, <1>8 DEF SharedUnlessAlone
  <2>1. <<q, u>> \in shared
    BY DEF SharedUnlessAlone
  <2>2. <<q, u>> # <<current, v>>
    BY <1>5
  <2> QED BY <1>2, <2>1, <2>2
<1>11. StoreFaultEnds'
  BY <1>2 DEF StoreFaultEnds
<1> QED BY <1>2, <1>4, <1>6, <1>7, <1>9, <1>10, <1>11, EmptyTlb

-----------------------------------------------------------------------------
(* Unmapping.                                                              *)

\* remove_mapping keeps the sharing of the pages that stay, and a frame without
\* references, of which it makes tables, is mapped nowhere afterwards.
LEMMA Removed ==
    ASSUME CowAssumption, TypeOK, Sharing, NEW p \in Procs, NEW S \in SUBSET Pages,
           RemoveMapping(p, S),
           MappedUnderArea',
           \A q \in Procs, u \in Pages : frame'[q][u] # NoFrame => area'[q][u] = area[q][u]
    PROVE  /\ Sharing'
           /\ frame' \in [Procs -> [Pages -> Frames \cup {NoFrame}]]
           /\ writable' \in SUBSET Pairs /\ shared' \in SUBSET Pairs
           /\ ref' \in [Frames -> Nat] /\ tables' \in SUBSET Frames
           /\ \A f \in Frames : RefsWithout(p, S)[f] = 0 => Users(f)' = {}
<1> USE DEF Sharing
<1> DEFINE left(f) == IF PagesOn(p, f) \cap S = {} THEN ref[f] ELSE ref[f] - 1
<1>0. RefsWithout(p, S) = [f \in Frames |-> left(f)]
  BY DEF RefsWithout
<1>1. /\ writable' = writable \ ({p} \X S) /\ shared' = shared \ ({p} \X S)
      /\ frame' = [frame EXCEPT ![p] =
                     [v \in Pages |-> IF v \in S THEN NoFrame ELSE frame[p][v]]]
  BY DEF RemoveMapping
<1>a. PICK T \in SUBSET {f \in Frames : left(f) = 0} :
          /\ ref' = [f \in Frames |-> IF f \in T THEN 1 ELSE left(f)]
          /\ tables' = tables \cup T
  BY <1>0 DEF RemoveMapping, RefsWithTables
<1>2. \A q \in Procs, u \in Pages :
          frame'[q][u] = IF q = p /\ u \in S THEN NoFrame ELSE frame[q][u]
  BY <1>1 DEF TypeOK
<1>3. \A q \in Procs, u \in Pages :
          /\ <<q, u>> \in writable' <=> <<q, u>> \in writable /\ ~(q = p /\ u \in S)
          /\ <<q, u>> \in shared' <=> <<q, u>> \in shared /\ ~(q = p /\ u \in S)
  BY <1>1
<1>4. frame' \in [Procs -> [Pages -> Frames \cup {NoFrame}]]
  BY <1>1 DEF TypeOK
<1>5. writable' \in SUBSET Pairs /\ shared' \in SUBSET Pairs
  BY <1>1 DEF TypeOK
<1>6. \A f \in Frames : left(f) \in Nat
  <2> SUFFICES ASSUME NEW f \in Frames PROVE left(f) \in Nat
    OBVIOUS
  <2>1. ref[f] \in Nat
    BY DEF TypeOK
  <2>2. ASSUME PagesOn(p, f) \cap S # {} PROVE ref[f] # 0
    <3>1. PICK v \in Pages : frame[p][v] = f
      BY <2>2 DEF PagesOn
    <3> QED BY <3>1, FreeUnmapped
  <2> QED BY <2>1, <2>2
<1>7. FrameAtOnePage' /\ BitsOfMapped'
  BY <1>2, <1>3 DEF Tables, FrameAtOnePage, BitsOfMapped
<1>8. ASSUME NEW q \in Procs, NEW u \in Pages, frame'[q][u] # NoFrame, Alone(q, u)
      PROVE  Alone(q, u)'
  BY <1>2, <1>8 DEF Alone
<1>9. WritersAlone' /\ SharedUnlessAlone'
  BY <1>2, <1>3, <1>7, <1>8 DEF WritersAlone, SharedUnlessAlone, BitsOfMapped
<1>10. StoreFaultEnds'
  <2> SUFFICES ASSUME NEW q \in Procs, NEW u \in Pages,
                      frame'[q][u] # NoFrame, area[q][u] = <<TRUE>>
               PROVE  <<q, u>> \in writable' \cup shared'
    BY DEF StoreFaultEnds
  <2>1. ~(q = p /\ u \in S) /\ frame[q][u] # NoFrame
    BY <1>2
  <2>2. <<q, u>> \in writable \cup shared
    BY <2>1, Zenon DEF StoreFaultEnds
  <2> QED BY <1>3, <2>1, <2>2
<1>11. \A g \in Frames : /\ IsFiniteSet(Users(g)')
                         /\ Cardinality(Users(g)') \in Nat
                         /\ Cardinality(Users(g)') <= left(g)
  <2> SUFFICES ASSUME NEW g \in Frames
               PROVE  /\ IsFiniteSet(Users(g)')
                      /\ Cardinality(Users(g)') \in Nat
                      /\ Cardinality(Users(g)') <= left(g)
    OBVIOUS
  <2>1. Cardinality(Users(g)) \in Nat /\ Cardinality(Users(g)) <= ref[g] /\ ref[g] \in Nat
    BY UsersFinite DEF RefCountCovers, TypeOK
  <2>2. Users(g)' = Users(g) \ ({p} \X S)
    BY <1>2 DEF Users, Pairs, CowAssumption
  <2>3. CASE PagesOn(p, g) \cap S = {}
    <3>1. Users(g)' = Users(g)
      BY <2>2, <2>3 DEF Users, Pairs, PagesOn
    <3> QED BY <2>1, <2>3, <3>1, UsersFinite
  <2>4. CASE PagesOn(p, g) \cap S # {}
    <3>1. PICK v \in S : frame[p][v] = g
      BY <2>4 DEF PagesOn
    <3>2. <<p, v>> \in Users(g)
      BY <3>1, InUsers
    <3>3. Users(g)' \subseteq Users(g) \ {<<p, v>>}
      BY <2>2
    <3>4. Cardinality(Users(g) \ {<<p, v>>}) = Cardinality(Users(g)) - 1
      BY <3>2, OneUserLess
    <3>5. IsFiniteSet(Users(g) \ {<<p, v>>})
      BY UsersFinite, FS_Subset
    <3>6. Cardinality(Users(g)') <= Cardinality(Users(g) \ {<<p, v>>})
      BY <3>3, <3>5, FS_Subset
    <3>7. IsFiniteSet(Users(g)') /\ Cardinality(Users(g)') \in Nat
      BY <3>3, <3>5, FS_Subset, FS_CardinalityType
    <3>8. left(g) = ref[g] - 1
      BY <2>4
    <3> HIDE DEF left
    <3> QED BY <2>1, <3>4, <3>6, <3>7, <3>8
  <2> QED BY <2>3, <2>4
<1> HIDE DEF left
<1>12. RefCountCovers' /\ ref' \in [Frames -> Nat]
  BY <1>a, <1>6, <1>11 DEF RefCountCovers
<1>13. \A f \in Frames : left(f) = 0 => Users(f)' = {}
  <2> SUFFICES ASSUME NEW f \in Frames, left(f) = 0 PROVE Users(f)' = {}
    OBVIOUS
  <2>1. IsFiniteSet(Users(f)') /\ Cardinality(Users(f)') = 0
    BY <1>11
  <2> QED BY <2>1, FS_EmptySet
<1>14. tables' \in SUBSET Frames
  BY <1>a DEF TypeOK
<1> QED BY <1>0, <1>4, <1>5, <1>7, <1>9, <1>10, <1>12, <1>13, <1>14 DEF Tables

LEMMA MunmapStep ==
    ASSUME CowAssumption, IInv, NEW v \in Pages, Munmap(v) PROVE IInv'
<1> USE DEF IInv
<1>1. current \in Procs /\ area[current][v] \in Areas /\ area[current][v] # <<>>
  BY DEF Munmap, TypeOK
<1>2. PICK t \in Areas : area' = [area EXCEPT ![current][v] = t]
  BY <1>1, AreaShrinks DEF Munmap
<1>3. /\ RemoveMapping(current, {v})
      /\ walked' = walked \cup {<<current, v>>}
      /\ UNCHANGED <<halt, live, current, content, tlb>>
  BY DEF Munmap
<1>4. \A q \in Procs, u \in Pages :
          /\ frame'[q][u] = IF q = current /\ u = v THEN NoFrame ELSE frame[q][u]
          /\ area'[q][u] = IF q = current /\ u = v THEN t ELSE area[q][u]
  BY <1>1, <1>2, <1>3 DEF RemoveMapping, TypeOK
<1>5. MappedUnderArea'
  BY <1>3, <1>4 DEF Tables, MappedUnderArea
<1>6. \A q \in Procs, u \in Pages : frame'[q][u] # NoFrame => area'[q][u] = area[q][u]
  BY <1>4
<1>7. /\ Sharing'
      /\ frame' \in [Procs -> [Pages -> Frames \cup {NoFrame}]]
      /\ writable' \in SUBSET Pairs /\ shared' \in SUBSET Pairs
      /\ ref' \in [Frames -> Nat] /\ tables' \in SUBSET Frames
  BY <1>1, <1>3, <1>5, <1>6, Removed DEF Sharing
<1>8. TypeOK'
  <2>1. walked' \in SUBSET Pairs
    BY <1>1, <1>3 DEF TypeOK, Pairs
  <2>2. area' \in [Procs -> [Pages -> Areas]]
    BY <1>2 DEF TypeOK
  <2> QED BY <1>3, <1>7, <2>1, <2>2 DEF TypeOK
<1>9. TlbInv'
  <2> SUFFICES ASSUME NEW e \in tlb
               PROVE  /\ e.w => \A q \in Procs, u \in Pages :
                                  frame'[q][u] = e.frame => q = current /\ u = e.page
                      /\ frame'[current][e.page] # NoFrame =>
                            /\ e.frame = frame'[current][e.page]
                            /\ e.w <=> <<current, e.page>> \in writable'
    BY <1>3, SMT DEF TlbInv
  <2>1. e.page \in Pages /\ e.frame \in Frames /\ e.frame # NoFrame
    BY DEF TypeOK, CowAssumption
  <2>2. ASSUME e.w, NEW q \in Procs, NEW u \in Pages, frame'[q][u] = e.frame
        PROVE  q = current /\ u = e.page
    <3>1. frame[q][u] = e.frame
      BY <1>4, <2>1, <2>2, Zenon, ZenonT(60)
    <3> QED BY <2>2, <3>1, Zenon DEF TlbInv
  <2>3. ASSUME frame'[current][e.page] # NoFrame
        PROVE  /\ e.frame = frame'[current][e.page]
               /\ e.w <=> <<current, e.page>> \in writable'
    <3>1. e.page # v /\ frame'[current][e.page] = frame[current][e.page]
      BY <1>1, <1>4, <2>1, <2>3, Zenon
    <3>2. <<current, e.page>> \in writable' <=> <<current, e.page>> \in writable
      BY <1>3, <3>1 DEF RemoveMapping
    <3> QED BY <2>3, <3>1, <3>2, Zenon DEF TlbInv
  <2> QED BY <2>2, <2>3, Zenon
<1> QED BY <1>7, <1>8, <1>9 DEF Sharing

LEMMA ExecveStep == ASSUME CowAssumption, IInv, Execve PROVE IInv'
<1> USE DEF IInv
<1>1. /\ current \in live /\ current \in Procs
      /\ RemoveMapping(current, Covered(current))
      /\ walked' = walked \cup ({current} \X Covered(current))
      /\ tlb' = {} /\ UNCHANGED <<halt, live, current, content>>
  BY DEF Execve, TypeOK
<1>2. PICK image \in [Pages -> Areas] : area' = [area EXCEPT ![current] = image]
  BY ImageFacts DEF Execve
<1>3. \A q \in Procs, u \in Pages :
          frame'[q][u] = IF q = current THEN NoFrame ELSE frame[q][u]
  BY <1>1 DEF RemoveMapping, TypeOK, Covered, Tables, MappedUnderArea
<1>4. \A q \in Procs, u \in Pages : frame'[q][u] # NoFrame => area'[q][u] = area[q][u]
  BY <1>2, <1>3 DEF TypeOK
<1>5. MappedUnderArea'
  BY <1>1, <1>3, <1>4 DEF Tables, MappedUnderArea
<1>6. /\ Sharing'
      /\ frame' \in [Procs -> [Pages -> Frames \cup {NoFrame}]]
      /\ writable' \in SUBSET Pairs /\ shared' \in SUBSET Pairs
      /\ ref' \in [Frames -> Nat] /\ tables' \in SUBSET Frames
  BY <1>1, <1>4, <1>5, Removed DEF Sharing, Covered
<1>7. TypeOK'
  BY <1>1, <1>2, <1>6 DEF TypeOK, Pairs, Covered
<1> QED BY <1>1, <1>6, <1>7, EmptyTlb DEF Sharing

LEMMA ExitStep == ASSUME CowAssumption, IInv, Exit PROVE IInv'
<1> USE DEF IInv
<1>1. /\ current \in Procs
      /\ RemoveMapping(current, Covered(current))
      /\ area' = [area EXCEPT ![current] = [v \in Pages |-> <<>>]]
      /\ live' = live \ {current} /\ current' \in live'
      /\ walked' = walked \ ({current} \X Pages)
      /\ tlb' = {} /\ UNCHANGED <<halt, content>>
  BY DEF Exit, TypeOK, FlushOnSwitch
<1>2. <<>> \in Areas
  BY NoArea
<1>3. \A q \in Procs, u \in Pages :
          frame'[q][u] = IF q = current THEN NoFrame ELSE frame[q][u]
  BY <1>1 DEF RemoveMapping, TypeOK, Covered, Tables, MappedUnderArea
<1>4. \A q \in Procs, u \in Pages : frame'[q][u] # NoFrame => area'[q][u] = area[q][u]
  BY <1>1, <1>3 DEF TypeOK
<1>5. MappedUnderArea'
  BY <1>1, <1>3, <1>4 DEF Tables, MappedUnderArea
<1>6. /\ Sharing'
      /\ frame' \in [Procs -> [Pages -> Frames \cup {NoFrame}]]
      /\ writable' \in SUBSET Pairs /\ shared' \in SUBSET Pairs
      /\ ref' \in [Frames -> Nat] /\ tables' \in SUBSET Frames
  BY <1>1, <1>4, <1>5, Removed DEF Sharing, Covered
<1>7. TypeOK'
  BY <1>1, <1>2, <1>6 DEF TypeOK, Pairs, Covered
<1> QED BY <1>1, <1>6, <1>7, EmptyTlb DEF Sharing

-----------------------------------------------------------------------------
(* fork.                                                                   *)

\* The child's references are those of the parent: a frame that the parent
\* maps gets one user more and one reference more at least.
LEMMA ForkedRefs ==
    ASSUME CowAssumption, TypeOK, Sharing, NEW f \in Frames
    PROVE  /\ RefsOnFork[f] \in Nat
           /\ PagesOn(current, f) = {} => RefsOnFork[f] = ref[f]
           /\ PagesOn(current, f) # {} => RefsOnFork[f] >= ref[f] + 1
<1> DEFINE w == CHOOSE v \in PagesOn(current, f) : TRUE
<1>1. RefsOnFork[f] = IF PagesOn(current, f) = {} THEN ref[f]
                      ELSE ref[f] + Len(area[current][w])
  BY DEF RefsOnFork
<1>2. ref[f] \in Nat
  BY DEF TypeOK
<1>3. ASSUME PagesOn(current, f) # {} PROVE Len(area[current][w]) \in Nat \ {0}
  <2>1. w \in Pages /\ frame[current][w] = f
    BY <1>3 DEF PagesOn
  <2>2. current \in Procs /\ f # NoFrame
    BY DEF TypeOK, CowAssumption
  <2>3. area[current][w] # <<>> /\ area[current][w] \in Areas
    BY <2>1, <2>2 DEF Sharing, Tables, MappedUnderArea, TypeOK
  <2> HIDE DEF w
  <2> QED BY <2>3, AreaShrinks
<1> HIDE DEF w
<1> QED BY <1>1, <1>2, <1>3

LEMMA ForkStep ==
    ASSUME CowAssumption, IInv, NEW c \in Procs, Fork(c) PROVE IInv'
<1> USE DEF IInv
<1> DEFINE p == current
<1>1. /\ p \in live /\ p \in Procs /\ c \notin live /\ c # p
      /\ live' = live \cup {c} /\ tlb' = {} /\ ref' = RefsOnFork
      /\ area' = [area EXCEPT ![c] = area[p]]
      /\ frame' = [frame EXCEPT ![c] = frame[p]]
      /\ walked' = WalkedOnFork(c)
      /\ UNCHANGED <<halt, current, content, tables>>
  BY DEF Fork, FlushOnFork, TypeOK
<1>2. /\ writable' = writable \ Mapped(p)
      /\ shared' = shared \cup Mapped(p) \cup {<<c, m[2]>> : m \in Mapped(p)}
  BY DEF Fork, WritableOnFork, SharedOnFork
<1>3. \A q \in Procs, u \in Pages :
          /\ frame'[q][u] = IF q = c THEN frame[p][u] ELSE frame[q][u]
          /\ area'[q][u] = IF q = c THEN area[p][u] ELSE area[q][u]
  BY <1>1 DEF TypeOK
<1>4. \A u \in Pages : frame[c][u] = NoFrame
  BY <1>1 DEF Tables, MappedUnderArea
<1>5. \A q \in Procs, u \in Pages :
          <<q, u>> \in Mapped(p) <=> q = p /\ frame[p][u] # NoFrame
  BY DEF Mapped
<1>6. \A q \in Procs, u \in Pages :
          <<q, u>> \in {<<c, m[2]>> : m \in Mapped(p)}
          <=> q = c /\ frame[p][u] # NoFrame
  <2> SUFFICES ASSUME NEW q \in Procs, NEW u \in Pages
               PROVE  <<q, u>> \in {<<c, m[2]>> : m \in Mapped(p)}
                      <=> q = c /\ frame[p][u] # NoFrame
    OBVIOUS
  <2>1. ASSUME <<q, u>> \in {<<c, m[2]>> : m \in Mapped(p)}
        PROVE  q = c /\ frame[p][u] # NoFrame
    <3>1. PICK m \in Mapped(p) : <<q, u>> = <<c, m[2]>>
      BY <2>1
    <3>2. PICK x \in Pages : frame[p][x] # NoFrame /\ m = <<p, x>>
      BY <3>1 DEF Mapped
    <3> QED BY <3>1, <3>2
  <2>2. ASSUME q = c, frame[p][u] # NoFrame
        PROVE  <<q, u>> \in {<<c, m[2]>> : m \in Mapped(p)}
    <3>1. <<p, u>> \in Mapped(p) /\ <<p, u>>[2] = u
      BY <1>5, <1>1, <2>2
    <3> QED BY <2>2, <3>1
  <2> QED BY <2>1, <2>2
<1>7. \A q \in Procs, u \in Pages :
          /\ <<q, u>> \in writable' <=> <<q, u>> \in writable /\ q # p /\ q # c
          /\ <<q, u>> \in shared' <=>
                \/ <<q, u>> \in shared
                \/ q \in {p, c} /\ frame[p][u] # NoFrame
  BY <1>2, <1>4, <1>5, <1>6 DEF Tables, BitsOfMapped
<1>8. TypeOK'
  <2>1. ref' \in [Frames -> Nat]
    BY <1>1, ForkedRefs DEF RefsOnFork, Sharing
  <2>2. writable' \in SUBSET Pairs /\ shared' \in SUBSET Pairs
    BY <1>1, <1>2 DEF TypeOK, Mapped, Pairs
  <2>3. walked' \in SUBSET Pairs
    BY <1>1 DEF WalkedOnFork, TypeOK, Mapped, Pairs
  <2> QED BY <1>1, <2>1, <2>2, <2>3 DEF TypeOK
<1>9. Tables'
  <2>1. MappedUnderArea'
    BY <1>1, <1>3 DEF Tables, MappedUnderArea
  <2>2. FrameAtOnePage'
    BY <1>1, <1>3 DEF Tables, FrameAtOnePage
  <2>3. BitsOfMapped'
    BY <1>1, <1>3, <1>4, <1>7 DEF Tables, BitsOfMapped
  <2> QED BY <2>1, <2>2, <2>3 DEF Tables
<1>10. ASSUME NEW q \in Procs, NEW u \in Pages, q # p, q # c,
              frame[q][u] # NoFrame, Alone(q, u)
       PROVE  Alone(q, u)'
  BY <1>1, <1>3, <1>10 DEF Alone
<1>11. WritersAlone'
  BY <1>7, <1>10 DEF WritersAlone, Tables, BitsOfMapped
<1>12. SharedUnlessAlone'
  BY <1>3, <1>7, <1>10 DEF SharedUnlessAlone
<1>13. StoreFaultEnds'
  <2> SUFFICES ASSUME NEW q \in Procs, NEW u \in Pages,
                      frame'[q][u] # NoFrame, area'[q][u] = <<TRUE>>
               PROVE  <<q, u>> \in writable' \cup shared'
    BY DEF StoreFaultEnds
  <2>1. CASE q \in {p, c}
    BY <1>1, <1>3, <1>7, <2>1
  <2>2. CASE q \notin {p, c}
    <3>1. frame[q][u] # NoFrame /\ area[q][u] = <<TRUE>>
      BY <1>3, <2>2
    <3>2. <<q, u>> \in writable \cup shared
      BY <3>1, Zenon DEF StoreFaultEnds
    <3> QED BY <1>7, <2>2, <3>2
  <2> QED BY <2>1, <2>2
<1>14. RefCountCovers'
  <2> SUFFICES ASSUME NEW f \in Frames PROVE Cardinality(Users(f)') <= ref'[f]
    BY DEF RefCountCovers
  <2>1. Cardinality(Users(f)) \in Nat /\ Cardinality(Users(f)) <= ref[f] /\ ref[f] \in Nat
    BY UsersFinite DEF RefCountCovers, TypeOK
  <2>2. f # NoFrame
    BY DEF CowAssumption
  <2>3. CASE PagesOn(p, f) = {}
    <3>1. Users(f)' = Users(f)
      BY <1>3, <1>4, <2>2, <2>3 DEF Users, Pairs, PagesOn
    <3>2. ref'[f] = ref[f]
      BY <1>1, <2>3, ForkedRefs DEF Sharing
    <3> QED BY <2>1, <3>1, <3>2
  <2>4. CASE PagesOn(p, f) # {}
    <3>1. PICK v \in Pages : frame[p][v] = f
      BY <2>4 DEF PagesOn
    <3>2. \A u \in Pages : frame[p][u] = f => u = v
      BY <1>1, <2>2, <3>1 DEF Tables, FrameAtOnePage
    <3>3. Users(f)' = Users(f) \cup {<<c, v>>}
      BY <1>3, <1>4, <2>2, <3>1, <3>2 DEF Users, Pairs
    <3>4. <<c, v>> \notin Users(f)
      BY <1>4, <2>2 DEF Users
    <3>5. Cardinality(Users(f) \cup {<<c, v>>}) = Cardinality(Users(f)) + 1
      BY <3>4, OneUserMore
    <3>6. ref'[f] >= ref[f] + 1 /\ ref'[f] \in Nat
      BY <1>1, <2>4, ForkedRefs DEF Sharing
    <3> QED BY <2>1, <3>3, <3>5, <3>6
  <2> QED BY <2>3, <2>4
<1> QED BY <1>1, <1>8, <1>9, <1>11, <1>12, <1>13, <1>14, EmptyTlb

-----------------------------------------------------------------------------
(* The invariant and what it implies.                                      *)

LEMMA Initially == ASSUME CowAssumption, Init PROVE IInv
<1>1. <<>> \in Areas /\ ImageAreas \subseteq Areas
  BY NoArea, ImageFacts
<1>2. TypeOK
  BY <1>1 DEF Init, TypeOK, CowAssumption
<1>3. \A p \in Procs, v \in Pages : frame[p][v] = NoFrame
  BY DEF Init
<1>4. RefCountCovers
  <2> SUFFICES ASSUME NEW f \in Frames PROVE Cardinality(Users(f)) <= ref[f]
    BY DEF RefCountCovers
  <2>1. Users(f) = {}
    BY <1>3 DEF Users, Pairs, CowAssumption
  <2>2. Cardinality(Users(f)) = 0
    BY <2>1, FS_EmptySet
  <2> QED BY <2>2 DEF Init
<1>5. Tables /\ WritersAlone /\ SharedUnlessAlone /\ StoreFaultEnds
  BY <1>3 DEF Init, Tables, MappedUnderArea, FrameAtOnePage, BitsOfMapped,
              WritersAlone, SharedUnlessAlone, StoreFaultEnds
<1>6. TlbInv
  BY DEF Init, TlbInv
<1> QED BY <1>2, <1>4, <1>5, <1>6 DEF IInv

LEMMA Inductive == ASSUME CowAssumption, IInv, [Next]_vars PROVE IInv'
<1>1. ASSUME UNCHANGED vars PROVE IInv'
  <2> USE <1>1 DEF vars, IInv
  <2>1. TypeOK'
    BY DEF TypeOK
  <2>2. Sharing'
    BY <2>1, SameTables DEF Sharing, TypeOK
  <2>3. TlbInv'
    BY DEF TlbInv
  <2> QED BY <2>1, <2>2, <2>3 DEF Sharing
<1>2. ASSUME Next PROVE IInv'
  <2>1. CASE Switch \/ OutOfMemory \/ Execve \/ Exit
    BY <2>1, SwitchStep, OutOfMemoryStep, ExecveStep, ExitStep
  <2>2. ASSUME NEW v \in Pages,
               \/ Load(v)
               \/ \E x \in Values : Store(v, x)
               \/ StoreToTable(v)
               \/ \E store \in BOOLEAN : PageIn(v, store)
               \/ CopyOnWrite(v) \/ TakeOver(v) \/ FaultInVain(v)
               \/ \E w \in BOOLEAN : Mmap(v, w)
               \/ Munmap(v)
        PROVE  IInv'
    BY <2>2, LoadStep, StoreStep, StoreToTableStep, PageInStep, CopyOnWriteStep,
       TakeOverStep, FaultInVainStep, MmapStep, MunmapStep
  <2>3. ASSUME NEW c \in Procs, Fork(c) PROVE IInv'
    BY <2>3, ForkStep
  <2> QED BY <1>2, <2>1, <2>2, <2>3 DEF Next
<1> QED BY <1>1, <1>2

LEMMA Invariant == Spec => []IInv
<1>1. Init => IInv
  BY Initially, CowAssumption
<1>2. IInv /\ [Next]_vars => IInv'
  BY Inductive, CowAssumption
<1> QED BY <1>1, <1>2, PTL DEF Spec

-----------------------------------------------------------------------------
(* Frames that munmap, execve and exit have made page tables.              *)

\* What one step does to the references and users of a table is nothing.
LEMMA TablesRemoved ==
    ASSUME CowAssumption, IInv, TablesStay, NEW p \in Procs, NEW S \in SUBSET Pages,
           RemoveMapping(p, S),
           \A f \in Frames : RefsWithout(p, S)[f] = 0 => Users(f)' = {}
    PROVE  TablesStay'
<1>1. PICK T \in SUBSET {f \in Frames : RefsWithout(p, S)[f] = 0} :
          /\ ref' = [f \in Frames |-> IF f \in T THEN 1 ELSE RefsWithout(p, S)[f]]
          /\ tables' = tables \cup T
  BY DEF RemoveMapping, RefsWithTables
<1>2. ASSUME NEW f \in tables PROVE ref'[f] = 1 /\ Users(f)' = {}
  <2>1. f \in Frames /\ f # NoFrame /\ ref[f] = 1 /\ Users(f) = {}
    BY <1>2 DEF IInv, TypeOK, TablesStay, CowAssumption
  <2>2. \A q \in Procs, u \in Pages : frame[q][u] # f
    BY <2>1, InUsers
  <2>3. RefsWithout(p, S)[f] = 1
    BY <2>1, <2>2 DEF RefsWithout, PagesOn
  <2>4. Users(f)' = {}
    BY <2>1, <2>2 DEF Users, Pairs, RemoveMapping, IInv, TypeOK
  <2> QED BY <1>1, <2>1, <2>3, <2>4
<1>3. ASSUME NEW f \in T PROVE ref'[f] = 1 /\ Users(f)' = {}
  BY <1>1, <1>3
<1> QED BY <1>1, <1>2, <1>3 DEF TablesStay

\* A step that maps at most a free frame, and counts at most a mapped or a free
\* one, finds no table among them.
LEMMA TablesApart ==
    ASSUME CowAssumption, IInv, TablesStay, UNCHANGED tables,
           \A q \in Procs, u \in Pages :
               frame'[q][u] \in Frames =>
                   \/ \E r \in Procs, w \in Pages : frame[r][w] = frame'[q][u]
                   \/ ref[frame'[q][u]] = 0,
           \A f \in Frames :
               \/ ref'[f] = ref[f] \/ ref[f] = 0
               \/ \E q \in Procs, u \in Pages : frame[q][u] = f
    PROVE  TablesStay'
<1> SUFFICES ASSUME NEW f \in tables PROVE ref'[f] = 1 /\ Users(f)' = {}
  BY DEF TablesStay
<1>1. f \in Frames /\ ref[f] = 1 /\ Users(f) = {}
  BY DEF IInv, TypeOK, TablesStay
<1>2. \A q \in Procs, u \in Pages : frame[q][u] # f
  BY <1>1, InUsers
<1>3. \A q \in Procs, u \in Pages : frame'[q][u] # f
  BY <1>1, <1>2
<1>4. Users(f)' = {}
  BY <1>3 DEF Users, Pairs
<1> QED BY <1>1, <1>2, <1>4

LEMMA TablesStayStep ==
    ASSUME CowAssumption, IInv, TablesStay, [Next]_vars PROVE TablesStay'
<1> USE DEF IInv
<1>1. CASE UNCHANGED <<frame, ref, tables>>
  BY <1>1, TablesApart
<1>2. ASSUME NEW v \in Pages,
             \/ Load(v) \/ \E x \in Values : Store(v, x)
             \/ StoreToTable(v) \/ \E w \in BOOLEAN : Mmap(v, w)
      PROVE  TablesStay'
  BY <1>1, <1>2 DEF Load, Store, StoreToTable, Mmap
<1>3. CASE Switch \/ OutOfMemory \/ UNCHANGED vars
  BY <1>1, <1>3 DEF Switch, OutOfMemory, vars
<1>4. ASSUME NEW v \in Pages, NEW store \in BOOLEAN, PageIn(v, store)
      PROVE  TablesStay'
  <2>1. PICK f \in Frames : /\ ref[f] = 0 /\ ref' = [ref EXCEPT ![f] = 1]
                            /\ frame' = [frame EXCEPT ![current][v] = f]
                            /\ tables' = tables
    BY <1>4 DEF PageIn, Free
  <2>2. \A q \in Procs, u \in Pages : frame'[q][u] \in {f, frame[q][u]}
    BY <2>1 DEF TypeOK
  <2>3. \A g \in Frames : g # f => ref'[g] = ref[g]
    BY <2>1 DEF TypeOK
  <2> QED BY <2>1, <2>2, <2>3, TablesApart
<1>5. ASSUME NEW v \in Pages, CopyOnWrite(v) PROVE TablesStay'
  <2>1. PICK f \in Frames :
            /\ ref[f] = 0 /\ ref' = [ref EXCEPT ![f] = 1, ![frame[current][v]] = @ - 1]
            /\ frame' = [frame EXCEPT ![current][v] = f]
            /\ tables' = tables /\ current \in Procs
    BY <1>5 DEF CopyOnWrite, Free, TypeOK
  <2>2. \A q \in Procs, u \in Pages : frame'[q][u] \in {f, frame[q][u]}
    BY <2>1 DEF TypeOK
  <2>3. \A g \in Frames : g # f /\ g # frame[current][v] => ref'[g] = ref[g]
    BY <2>1 DEF TypeOK
  <2> QED BY <2>1, <2>2, <2>3, TablesApart
<1>6. ASSUME NEW v \in Pages, TakeOver(v) \/ FaultInVain(v) PROVE TablesStay'
  <2>1. PICK f \in Frames : /\ ref[f] = 0 /\ ref' = [ref EXCEPT ![f] = 1]
                            /\ frame' = frame /\ tables' = tables
    BY <1>6 DEF TakeOver, FaultInVain, Free
  <2>2. \A g \in Frames : g # f => ref'[g] = ref[g]
    BY <2>1 DEF TypeOK
  <2> QED BY <2>1, <2>2, TablesApart
<1>7. ASSUME NEW c \in Procs, Fork(c) PROVE TablesStay'
  <2>1. /\ frame' = [frame EXCEPT ![c] = frame[current]] /\ current \in Procs
        /\ ref' = RefsOnFork /\ tables' = tables
    BY <1>7 DEF Fork, TypeOK
  <2>2. \A q \in Procs, u \in Pages : frame'[q][u] \in {frame[current][u], frame[q][u]}
    BY <2>1 DEF TypeOK
  <2>3. \A g \in Frames : PagesOn(current, g) = {} => ref'[g] = ref[g]
    BY <2>1 DEF RefsOnFork
  <2>4. \A g \in Frames : PagesOn(current, g) # {} =>
            \E u \in Pages : frame[current][u] = g
    BY DEF PagesOn
  <2> QED BY <2>1, <2>2, <2>3, <2>4, TablesApart
<1>8. ASSUME NEW v \in Pages, Munmap(v) PROVE TablesStay'
  <2>1. current \in Procs /\ RemoveMapping(current, {v}) /\ IInv'
    BY <1>8, MunmapStep DEF Munmap, TypeOK
  <2>2. \A q \in Procs, u \in Pages : frame'[q][u] # NoFrame => area'[q][u] = area[q][u]
    BY <1>8, <2>1 DEF Munmap, RemoveMapping, TypeOK
  <2> QED BY <2>1, <2>2, Removed, TablesRemoved DEF Sharing, Tables
<1>9. CASE Execve \/ Exit
  <2>1. /\ current \in Procs /\ RemoveMapping(current, Covered(current)) /\ IInv'
        /\ Covered(current) \subseteq Pages
        /\ \/ \E a : area' = [area EXCEPT ![current] = a]
    BY <1>9, ExecveStep, ExitStep DEF Execve, Exit, TypeOK, Covered
  <2>2. \A q \in Procs, u \in Pages :
            frame'[q][u] = IF q = current THEN NoFrame ELSE frame[q][u]
    BY <2>1 DEF RemoveMapping, TypeOK, Covered, Tables, MappedUnderArea
  <2>3. \A q \in Procs, u \in Pages : frame'[q][u] # NoFrame => area'[q][u] = area[q][u]
    BY <2>1, <2>2 DEF TypeOK
  <2> QED BY <2>1, <2>3, Removed, TablesRemoved DEF Sharing, Tables
<1> QED BY <1>2, <1>3, <1>4, <1>5, <1>6, <1>7, <1>8, <1>9 DEF Next

\* A frame that has become a page table is neither mapped nor freed, whatever
\* faults, forks, munmaps and exits follow.
THEOREM TablesAreKept == Spec => []TablesStay
<1>1. Init => TablesStay
  BY DEF Init, TablesStay
<1>2. IInv /\ TablesStay /\ [Next]_vars => TablesStay'
  BY TablesStayStep, CowAssumption
<1> QED BY <1>1, <1>2, Invariant, PTL DEF Spec

\* Every variable stays in its type, whatever the bounds: reference counts are
\* never negative, and the running process is a live one.
THEOREM TypeCorrect == Spec => []TypeOK
<1>1. IInv => TypeOK
  BY DEF IInv
<1> QED BY <1>1, Invariant, PTL

\* ref_page and deref_page never undercount a frame that page tables map, over
\* any sequence of faults, forks, munmap, execve and exit.
THEOREM RefCountsCoverMappings == Spec => []RefCountCovers
<1>1. IInv => RefCountCovers
  BY DEF IInv
<1> QED BY <1>1, Invariant, PTL

\* An entry with W is the only one, of any process, for its frame: do_fork and
\* do_page_fault together never leave two processes with a page one may write.
THEOREM WritersAreAlone == Spec => []WriterIsAlone
<1>1. ASSUME IInv PROVE WriterIsAlone
  <2> SUFFICES ASSUME NEW pv \in writable PROVE Users(frame[pv[1]][pv[2]]) = {pv}
    BY DEF WriterIsAlone
  <2>1. PICK p \in Procs, v \in Pages : pv = <<p, v>>
    BY <1>1 DEF IInv, TypeOK, Pairs
  <2>2. Alone(p, v)
    BY <1>1, <2>1 DEF IInv, WritersAlone
  <2> QED BY <2>1, <2>2 DEF Alone, Users, Pairs
<1> QED BY <1>1, Invariant, PTL

\* Every entry of a frame with several users carries the S bit, so a store to
\* it ends in the branch of do_page_fault that copies.
THEOREM SharersMarked == Spec => []SharersAreMarked
<1>1. ASSUME IInv PROVE SharersAreMarked
  <2> SUFFICES ASSUME NEW f \in Frames, Cardinality(Users(f)) > 1,
                      NEW pv \in Users(f)
               PROVE  pv \in shared
    BY DEF SharersAreMarked
  <2>1. PICK p \in Procs, v \in Pages : pv = <<p, v>> /\ frame[p][v] = f
    BY DEF Users, Pairs
  <2>2. CASE Alone(p, v)
    <3>1. Users(f) = {pv}
      BY <2>1, <2>2 DEF Alone, Users, Pairs
    <3> QED BY <3>1, FS_Singleton
  <2>3. CASE ~Alone(p, v)
    BY <1>1, <2>1, <2>3, CowAssumption DEF IInv, SharedUnlessAlone, CowAssumption
  <2> QED BY <2>2, <2>3
<1> QED BY <1>1, Invariant, PTL

\* A store under one writable area never finds an entry with neither W nor S,
\* which do_page_fault would leave as it is, for ever.
THEOREM StoreFaultsEnd == Spec => []StoreFaultEnds
<1>1. IInv => StoreFaultEnds
  BY DEF IInv
<1> QED BY <1>1, Invariant, PTL

\* munmap does not flush, and yet no translation that may still be cached lets
\* the running process write a frame that a page table maps elsewhere; it leads
\* to a page table only from a page that the process has unmapped.
THEOREM TlbIsolates == Spec => []TlbIsolation
<1>1. ASSUME IInv, TablesStay PROVE TlbIsolation
  <2> SUFFICES ASSUME NEW e \in tlb
               PROVE  /\ e.w => Users(e.frame) \subseteq {<<current, e.page>>}
                      /\ Present(e.page) => e \in Walk(e.page)
                      /\ e.frame \in tables => ~Present(e.page)
    BY Zenon DEF TlbIsolation
  <2>1. e \in [page : Pages, frame : Frames, w : BOOLEAN]
    BY <1>1 DEF IInv, TypeOK
  <2>2. ASSUME e.w PROVE Users(e.frame) \subseteq {<<current, e.page>>}
    <3>1. \A q \in Procs, u \in Pages :
              frame[q][u] = e.frame => q = current /\ u = e.page
      BY <1>1, <2>2, Zenon DEF IInv, TlbInv
    <3> QED BY <3>1 DEF Users, Pairs
  <2>3. ASSUME Present(e.page) PROVE e \in Walk(e.page)
    <3>1. e.frame = frame[current][e.page] /\ (e.w <=> Writable(e.page))
      BY <1>1, <2>3, Zenon DEF IInv, TlbInv, Present, Writable
    <3>2. e = [page |-> e.page, frame |-> e.frame, w |-> e.w]
      BY <2>1
    <3>3. e.w = Writable(e.page)
      BY <2>1, <3>1 DEF Writable
    <3> QED BY <2>3, <3>1, <3>2, <3>3 DEF Walk
  <2>4. ASSUME e.frame \in tables, Present(e.page) PROVE FALSE
    <3>1. e.frame = frame[current][e.page]
      BY <1>1, <2>4, Zenon DEF IInv, TlbInv, Present
    <3>2. Users(e.frame) = {} /\ e.page \in Pages /\ current \in Procs
      BY <1>1, <2>1, <2>4 DEF TablesStay, IInv, TypeOK
    <3> QED BY <3>1, <3>2, InUsers
  <2> QED BY <2>2, <2>3, <2>4, Zenon
<1> QED BY <1>1, Invariant, TablesAreKept, PTL

-----------------------------------------------------------------------------
(* Refinement: memories are private.                                       *)

Mem == [p \in Procs |-> Memory(p)]

LEMMA MemoryOf ==
    ASSUME NEW p \in Procs
    PROVE  /\ DOMAIN Memory(p) = {u \in Pages : frame[p][u] # NoFrame}
           /\ \A u \in DOMAIN Memory(p) : Memory(p)[u] = content[frame[p][u]]
           /\ Mem[p] = Memory(p)
BY DEF Memory, Mem

LEMMA SameMemory ==
    ASSUME NEW p \in Procs,
           \A u \in Pages : /\ frame'[p][u] # NoFrame <=> frame[p][u] # NoFrame
                            /\ frame[p][u] # NoFrame =>
                                 content'[frame'[p][u]] = content[frame[p][u]]
    PROVE  Memory(p)' = Memory(p)
BY DEF Memory

\* Only the memory of p changes, to F.
LEMMA OneMemory ==
    ASSUME NEW p \in Procs, NEW F, Memory(p)' = F,
           \A q \in Procs \ {p} : Memory(q)' = Memory(q)
    PROVE  Mem' = [Mem EXCEPT ![p] = F]
BY DEF Mem

LEMMA NoMemory ==
    ASSUME NEW p \in Procs, \A u \in Pages : frame'[p][u] = NoFrame
    PROVE  Memory(p)' = Private!Nothing
BY DEF Memory, Private!Nothing

\* A step that leaves live, the page tables and the contents alone.
LEMMA Unseen ==
    ASSUME UNCHANGED <<live, frame, content>>
    PROVE  UNCHANGED <<live, Mem>>
BY DEF Mem, Memory

LEMMA PrivateStore ==
    ASSUME CowAssumption, IInv, NEW v \in Pages, NEW x \in Values, Store(v, x)
    PROVE  /\ live' = live
           /\ Mem' = Mem \/ Private!Write(current, v, x)
<1> USE DEF IInv
<1>0. PICK p \in Procs : p = current
  BY DEF TypeOK
<1>1. PICK e \in Translations(v) :
          e.w /\ content' = [content EXCEPT ![e.frame] = x]
  BY DEF Store
<1>2. /\ e.page = v /\ e.frame \in Frames
      /\ \A q \in Procs, u \in Pages :
            frame[q][u] = e.frame => q = p /\ u = v
      /\ frame[p][v] # NoFrame => frame[p][v] = e.frame
  <2>1. CASE e \in tlb /\ e.page = v
    BY <1>0, <1>1, <2>1 DEF TlbInv, TypeOK
  <2>2. CASE e \in Walk(v)
    <3>1. e.page = v
      BY <2>2 DEF Walk
    <3> QED BY <1>0, <1>1, <2>2, <3>1, AddWalk DEF TypeOK
  <2> QED BY <2>1, <2>2 DEF Translations
<1>3. UNCHANGED <<live, frame>>
  BY DEF Store
<1>4. \A f \in Frames : content'[f] = IF f = e.frame THEN x ELSE content[f]
  BY <1>1, <1>2 DEF TypeOK
<1>5. \A q \in Procs, u \in Pages : frame[q][u] \in Frames \cup {NoFrame}
  BY DEF TypeOK
<1>6. \A q \in Procs \ {p} : Memory(q)' = Memory(q)
  BY <1>2, <1>3, <1>4, <1>5, SameMemory
<1>7. CASE frame[p][v] = NoFrame
  <2>1. Memory(p)' = Memory(p)
    BY <1>2, <1>3, <1>4, <1>5, <1>7, SameMemory DEF CowAssumption
  <2>2. Mem' = Mem
    BY <1>6, <2>1 DEF Mem
  <2> QED BY <1>3, <2>2
<1>8. CASE frame[p][v] # NoFrame
  <2>1. Memory(p)' = [Memory(p) EXCEPT ![v] = x]
    BY <1>2, <1>3, <1>4, <1>5, <1>8 DEF Memory
  <2>2. v \in DOMAIN Memory(p) /\ Mem[p] = Memory(p)
    BY <1>2, <1>8, MemoryOf
  <2>3. Mem' = [Mem EXCEPT ![p] = [Memory(p) EXCEPT ![v] = x]]
    BY <1>2, <1>6, <2>1, OneMemory
  <2>4. Private!Write(p, v, x)
    BY <1>0, <2>2, <2>3 DEF Private!Write, Mem
  <2> QED BY <1>0, <1>3, <2>4
<1> QED BY <1>7, <1>8

LEMMA PrivatePageIn ==
    ASSUME CowAssumption, IInv, NEW v \in Pages, NEW store \in BOOLEAN,
           PageIn(v, store)
    PROVE  live' = live /\ \E x \in Values : Private!Touch(current, v, x)
<1> USE DEF IInv
<1>0. PICK p \in Procs : p = current
  BY DEF TypeOK
<1>1. PICK f \in Frames, x \in Values :
          /\ ref[f] = 0
          /\ content' = [content EXCEPT ![f] = x]
          /\ frame' = [frame EXCEPT ![p][v] = f]
  BY <1>0 DEF PageIn, Free
<1>2. frame[p][v] = NoFrame /\ live' = live /\ f # NoFrame
  BY <1>0 DEF PageIn, Present, TypeOK, CowAssumption
<1>3. \A q \in Procs, u \in Pages : frame[q][u] # f
  BY <1>1, FreeUnmapped
<1>4. \A q \in Procs, u \in Pages :
          /\ frame'[q][u] = IF q = p /\ u = v THEN f ELSE frame[q][u]
          /\ frame[q][u] \in Frames \cup {NoFrame}
  BY <1>1, <1>2 DEF TypeOK
<1>5. \A g \in Frames : content'[g] = IF g = f THEN x ELSE content[g]
  BY <1>1 DEF TypeOK
<1>6. \A q \in Procs \ {p} : Memory(q)' = Memory(q)
  BY <1>3, <1>4, <1>5, SameMemory
<1>7. Memory(p)' =
          [u \in DOMAIN Memory(p) \cup {v} |->
              IF u = v THEN x ELSE Memory(p)[u]]
  <2> DEFINE D == {u \in Pages : frame[p][u] # NoFrame}
  <2>1. DOMAIN Memory(p) = D
    BY <1>2, MemoryOf
  <2>2. {u \in Pages : frame'[p][u] # NoFrame} = D \cup {v}
    BY <1>2, <1>4
  <2>3. \A u \in D \cup {v} :
            content'[frame'[p][u]] = IF u = v THEN x ELSE Memory(p)[u]
    BY <1>1, <1>2, <1>3, <1>4, <1>5, <2>1, MemoryOf
  <2>4. Memory(p)' = [u \in D \cup {v} |-> content'[frame'[p][u]]]
    BY <2>2, <1>2 DEF Memory, PageIn
  <2> HIDE DEF D
  <2> QED BY <2>1, <2>3, <2>4
<1>8. Mem' = [Mem EXCEPT ![p] =
                [u \in DOMAIN Memory(p) \cup {v} |->
                    IF u = v THEN x ELSE Memory(p)[u]]]
  BY <1>2, <1>6, <1>7, OneMemory
<1>9. v \notin DOMAIN Memory(p) /\ Mem[p] = Memory(p)
  BY <1>2, MemoryOf
<1>10. Private!Touch(p, v, x)
  BY <1>8, <1>9 DEF Private!Touch, Mem
<1> QED BY <1>0, <1>2, <1>10

LEMMA PrivateCopy ==
    ASSUME CowAssumption, IInv, NEW v \in Pages, CopyOnWrite(v)
    PROVE  live' = live /\ Mem' = Mem
<1> USE DEF IInv
<1>0. PICK p \in Procs : p = current
  BY DEF TypeOK
<1>1. PICK f \in Frames :
          /\ ref[f] = 0
          /\ content' = [content EXCEPT ![f] = content[frame[p][v]]]
          /\ frame' = [frame EXCEPT ![p][v] = f]
  BY <1>0 DEF CopyOnWrite, Free
<1>2. frame[p][v] # NoFrame /\ live' = live /\ f # NoFrame
  BY <1>0 DEF CopyOnWrite, Present, TypeOK, CowAssumption
<1>3. \A q \in Procs, u \in Pages : frame[q][u] # f
  BY <1>1, FreeUnmapped
<1>4. \A q \in Procs, u \in Pages :
          /\ frame'[q][u] = IF q = p /\ u = v THEN f ELSE frame[q][u]
          /\ frame[q][u] \in Frames \cup {NoFrame}
  BY <1>1, <1>2 DEF TypeOK
<1>5. \A g \in Frames :
          content'[g] = IF g = f THEN content[frame[p][v]] ELSE content[g]
  BY <1>1 DEF TypeOK
<1>6. \A q \in Procs : Memory(q)' = Memory(q)
  BY <1>1, <1>2, <1>3, <1>4, <1>5, SameMemory
<1> QED BY <1>2, <1>6 DEF Mem

LEMMA PrivateMunmap ==
    ASSUME CowAssumption, IInv, NEW v \in Pages, Munmap(v)
    PROVE  live' = live /\ Private!Unmap(current, {v})
<1> USE DEF IInv
<1>1. PICK p \in Procs : p = current
  BY DEF TypeOK
<1>2. /\ live' = live /\ content' = content
      /\ \A q \in Procs, u \in Pages :
            frame'[q][u] = IF q = p /\ u = v THEN NoFrame ELSE frame[q][u]
  BY <1>1 DEF Munmap, RemoveMapping, TypeOK
<1>3. \A q \in Procs \ {p} : Memory(q)' = Memory(q)
  BY <1>2, SameMemory
<1>4. Memory(p)' = [u \in DOMAIN Memory(p) \ {v} |-> Memory(p)[u]]
  BY <1>2 DEF Memory
<1>5. Mem' = [Mem EXCEPT ![p] = [u \in DOMAIN Memory(p) \ {v} |-> Memory(p)[u]]]
  BY <1>3, <1>4, OneMemory
<1>6. Mem[p] = Memory(p)
  BY MemoryOf
<1> QED BY <1>1, <1>2, <1>5, <1>6 DEF Private!Unmap, Private!Restrict, Mem

\* All pages of p are gone: what execve and exit do.
LEMMA Emptied ==
    ASSUME CowAssumption, TypeOK, Tables, NEW p \in Procs,
           RemoveMapping(p, Covered(p)), content' = content
    PROVE  Mem' = [Mem EXCEPT ![p] = Private!Nothing]
<1>1. \A q \in Procs, u \in Pages :
          frame'[q][u] = IF q = p THEN NoFrame ELSE frame[q][u]
  BY DEF RemoveMapping, TypeOK, Covered, Tables, MappedUnderArea
<1>2. \A q \in Procs \ {p} : Memory(q)' = Memory(q)
  BY <1>1, SameMemory
<1>3. Memory(p)' = Private!Nothing
  BY <1>1, NoMemory
<1> QED BY <1>2, <1>3, OneMemory

LEMMA PrivateExecve ==
    ASSUME CowAssumption, IInv, Execve
    PROVE  live' = live /\ Private!Unmap(current, Pages)
<1> USE DEF IInv
<1>1. PICK p \in Procs : p = current
  BY DEF TypeOK
<1>2. Mem' = [Mem EXCEPT ![p] = Private!Nothing]
  BY <1>1, Emptied DEF Execve
<1>3. DOMAIN Memory(p) \ Pages = {} /\ Mem[p] = Memory(p)
  BY MemoryOf
<1>4. Private!Nothing = [u \in DOMAIN Memory(p) \ Pages |-> Memory(p)[u]]
  BY <1>3 DEF Private!Nothing
<1> QED BY <1>1, <1>2, <1>3, <1>4 DEF Private!Unmap, Private!Restrict, Mem, Execve

LEMMA PrivateExit == ASSUME CowAssumption, IInv, Exit PROVE Private!Die(current)
<1> USE DEF IInv
<1>1. PICK p \in Procs : p = current
  BY DEF TypeOK
<1>2. Mem' = [Mem EXCEPT ![p] = Private!Nothing]
  BY <1>1, Emptied DEF Exit
<1> QED BY <1>1, <1>2 DEF Private!Die, Mem, Exit

LEMMA PrivateFork ==
    ASSUME CowAssumption, IInv, NEW c \in Procs, Fork(c)
    PROVE  Private!Spawn(current, c)
<1> USE DEF IInv
<1>1. PICK p \in Procs : p = current
  BY DEF TypeOK
<1>2. /\ c \notin live /\ c # p /\ live' = live \cup {c} /\ content' = content
      /\ \A q \in Procs, u \in Pages :
            frame'[q][u] = IF q = c THEN frame[p][u] ELSE frame[q][u]
  BY <1>1 DEF Fork, TypeOK
<1>3. \A q \in Procs \ {c} : Memory(q)' = Memory(q)
  BY <1>2, SameMemory
<1>4. Memory(c)' = Memory(p) /\ Mem[p] = Memory(p)
  BY <1>2, MemoryOf DEF Memory
<1>5. Mem' = [Mem EXCEPT ![c] = Mem[p]]
  BY <1>3, <1>4, OneMemory
<1> QED BY <1>1, <1>2, <1>5 DEF Private!Spawn, Mem

LEMMA PrivateStep ==
    ASSUME CowAssumption, IInv, [Next]_vars
    PROVE  [Private!Next]_(Private!mvars)
<1>1. current \in live
  BY DEF IInv, TypeOK
<1>2. UNCHANGED <<live, Mem>> <=> UNCHANGED Private!mvars
  BY DEF Private!mvars, Mem
<1>3. CASE UNCHANGED <<live, frame, content>>
  BY <1>2, <1>3, Unseen
<1>4. ASSUME NEW v \in Pages, NEW x \in Values, Store(v, x)
      PROVE  [Private!Next]_(Private!mvars)
  BY <1>1, <1>2, <1>4, PrivateStore DEF Private!Next
<1>5. ASSUME NEW v \in Pages, NEW store \in BOOLEAN, PageIn(v, store)
      PROVE  Private!Next
  BY <1>1, <1>5, PrivatePageIn DEF Private!Next, PageIn
<1>6. ASSUME NEW v \in Pages, CopyOnWrite(v) PROVE UNCHANGED Private!mvars
  BY <1>2, <1>6, PrivateCopy
<1>7. ASSUME NEW v \in Pages, Munmap(v) PROVE Private!Next
  BY <1>1, <1>7, PrivateMunmap DEF Private!Next
<1>8. ASSUME NEW c \in Procs, Fork(c) PROVE Private!Next
  BY <1>1, <1>8, PrivateFork DEF Private!Next
<1>9. CASE Execve
  BY <1>1, <1>9, PrivateExecve DEF Private!Next
<1>10. CASE Exit
  BY <1>1, <1>10, PrivateExit DEF Private!Next
<1>11. ASSUME NEW v \in Pages,
              \/ Load(v) \/ StoreToTable(v) \/ TakeOver(v) \/ FaultInVain(v)
              \/ \E w \in BOOLEAN : Mmap(v, w)
       PROVE  UNCHANGED <<live, frame, content>>
  BY <1>11 DEF Load, StoreToTable, TakeOver, FaultInVain, Mmap
<1>12. Switch \/ OutOfMemory \/ UNCHANGED vars => UNCHANGED <<live, frame, content>>
  BY DEF Switch, OutOfMemory, vars
<1> QED BY <1>3, <1>4, <1>5, <1>6, <1>7, <1>8, <1>9, <1>10, <1>11, <1>12 DEF Next

\* Copy-on-write is invisible: with shared frames, reference counts and a TLB
\* that munmap leaves stale, every process has a memory of its own, as long as
\* no process writes a page it has unmapped whose frame is a page table by then.
THEOREM MemoriesArePrivate == Spec => PrivateSpec
<1>1. ASSUME Init PROVE Private!Init
  <2>1. \A p \in Procs : Memory(p) = Private!Nothing
    BY <1>1 DEF Init, Memory, Private!Nothing
  <2> QED BY <1>1, <2>1 DEF Init, Private!Init
<1>2. IInv /\ [Next]_vars => [Private!Next]_(Private!mvars)
  BY PrivateStep, CowAssumption
<1> QED BY <1>1, <1>2, Invariant, PTL DEF Spec, PrivateSpec, Private!Spec
=============================================================================
