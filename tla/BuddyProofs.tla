---------------------------- MODULE BuddyProofs -----------------------------
(***************************************************************************)
(* Proofs about Buddy, for every memory of a power of two of pages: blocks *)
(* in use never overlap, are freed as they were given, and a request fails *)
(* only when no block that fits is free.                                   *)
(***************************************************************************)
EXTENDS Buddy, FiniteSetTheorems, WellFoundedInduction, TLAPS

-----------------------------------------------------------------------------
(* Numbers and powers of two.                                              *)

\* A non-empty set of natural numbers has a least element.
LEMMA NatMin ==
    ASSUME NEW S \in SUBSET Nat, S # {}
    PROVE  \E i \in S : \A j \in S : i <= j
<1>1. IsWellFoundedOn(OpToRel(<, Nat), Nat)
  BY NatLessThanWellFounded
<1>2. PICK x \in S : \A y \in S : ~ (<<y, x>> \in OpToRel(<, Nat))
  BY <1>1, WFMin
<1>3. \A y \in S : ~ (y < x)
  BY <1>2 DEF OpToRel
<1> QED BY <1>3

\* Induction: what holds of 0 and of the successor of whatever it holds of.
LEMMA NatByInduction ==
    ASSUME NEW T \in SUBSET Nat, 0 \in T, \A n \in T : n + 1 \in T
    PROVE  T = Nat
<1>1. ASSUME Nat \ T # {} PROVE FALSE
  <2>1. PICK i \in Nat \ T : \A j \in Nat \ T : i <= j
    BY <1>1, NatMin
  <2>2. i # 0 /\ i - 1 \in Nat /\ i - 1 \notin Nat \ T
    BY <2>1
  <2>3. (i - 1) + 1 \in T
    BY <2>2
  <2> QED BY <2>1, <2>3
<1> QED BY <1>1

\* The powers of two that occur, as a table: the provers have no exponents.
Pow == [k \in 0 .. 30 |-> 2 ^ k]

\* The table is the power function.
LEMMA PowIs == \A k \in 0 .. 30 : 2 ^ k = Pow[k]
BY DEF Pow

\* Its values.
LEMMA PowTable ==
    /\ Pow[0] = 1 /\ Pow[1] = 2 /\ Pow[2] = 4 /\ Pow[3] = 8 /\ Pow[4] = 16
    /\ Pow[5] = 32 /\ Pow[6] = 64 /\ Pow[7] = 128 /\ Pow[8] = 256
    /\ Pow[9] = 512 /\ Pow[10] = 1024 /\ Pow[11] = 2048 /\ Pow[12] = 4096
    /\ Pow[13] = 8192 /\ Pow[14] = 16384 /\ Pow[15] = 32768
    /\ Pow[16] = 65536 /\ Pow[17] = 131072 /\ Pow[18] = 262144
    /\ Pow[19] = 524288 /\ Pow[20] = 1048576 /\ Pow[21] = 2097152
    /\ Pow[22] = 4194304 /\ Pow[23] = 8388608 /\ Pow[24] = 16777216
    /\ Pow[25] = 33554432 /\ Pow[26] = 67108864 /\ Pow[27] = 134217728
    /\ Pow[28] = 268435456 /\ Pow[29] = 536870912 /\ Pow[30] = 1073741824
BY DEF Pow

\* It doubles.
LEMMA PowRises ==
    /\ \A k \in 0 .. 30 : Pow[k] \in Nat \ {0}
    /\ \A k \in 0 .. 29 : Pow[k + 1] = 2 * Pow[k]
BY PowTable

\* It is strictly monotonic.
LEMMA PowOrder == \A j, k \in 0 .. 30 : j < k => Pow[j] < Pow[k]
BY PowTable

\* Every size has a power at or above it.
LEMMA PowAbove ==
    ASSUME NEW m \in 0 .. 30, NEW size \in Nat \ {0}, size <= Pow[m]
    PROVE  \E k \in 0 .. m : size <= Pow[k] /\ (k = 0 \/ Pow[k - 1] < size)
<1> DEFINE S == {k \in 0 .. m : size <= Pow[k]}
<1>1. PICK k \in S : \A j \in S : k <= j
  <2>1. S \in SUBSET Nat /\ m \in S
    OBVIOUS
  <2> HIDE DEF S
  <2> QED BY <2>1, NatMin
<1>2. CASE k # 0
  <2>1. k - 1 \in 0 .. m /\ k - 1 \in 0 .. 30 /\ k - 1 \notin S
    BY <1>1, <1>2
  <2>2. Pow[k - 1] \in Nat
    BY <2>1, PowRises
  <2> QED BY <1>1, <2>1, <2>2
<1> QED BY <1>1, <1>2

-----------------------------------------------------------------------------
(* Sizes.                                                                  *)

\* Every power but 1 is twice another, and no power lies between the two.
LEMMA PowersFacts ==
    /\ Powers \subseteq Nat \ {0} /\ 1 \in Powers
    /\ \A s \in Powers : s # 1 => \E h \in Powers : s = 2 * h
    /\ \A s, t \in Powers : s < t => 2 * s <= t
<1>1. \A s : s \in Powers <=> \E k \in 0 .. 30 : s = Pow[k]
  BY PowIs DEF Powers
<1>2. Powers \subseteq Nat \ {0} /\ 1 \in Powers
  BY <1>1, PowRises, PowTable
<1>3. ASSUME NEW s \in Powers, s # 1 PROVE \E h \in Powers : s = 2 * h
  <2>1. PICK k \in 0 .. 30 : s = Pow[k]
    BY <1>1
  <2>2. k # 0
    BY <1>3, <2>1, PowTable
  <2>3. k - 1 \in 0 .. 29 /\ (k - 1) + 1 = k
    BY <2>2
  <2>4. Pow[k] = 2 * Pow[k - 1]
    BY <2>3, PowRises
  <2> QED BY <1>1, <2>1, <2>3, <2>4
<1>4. ASSUME NEW s \in Powers, NEW t \in Powers, s < t PROVE 2 * s <= t
  <2>1. PICK j \in 0 .. 30 : s = Pow[j]
    BY <1>1
  <2>2. PICK k \in 0 .. 30 : t = Pow[k]
    BY <1>1
  <2>3. j < k
    BY <1>4, <2>1, <2>2, <1>2, PowOrder
  <2>4. j \in 0 .. 29 /\ j + 1 \in 0 .. 30 /\ Pow[j + 1] = 2 * s
    BY <2>1, <2>3, PowRises
  <2>5. j + 1 = k \/ Pow[j + 1] < Pow[k]
    BY <2>3, <2>4, PowOrder
  <2> QED BY <2>2, <2>4, <2>5, <1>2
<1> QED BY <1>2, <1>3, <1>4

\* fixsize rounds up to a power.
LEMMA PowerAbove ==
    ASSUME NEW n \in 1 .. 2 ^ 30
    PROVE  FixSize(n) \in Powers /\ FixSize(n) >= n
<1>1. PICK k \in 0 .. 30 : n <= Pow[k] /\ (k = 0 \/ Pow[k - 1] < n)
  <2>1. 2 ^ 30 = Pow[30] /\ Pow[30] \in Nat
    BY PowIs, PowRises
  <2>2. n \in Nat \ {0} /\ n <= Pow[30]
    BY <2>1, SMT
  <2>3. 30 \in 0 .. 30
    OBVIOUS
  <2> QED BY <2>2, <2>3, PowAbove
<1>2. Pow[k] \in Powers
  BY PowIs DEF Powers
<1>3. Pow[k] >= n /\ Pow[k] < 2 * n
  <2>1. CASE k = 0
    BY <1>1, <2>1, PowTable
  <2>2. CASE k # 0
    <3>1. k - 1 \in 0 .. 29 /\ (k - 1) + 1 = k
      BY <2>2
    <3>2. Pow[k] = 2 * Pow[k - 1] /\ Pow[k - 1] \in Nat
      BY <3>1, PowRises
    <3> QED BY <1>1, <2>2, <3>2
  <2> QED BY <2>1, <2>2
<1>4. \E s \in Powers : s >= n /\ s < 2 * n
  BY <1>2, <1>3
<1> QED BY <1>4 DEF FixSize

LEMMA SizeIs == SIZE \in Powers /\ SIZE \in Nat \ {0}
BY BuddyAssumption, PowersFacts DEF BuddyAssumption

LEMMA Bounds == RESERVED \in Nat /\ RESERVED <= SIZE /\ REF_MAX \in Nat \ {0}
<1>1. RESERVED \in 0 .. SIZE /\ REF_MAX \in Nat \ {0}
  BY BuddyAssumption, Zenon DEF BuddyAssumption
<1> QED BY <1>1, SizeIs

\* What is asked for becomes a power, and no request is cut.
LEMMA NeedIs ==
    ASSUME NEW n \in Requests \cup {1} PROVE Need(n) \in Powers /\ Need(n) >= n
<1>1. n \in 0 .. 2 ^ 30
  <2>1. 2 ^ 30 = Pow[30] /\ Pow[30] \in Nat \ {0}
    BY PowIs, PowRises
  <2>2. 1 \in 0 .. 2 ^ 30
    BY <2>1, SMT
  <2> QED BY <2>2, BuddyAssumption DEF BuddyAssumption
<1>2. n = 0 \/ n \in 1 .. 2 ^ 30
  <2>1. 2 ^ 30 = Pow[30] /\ Pow[30] \in Nat
    BY PowIs, PowRises
  <2> QED BY <1>1, <2>1, SMT
<1>3. n \in Nat
  <2>1. 2 ^ 30 = Pow[30] /\ Pow[30] \in Nat
    BY PowIs, PowRises
  <2> QED BY <1>1, <2>1, SMT
<1>4. n # 0 => FixSize(n) \in Powers /\ FixSize(n) >= n
  <2> SUFFICES ASSUME n # 0 PROVE FixSize(n) \in Powers /\ FixSize(n) >= n
    OBVIOUS
  <2>1. n \in 1 .. 2 ^ 30
    BY <1>2
  <2> QED BY <2>1, PowerAbove
<1> QED BY <1>3, <1>4, PowersFacts DEF Need

-----------------------------------------------------------------------------
(* Nodes.                                                                  *)

\* The nodes that have two below them.
Inner == 0 .. SIZE - 2

\* The array is a tree.
LEMMA NodeFacts ==
    /\ 0 \in Nodes /\ \A i \in Nodes : i \in Nat
    /\ \A i \in Inner : i \in Nodes
    /\ \A i \in Nodes \ {0} :
         /\ Parent(i) \in Inner /\ Parent(i) \in Nodes /\ Parent(i) < i
         /\ i = LeftLeaf(Parent(i)) \/ i = RightLeaf(Parent(i))
    /\ \A i \in Inner :
         /\ LeftLeaf(i) \in Nodes \ {0} /\ RightLeaf(i) \in Nodes \ {0}
         /\ LeftLeaf(i) > i /\ RightLeaf(i) > i /\ LeftLeaf(i) # RightLeaf(i)
         /\ Parent(LeftLeaf(i)) = i /\ Parent(RightLeaf(i)) = i
BY SizeIs DEF Nodes, Inner, Parent, LeftLeaf, RightLeaf

\* Induction from the root down.
LEMMA TreeDown ==
    ASSUME NEW T, 0 \in T, \A i \in Nodes \ {0} : Parent(i) \in T => i \in T
    PROVE  Nodes \subseteq T
<1> SUFFICES ASSUME Nodes \ T # {} PROVE FALSE
  OBVIOUS
<1>1. PICK i \in Nodes \ T : \A j \in Nodes \ T : i <= j
  <2>1. Nodes \ T \in SUBSET Nat
    BY NodeFacts
  <2> QED BY <2>1, NatMin
<1>2. i # 0 /\ Parent(i) \in Nodes \ T /\ Parent(i) < i
  BY <1>1, NodeFacts
<1>3. i \in Nat /\ Parent(i) \in Nat
  BY <1>1, <1>2, NodeFacts
<1> QED BY <1>1, <1>2, <1>3

\* Induction from the leaves up.
LEMMA TreeUp ==
    ASSUME NEW T,
           \A i \in Nodes : (i \in Inner => LeftLeaf(i) \in T /\ RightLeaf(i) \in T) => i \in T
    PROVE  Nodes \subseteq T
<1> SUFFICES ASSUME Nodes \ T # {} PROVE FALSE
  OBVIOUS
<1> DEFINE S == {n \in Nat : 2 * SIZE - n \in Nodes \ T}
<1>1. S # {}
  <2>1. PICK i : i \in Nodes \ T
    OBVIOUS
  <2>2. 2 * SIZE - i \in Nat /\ 2 * SIZE - (2 * SIZE - i) = i
    BY <2>1, SizeIs DEF Nodes
  <2>3. 2 * SIZE - i \in S
    BY <2>1, <2>2
  <2> QED BY <2>3
<1>2. PICK n \in S : \A m \in S : n <= m
  <2>1. S \in SUBSET Nat
    OBVIOUS
  <2> HIDE DEF S
  <2> QED BY <1>1, <2>1, NatMin
<1>3. PICK i : i = 2 * SIZE - n
  OBVIOUS
<1>4. i \in Nodes /\ i \notin T /\ n \in Nat
  BY <1>2, <1>3
<1>5. ASSUME NEW j \in Nodes, j > i PROVE j \in T
  <2>1. 2 * SIZE - j \in Nat /\ 2 * SIZE - (2 * SIZE - j) = j /\ 2 * SIZE - j < n
    BY <1>3, <1>4, <1>5, SizeIs DEF Nodes
  <2>2. 2 * SIZE - j \notin S
    <3> HIDE DEF S
    <3> QED BY <1>2, <1>4, <2>1
  <2> QED BY <2>1, <2>2
<1> QED BY <1>4, <1>5, NodeFacts

Downward(f, root, step) ==
    \A i \in Nodes : f[i] = IF i = 0 THEN root ELSE step[<<i, f[Parent(i)]>>]

\* A function defined along the way to the root.
LEMMA FromParent ==
    ASSUME NEW V, NEW root \in V, NEW step \in [Nodes \X V -> V]
    PROVE  \E f \in [Nodes -> V] : Downward(f, root, step)
<1> DEFINE Upto(f, n) == \A i \in Nodes : i < n =>
                            f[i] = IF i = 0 THEN root ELSE step[<<i, f[Parent(i)]>>]
           S == {n \in Nat : \E f \in [Nodes -> V] : Upto(f, n)}
<1>1. 0 \in S
  <2>1. [i \in Nodes |-> root] \in [Nodes -> V] /\ Upto([i \in Nodes |-> root], 0)
    BY NodeFacts
  <2> QED BY <2>1
<1>2. ASSUME NEW n \in S PROVE n + 1 \in S
  <2>1. PICK f \in [Nodes -> V] : Upto(f, n)
    OBVIOUS
  <2> DEFINE g == [f EXCEPT ![n] = IF n = 0 THEN root ELSE step[<<n, f[Parent(n)]>>]]
  <2>2. g \in [Nodes -> V]
    <3>1. n \in Nodes => (IF n = 0 THEN root ELSE step[<<n, f[Parent(n)]>>]) \in V
      BY NodeFacts
    <3> QED BY <3>1
  <2>3. \A i \in Nodes : i # n => g[i] = f[i]
    OBVIOUS
  <2>4. n \in Nodes => g[n] = IF n = 0 THEN root ELSE step[<<n, f[Parent(n)]>>]
    OBVIOUS
  <2> HIDE DEF g
  <2>5. Upto(g, n + 1)
    <3> SUFFICES ASSUME NEW i \in Nodes, i < n + 1
                 PROVE  g[i] = IF i = 0 THEN root ELSE step[<<i, g[Parent(i)]>>]
      OBVIOUS
    <3>1. i # 0 => Parent(i) \in Nodes /\ Parent(i) # n /\ Parent(i) # i
      <4>1. i \in Nat /\ n \in Nat
        BY NodeFacts
      <4>2. i # 0 => Parent(i) \in Nodes /\ Parent(i) \in Nat /\ Parent(i) < i
        BY NodeFacts
      <4> QED BY <4>1, <4>2
    <3>2. i # 0 => g[Parent(i)] = f[Parent(i)]
      BY <2>3, <3>1
    <3>3. CASE i = n
      BY <2>4, <3>2, <3>3
    <3>4. CASE i # n
      <4>1. i < n
        BY <3>4, NodeFacts
      <4> QED BY <2>1, <2>3, <3>2, <3>4, <4>1
    <3> QED BY <3>3, <3>4
  <2> QED BY <2>2, <2>5
<1>3. S = Nat
  <2>1. S \in SUBSET Nat
    OBVIOUS
  <2> HIDE DEF S
  <2> QED BY <1>1, <1>2, <2>1, NatByInduction
<1>4. PICK f \in [Nodes -> V] : Upto(f, 2 * SIZE)
  <2>1. 2 * SIZE \in S
    <3> HIDE DEF S
    <3> QED BY <1>3, SizeIs
  <2> QED BY <2>1
<1>5. \A i \in Nodes : f[i] = IF i = 0 THEN root ELSE step[<<i, f[Parent(i)]>>]
  BY <1>4, SizeIs DEF Nodes
<1> QED BY <1>5 DEF Downward

Upward(f, base, on, join) ==
    \A i \in Nodes : f[i] = IF i \in on THEN join[<<i, f[LeftLeaf(i)], f[RightLeaf(i)]>>]
                           ELSE base[i]

\* A function defined on some of the inner nodes from the two nodes below.
LEMMA FromChildren ==
    ASSUME NEW V, NEW base \in [Nodes -> V], NEW on \in SUBSET Inner,
           NEW join \in [Nodes \X V \X V -> V]
    PROVE  \E f \in [Nodes -> V] : Upward(f, base, on, join)
<1> DEFINE Value(f, i) == IF i \in on THEN join[<<i, f[LeftLeaf(i)], f[RightLeaf(i)]>>]
                          ELSE base[i]
           From(f, n) == \A i \in Nodes : i > 2 * SIZE - n => f[i] = Value(f, i)
           S == {n \in Nat : \E f \in [Nodes -> V] : From(f, n)}
<1>1. 0 \in S
  <2>1. From(base, 0)
    BY SizeIs DEF Nodes
  <2> QED BY <2>1
<1>2. ASSUME NEW n \in S PROVE n + 1 \in S
  <2>1. PICK f \in [Nodes -> V] : From(f, n)
    OBVIOUS
  <2>2. PICK m : m = 2 * SIZE - n
    OBVIOUS
  <2>3. m \in Int
    BY <2>2, SizeIs
  <2> DEFINE g == [f EXCEPT ![m] = Value(f, m)]
  <2>4. g \in [Nodes -> V]
    <3>1. m \in Nodes => Value(f, m) \in V
      BY NodeFacts
    <3> HIDE DEF Value
    <3> QED BY <3>1
  <2>5. \A i \in Nodes : i # m => g[i] = f[i]
    OBVIOUS
  <2>6. m \in Nodes => g[m] = Value(f, m)
    OBVIOUS
  <2> HIDE DEF g
  <2>7. ASSUME NEW i \in Nodes, i >= m PROVE g[i] = Value(g, i)
    <3>1. i \in Inner => /\ LeftLeaf(i) \in Nodes /\ RightLeaf(i) \in Nodes
                         /\ LeftLeaf(i) # m /\ RightLeaf(i) # m
      BY <2>3, <2>7, NodeFacts
    <3>2. i \in Inner => g[LeftLeaf(i)] = f[LeftLeaf(i)] /\ g[RightLeaf(i)] = f[RightLeaf(i)]
      BY <2>5, <3>1
    <3>3. Value(g, i) = Value(f, i)
      BY <3>2
    <3>4. CASE i = m
      BY <2>6, <3>3, <3>4
    <3>5. CASE i # m
      <4>1. i > 2 * SIZE - n
        BY <2>2, <2>3, <2>7, <3>5, NodeFacts
      <4> QED BY <2>1, <2>5, <3>3, <3>5, <4>1
    <3> QED BY <3>4, <3>5
  <2>8. From(g, n + 1)
    <3> SUFFICES ASSUME NEW i \in Nodes, i > 2 * SIZE - (n + 1) PROVE g[i] = Value(g, i)
      OBVIOUS
    <3>1. i >= m
      BY <2>2, <2>3, NodeFacts, SizeIs
    <3> HIDE DEF Value
    <3> QED BY <2>7, <3>1
  <2> HIDE DEF From
  <2> QED BY <2>4, <2>8
<1>3. S = Nat
  <2>1. S \in SUBSET Nat
    OBVIOUS
  <2> HIDE DEF S
  <2> QED BY <1>1, <1>2, <2>1, NatByInduction
<1>4. PICK f \in [Nodes -> V] : From(f, 2 * SIZE + 1)
  <2>1. 2 * SIZE + 1 \in S
    <3> HIDE DEF S
    <3> QED BY <1>3, SizeIs
  <2> HIDE DEF From
  <2> QED BY <2>1
<1>5. \A i \in Nodes : f[i] = Value(f, i)
  <2> SUFFICES ASSUME NEW i \in Nodes PROVE i > 2 * SIZE - (2 * SIZE + 1)
    BY <1>4
  <2> QED BY NodeFacts, SizeIs
<1> QED BY <1>5 DEF Upward

-----------------------------------------------------------------------------
(* The block of a node.                                                    *)

\* NodeSize and Path satisfy their definitions.
LEMMA SizeRec ==
    \A i \in Nodes : NodeSize[i] = IF i = 0 THEN SIZE ELSE NodeSize[Parent(i)] \div 2
<1> DEFINE Is(f) == f = [i \in Nodes |-> IF i = 0 THEN SIZE ELSE f[Parent(i)] \div 2]
<1>1. \E f : Is(f)
  <2> DEFINE step == [x \in Nodes \X Nat |-> x[2] \div 2]
  <2>1. step \in [Nodes \X Nat -> Nat] /\ SIZE \in Nat
    BY SizeIs
  <2>2. PICK f \in [Nodes -> Nat] : Downward(f, SIZE, step)
    <3> HIDE DEF step
    <3> QED BY <2>1, FromParent
  <2>3. \A i \in Nodes : i # 0 => step[<<i, f[Parent(i)]>>] = f[Parent(i)] \div 2
    BY NodeFacts
  <2>4. Is(f)
    <3> HIDE DEF step
    <3> QED BY <2>2, <2>3 DEF Downward
  <2> QED BY <2>4
<1>2. NodeSize = [i \in Nodes |-> (CHOOSE f : Is(f))[i]]
  BY DEF NodeSize
<1>3. PICK f : f = CHOOSE g : Is(g)
  OBVIOUS
<1>4. Is(f)
  <2> HIDE DEF Is
  <2> QED BY <1>1, <1>3
<1>5. NodeSize = f
  BY <1>2, <1>3, <1>4
<1> QED BY <1>4, <1>5

LEMMA PathRec ==
    \A i \in Nodes : Path[i] = {i} \cup (IF i = 0 THEN {} ELSE Path[Parent(i)])
<1> DEFINE Is(f) == f = [i \in Nodes |-> {i} \cup (IF i = 0 THEN {} ELSE f[Parent(i)])]
<1>1. \E f : Is(f)
  <2> DEFINE step == [x \in Nodes \X (SUBSET Nodes) |-> {x[1]} \cup x[2]]
  <2>1. step \in [Nodes \X (SUBSET Nodes) -> SUBSET Nodes] /\ {0} \in SUBSET Nodes
    BY NodeFacts
  <2>2. PICK f \in [Nodes -> SUBSET Nodes] : Downward(f, {0}, step)
    <3> HIDE DEF step
    <3> QED BY <2>1, FromParent
  <2>3. \A i \in Nodes : i # 0 => step[<<i, f[Parent(i)]>>] = {i} \cup f[Parent(i)]
    BY NodeFacts
  <2>4. Is(f)
    <3> HIDE DEF step
    <3> QED BY <2>2, <2>3 DEF Downward
  <2> QED BY <2>4
<1>2. Path = [i \in Nodes |-> (CHOOSE f : Is(f))[i]]
  BY DEF Path
<1>3. PICK f : f = CHOOSE g : Is(g)
  OBVIOUS
<1>4. Is(f)
  <2> HIDE DEF Is
  <2> QED BY <1>1, <1>3
<1>5. Path = f
  BY <1>2, <1>3, <1>4
<1> QED BY <1>4, <1>5

\* Rows: node i has size s, and the i + 1 blocks of size s from -SIZE on end in memory.
Row(i, s) ==
    /\ s \in Powers /\ s \in Nat \ {0} /\ s <= SIZE
    /\ SIZE <= (i + 1) * s /\ (i + 1) * s + s <= 2 * SIZE
    /\ \E m \in Nat : SIZE = m * s

\* The nodes below an inner node share its row in halves.
LEMMA RowBelow ==
    ASSUME NEW i \in Inner, NEW s, Row(i, s), NEW c \in {LeftLeaf(i), RightLeaf(i)}
    PROVE  \E h \in Nat \ {0} : s = 2 * h /\ s \div 2 = h /\ Row(c, h)
<1>1. i \in Nat /\ i + 1 < SIZE /\ s \in Nat /\ SIZE \in Nat
  BY SizeIs DEF Inner, Row
<1>2. s # 1
  BY <1>1 DEF Row
<1>3. PICK h \in Powers : s = 2 * h
  BY <1>2, PowersFacts DEF Row
<1>4. h \in Nat \ {0} /\ s \div 2 = h
  BY <1>3, PowersFacts
<1>5. (c + 1) * h = (i + 1) * s \/ (c + 1) * h = (i + 1) * s + h
  BY <1>1, <1>3, <1>4 DEF LeftLeaf, RightLeaf
<1>6. c \in Nat /\ (c + 1) * h \in Nat /\ (i + 1) * s \in Nat
  BY <1>1, <1>4 DEF LeftLeaf, RightLeaf
<1>7. h <= SIZE /\ SIZE <= (c + 1) * h /\ (c + 1) * h + h <= 2 * SIZE
  BY <1>1, <1>3, <1>4, <1>5, <1>6 DEF Row
<1>8. \E m \in Nat : SIZE = m * h
  <2>1. PICK m \in Nat : SIZE = m * s
    BY DEF Row
  <2>2. 2 * m \in Nat /\ SIZE = (2 * m) * h
    BY <1>3, <1>4, <2>1
  <2> QED BY <2>2
<1> QED BY <1>3, <1>4, <1>7, <1>8 DEF Row

\* Every node has the size of its row.
LEMMA SizeFacts == \A i \in Nodes : Row(i, NodeSize[i])
<1> DEFINE T == {i \in Nodes : Row(i, NodeSize[i])}
<1>1. 0 \in T
  <2>1. NodeSize[0] = SIZE /\ SIZE = 1 * SIZE
    BY NodeFacts, SizeRec, SizeIs
  <2>2. Row(0, SIZE)
    BY <2>1, SizeIs DEF Row
  <2> QED BY <2>1, <2>2, NodeFacts
<1>2. ASSUME NEW i \in Nodes \ {0}, Parent(i) \in T PROVE i \in T
  <2>1. i \in {LeftLeaf(Parent(i)), RightLeaf(Parent(i))} /\ Parent(i) \in Inner
    BY NodeFacts
  <2>2. \E h \in Nat \ {0} : NodeSize[Parent(i)] \div 2 = h /\ Row(i, h)
    BY <1>2, <2>1, RowBelow
  <2>3. NodeSize[i] = NodeSize[Parent(i)] \div 2
    BY SizeRec
  <2> QED BY <2>2, <2>3
<1> HIDE DEF T
<1>3. Nodes \subseteq T
  BY <1>1, <1>2, TreeDown
<1> QED BY <1>3 DEF T

\* The pages of a node.
Pages(i) == FirstPfn(i) .. FirstPfn(i) + NodeSize[i] - 1

LEMMA BlockFacts ==
    \A i \in Nodes :
      /\ NodeSize[i] \in Powers /\ NodeSize[i] \in Nat \ {0} /\ NodeSize[i] <= SIZE
      /\ FirstPfn(i) \in Nat /\ FirstPfn(i) + NodeSize[i] <= SIZE
      /\ FirstPfn(i) \in Pages(i) /\ FirstPfn(i) \in Pfns /\ Pages(i) \subseteq Pfns
      /\ NodeSize[i] = 1 <=> i \notin Inner
<1> SUFFICES ASSUME NEW i \in Nodes
             PROVE  /\ NodeSize[i] \in Powers /\ NodeSize[i] \in Nat \ {0} /\ NodeSize[i] <= SIZE
                    /\ FirstPfn(i) \in Nat /\ FirstPfn(i) + NodeSize[i] <= SIZE
                    /\ FirstPfn(i) \in Pages(i) /\ FirstPfn(i) \in Pfns /\ Pages(i) \subseteq Pfns
                    /\ NodeSize[i] = 1 <=> i \notin Inner
  OBVIOUS
<1>1. PICK s : s = NodeSize[i]
  OBVIOUS
<1>2. Row(i, s)
  BY <1>1, SizeFacts
<1>3. i \in Nat /\ SIZE \in Nat /\ s \in Nat \ {0}
  BY <1>2, NodeFacts, SizeIs DEF Row
<1>4. PICK e : e = (i + 1) * s
  OBVIOUS
<1>5. e \in Nat /\ SIZE <= e /\ e + s <= 2 * SIZE /\ FirstPfn(i) = e - SIZE
  BY <1>1, <1>2, <1>3, <1>4 DEF Row, FirstPfn
<1>6. FirstPfn(i) \in Nat /\ FirstPfn(i) + s <= SIZE /\ FirstPfn(i) < SIZE
  BY <1>3, <1>5
<1>7. s = 1 <=> i \notin Inner
  <2>1. ASSUME s # 1 PROVE i + 1 < SIZE
    <3>1. s >= 2 /\ ~ (i + 1 < SIZE) => e >= 2 * SIZE
      BY <1>3, <1>4
    <3> QED BY <1>3, <1>5, <2>1, <3>1
  <2>2. ASSUME s = 1 PROVE ~ (i + 1 < SIZE)
    BY <1>3, <1>4, <1>5, <2>2
  <2> QED BY <1>3, <2>1, <2>2 DEF Inner
<1> QED BY <1>1, <1>2, <1>3, <1>6, <1>7 DEF Row, Pages, Pfns

\* The pages of an inner node are those of the two below it.
LEMMA Halves ==
    \A i \in Inner :
      /\ NodeSize[i] = 2 * NodeSize[LeftLeaf(i)]
      /\ NodeSize[RightLeaf(i)] = NodeSize[LeftLeaf(i)]
      /\ FirstPfn(LeftLeaf(i)) = FirstPfn(i)
      /\ FirstPfn(RightLeaf(i)) = FirstPfn(i) + NodeSize[LeftLeaf(i)]
<1> SUFFICES ASSUME NEW i \in Inner
             PROVE  /\ NodeSize[i] = 2 * NodeSize[LeftLeaf(i)]
                    /\ NodeSize[RightLeaf(i)] = NodeSize[LeftLeaf(i)]
                    /\ FirstPfn(LeftLeaf(i)) = FirstPfn(i)
                    /\ FirstPfn(RightLeaf(i)) = FirstPfn(i) + NodeSize[LeftLeaf(i)]
  OBVIOUS
<1>1. Row(i, NodeSize[i])
  BY NodeFacts, SizeFacts
<1>2. PICK h \in Nat \ {0} : NodeSize[i] = 2 * h /\ NodeSize[i] \div 2 = h
  BY <1>1, RowBelow
<1>3. NodeSize[LeftLeaf(i)] = h /\ NodeSize[RightLeaf(i)] = h
  BY <1>2, NodeFacts, SizeRec
<1>4. i \in Nat /\ SIZE \in Nat
  BY SizeIs DEF Inner
<1>5. (LeftLeaf(i) + 1) * h = (i + 1) * (2 * h) /\ (RightLeaf(i) + 1) * h = (i + 1) * (2 * h) + h
  BY <1>2, <1>4 DEF LeftLeaf, RightLeaf
<1>6. (i + 1) * (2 * h) \in Nat
  BY <1>2, <1>4
<1> QED BY <1>2, <1>3, <1>4, <1>5, <1>6 DEF FirstPfn

-----------------------------------------------------------------------------
(* The way to the root.                                                    *)

\* A node is on its own way, and every way is one of nodes with ever larger numbers.
LEMMA PathIn == \A i \in Nodes : i \in Path[i] /\ 0 \in Path[i] /\ \A a \in Path[i] : a \in Nodes /\ a <= i
<1> DEFINE T == {i \in Nodes : i \in Path[i] /\ 0 \in Path[i]
                                /\ \A a \in Path[i] : a \in Nodes /\ a <= i}
<1>1. 0 \in T
  BY NodeFacts, PathRec
<1>2. ASSUME NEW i \in Nodes \ {0}, Parent(i) \in T PROVE i \in T
  <2>1. Path[i] = {i} \cup Path[Parent(i)]
    BY PathRec
  <2>2. ASSUME NEW a \in Path[Parent(i)] PROVE a \in Nodes /\ a <= i
    <3>1. a \in Nodes /\ a <= Parent(i) /\ Parent(i) < i
      BY <1>2, <2>2, NodeFacts
    <3>2. a \in Nat /\ Parent(i) \in Nat /\ i \in Nat
      BY <3>1, NodeFacts
    <3> QED BY <3>1, <3>2
  <2>3. i <= i
    BY NodeFacts
  <2> QED BY <1>2, <2>1, <2>2, <2>3
<1> HIDE DEF T
<1>3. Nodes \subseteq T
  BY <1>1, <1>2, TreeDown
<1> QED BY <1>3 DEF T

\* Whatever is below a node and not the node is below one of the two.
LEMMA PathSplits ==
    \A j \in Nodes : \A a \in Path[j] :
      a # j => a \in Inner /\ (LeftLeaf(a) \in Path[j] \/ RightLeaf(a) \in Path[j])
<1> DEFINE Splits(j) == \A a \in Path[j] :
             a # j => a \in Inner /\ (LeftLeaf(a) \in Path[j] \/ RightLeaf(a) \in Path[j])
           T == {j \in Nodes : Splits(j)}
<1>1. 0 \in T
  BY NodeFacts, PathRec
<1>2. ASSUME NEW j \in Nodes \ {0}, Parent(j) \in T PROVE j \in T
  <2>1. Path[j] = {j} \cup Path[Parent(j)]
    BY PathRec
  <2>2. ASSUME NEW a \in Path[j], a # j
        PROVE  a \in Inner /\ (LeftLeaf(a) \in Path[j] \/ RightLeaf(a) \in Path[j])
    <3>1. CASE a = Parent(j)
      BY <2>1, <3>1, NodeFacts
    <3>2. CASE a # Parent(j)
      BY <1>2, <2>1, <2>2, <3>2
    <3> QED BY <3>1, <3>2
  <2> QED BY <2>2
<1> HIDE DEF T
<1>3. Nodes \subseteq T
  BY <1>1, <1>2, TreeDown
<1> QED BY <1>3 DEF T

\* A node above one on the way is on the way.
LEMMA PathTrans == \A j \in Nodes : \A b \in Path[j] : Path[b] \subseteq Path[j]
<1> DEFINE T == {j \in Nodes : \A b \in Path[j] : Path[b] \subseteq Path[j]}
<1>1. 0 \in T
  BY NodeFacts, PathRec
<1>2. ASSUME NEW j \in Nodes \ {0}, Parent(j) \in T PROVE j \in T
  <2>1. Path[j] = {j} \cup Path[Parent(j)]
    BY PathRec
  <2> QED BY <1>2, <2>1
<1> HIDE DEF T
<1>3. Nodes \subseteq T
  BY <1>1, <1>2, TreeDown
<1> QED BY <1>3 DEF T

\* The way of an inner node is on those of the two below it.
LEMMA PathBelow ==
    \A i \in Inner : i \in Path[LeftLeaf(i)] /\ i \in Path[RightLeaf(i)]
BY NodeFacts, PathRec, PathIn

\* Two nodes are not each above the other.
LEMMA PathOrder == \A a, b \in Nodes : a \in Path[b] /\ b \in Path[a] => a = b
<1> SUFFICES ASSUME NEW a \in Nodes, NEW b \in Nodes, a \in Path[b], b \in Path[a] PROVE a = b
  OBVIOUS
<1>1. a <= b /\ b <= a /\ a \in Nat /\ b \in Nat
  BY PathIn, NodeFacts
<1> QED BY <1>1

\* What is below a node has some of its pages, and fewer than it.
LEMMA PathPages ==
    \A j \in Nodes : \A a \in Path[j] :
      /\ Pages(j) \subseteq Pages(a) /\ NodeSize[j] <= NodeSize[a]
      /\ a # j => NodeSize[j] < NodeSize[a]
<1> DEFINE Within(j, a) == /\ Pages(j) \subseteq Pages(a) /\ NodeSize[j] <= NodeSize[a]
                           /\ a # j => NodeSize[j] < NodeSize[a]
           T == {j \in Nodes : \A a \in Path[j] : Within(j, a)}
<1>1. 0 \in T
  BY NodeFacts, PathRec, BlockFacts
<1>2. ASSUME NEW j \in Nodes \ {0}, Parent(j) \in T PROVE j \in T
  <2>1. Path[j] = {j} \cup Path[Parent(j)]
    BY PathRec
  <2>2. Within(j, j)
    BY BlockFacts
  <2>3. Parent(j) \in Inner /\ Parent(j) \in Nodes
        /\ (j = LeftLeaf(Parent(j)) \/ j = RightLeaf(Parent(j)))
    BY NodeFacts
  <2>4. PICK h : h = NodeSize[LeftLeaf(Parent(j))]
    OBVIOUS
  <2>5. NodeSize[j] = h /\ NodeSize[Parent(j)] = 2 * h /\ h \in Nat \ {0}
        /\ (FirstPfn(j) = FirstPfn(Parent(j)) \/ FirstPfn(j) = FirstPfn(Parent(j)) + h)
        /\ FirstPfn(Parent(j)) \in Nat
    BY <2>3, <2>4, Halves, BlockFacts
  <2>6. Pages(j) \subseteq Pages(Parent(j)) /\ NodeSize[j] < NodeSize[Parent(j)]
    BY <2>5 DEF Pages
  <2>7. ASSUME NEW a \in Path[Parent(j)] PROVE Within(j, a)
    <3>1. Within(Parent(j), a)
      BY <1>2
    <3>2. a \in Nodes
      BY <2>3, PathIn
    <3>3. NodeSize[a] \in Nat /\ NodeSize[j] \in Nat /\ NodeSize[Parent(j)] \in Nat
      BY <2>3, <3>2, BlockFacts
    <3> QED BY <2>6, <3>1, <3>3
  <2> HIDE DEF Within
  <2> QED BY <2>1, <2>2, <2>7
<1> HIDE DEF T
<1>3. Nodes \subseteq T
  BY <1>1, <1>2, TreeDown
<1> QED BY <1>3 DEF T

\* Two nodes share no page unless one is above the other.
LEMMA PagesApart ==
    \A i, j \in Nodes : i \in Path[j] \/ j \in Path[i] \/ Pages(i) \cap Pages(j) = {}
<1> DEFINE Apart(i, j) == i \in Path[j] \/ j \in Path[i] \/ Pages(i) \cap Pages(j) = {}
           T == {i \in Nodes : \A j \in Nodes : Apart(i, j)}
<1>1. 0 \in T
  BY NodeFacts, PathIn
<1>2. ASSUME NEW i \in Nodes \ {0}, Parent(i) \in T PROVE i \in T
  <2>1. PICK p : p = Parent(i)
    OBVIOUS
  <2>2. p \in Inner /\ p \in Nodes /\ p \in Path[i] /\ i \in {LeftLeaf(p), RightLeaf(p)}
        /\ Path[p] \subseteq Path[i]
    BY <2>1, NodeFacts, PathRec, PathIn
  <2>3. ASSUME NEW j \in Nodes PROVE Apart(i, j)
    <3>1. Apart(p, j)
      BY <1>2, <2>1
    <3>2. CASE j \in Path[p]
      BY <2>2, <3>2
    <3>3. CASE Pages(p) \cap Pages(j) = {}
      BY <2>2, <3>3, PathPages
    <3>4. CASE p \in Path[j] /\ p # j
      <4>1. PICK c \in {LeftLeaf(p), RightLeaf(p)} : c \in Path[j]
        BY <3>4, PathSplits
      <4>2. CASE c = i
        BY <4>1, <4>2
      <4>3. CASE c # i
        <5>1. PICK h : h = NodeSize[LeftLeaf(p)]
          OBVIOUS
        <5>2. /\ NodeSize[LeftLeaf(p)] = h /\ NodeSize[RightLeaf(p)] = h /\ h \in Nat
              /\ FirstPfn(LeftLeaf(p)) = FirstPfn(p)
              /\ FirstPfn(RightLeaf(p)) = FirstPfn(p) + h /\ FirstPfn(p) \in Nat
          BY <2>2, <5>1, Halves, NodeFacts, BlockFacts
        <5>3. Pages(LeftLeaf(p)) \cap Pages(RightLeaf(p)) = {}
          BY <5>2 DEF Pages
        <5>4. Pages(i) \cap Pages(c) = {}
          BY <2>2, <4>1, <4>3, <5>3
        <5>5. Pages(j) \subseteq Pages(c)
          BY <4>1, PathPages
        <5> QED BY <5>4, <5>5
      <4> QED BY <4>2, <4>3
    <3>5. j = p => j \in Path[p]
      BY <2>2, PathIn
    <3> HIDE DEF Apart
    <3>6. p \in Path[j] \/ j \in Path[p] \/ Pages(p) \cap Pages(j) = {}
      BY <3>1 DEF Apart
    <3> QED BY <3>2, <3>3, <3>4, <3>5, <3>6
  <2> HIDE DEF Apart
  <2> QED BY <2>3
<1> HIDE DEF T
<1>3. Nodes \subseteq T
  BY <1>1, <1>2, TreeDown
<1> QED BY <1>3 DEF T

\* The leaf of a page.
LEMMA LeafFacts ==
    \A pfn \in Pfns :
      /\ Leaf(pfn) \in Nodes /\ NodeSize[Leaf(pfn)] = 1
      /\ \A a \in Nodes : a \in Path[Leaf(pfn)] <=> pfn \in Pages(a)
<1> SUFFICES ASSUME NEW pfn \in Pfns
             PROVE  /\ Leaf(pfn) \in Nodes /\ NodeSize[Leaf(pfn)] = 1
                    /\ \A a \in Nodes : a \in Path[Leaf(pfn)] <=> pfn \in Pages(a)
  OBVIOUS
<1>1. PICK l : l = Leaf(pfn)
  OBVIOUS
<1>2. l \in Nodes /\ l \notin Inner /\ l = pfn + SIZE - 1 /\ pfn \in Nat /\ SIZE \in Nat
  BY <1>1, SizeIs DEF Pfns, Leaf, Nodes, Inner
<1>3. NodeSize[l] = 1
  BY <1>2, BlockFacts
<1>4. FirstPfn(l) = pfn
  BY <1>2, <1>3 DEF FirstPfn
<1>5. Pages(l) = {pfn}
  BY <1>2, <1>3, <1>4 DEF Pages
<1>6. ASSUME NEW a \in Nodes PROVE a \in Path[l] <=> pfn \in Pages(a)
  <2>1. ASSUME l \in Path[a], a # l PROVE FALSE
    <3>1. NodeSize[a] < 1 /\ NodeSize[a] \in Nat \ {0}
      BY <1>3, <2>1, PathPages, BlockFacts
    <3> QED BY <3>1
  <2> QED BY <1>2, <1>5, <2>1, PathPages, PagesApart
<1> QED BY <1>1, <1>2, <1>3, <1>6

\* Above every node there is one of each larger size.
LEMMA AncestorOfSize ==
    \A j \in Nodes : \A s \in Powers :
      NodeSize[j] <= s /\ s <= SIZE => \E a \in Path[j] : NodeSize[a] = s
<1> DEFINE T == {j \in Nodes : \A s \in Powers :
                   NodeSize[j] <= s /\ s <= SIZE => \E a \in Path[j] : NodeSize[a] = s}
<1>1. 0 \in T
  <2>1. NodeSize[0] = SIZE /\ 0 \in Path[0] /\ 0 \in Nodes
    BY NodeFacts, SizeRec, PathIn
  <2>2. \A s \in Powers : SIZE <= s /\ s <= SIZE => SIZE = s
    BY SizeIs, PowersFacts
  <2> QED BY <2>1, <2>2
<1>2. ASSUME NEW j \in Nodes \ {0}, Parent(j) \in T PROVE j \in T
  <2>1. Path[j] = {j} \cup Path[Parent(j)]
    BY PathRec
  <2>2. NodeSize[Parent(j)] = 2 * NodeSize[j] /\ NodeSize[j] \in Powers /\ NodeSize[j] \in Nat
    BY NodeFacts, Halves, BlockFacts
  <2>3. ASSUME NEW s \in Powers, NodeSize[j] <= s, s <= SIZE
        PROVE  \E a \in Path[j] : NodeSize[a] = s
    <3>1. CASE NodeSize[j] = s
      BY <2>1, <3>1
    <3>2. CASE NodeSize[j] < s
      <4>1. NodeSize[Parent(j)] <= s
        BY <2>2, <3>2, PowersFacts
      <4> QED BY <1>2, <2>1, <2>3, <4>1
    <3>3. s \in Nat
      BY PowersFacts
    <3> QED BY <2>2, <2>3, <3>1, <3>2, <3>3
  <2> QED BY <2>3
<1> HIDE DEF T
<1>3. Nodes \subseteq T
  BY <1>1, <1>2, TreeDown
<1> QED BY <1>3 DEF T

\* Multiples of a number that are less than it apart are equal.
LEMMA MultiplesApart ==
    ASSUME NEW s \in Nat \ {0}, NEW p \in Int, NEW q \in Int,
           p * s <= q * s, q * s < p * s + s
    PROVE  p = q
<1>1. PICK d \in Int : d = q - p
  OBVIOUS
<1>2. d * s = q * s - p * s
  BY <1>1
<1>3. 0 <= d * s /\ d * s < s
  <2>1. p * s \in Int /\ q * s \in Int
    OBVIOUS
  <2> QED BY <1>2, <2>1
<1>4. d >= 1 => d * s >= s
  BY <1>1
<1>5. d <= -1 => d * s <= -s
  BY <1>1
<1>6. d = 0
  BY <1>1, <1>3, <1>4, <1>5
<1> QED BY <1>1, <1>6

\* The remainder is 0 for multiples, and for nothing else.
LEMMA Multiples ==
    ASSUME NEW s \in Nat, s > 0, NEW b \in Int
    PROVE  b % s = 0 <=> \E q \in Int : b = q * s
<1>1. b = s * (b \div s) + (b % s) /\ b \div s \in Int /\ b % s \in Int
      /\ 0 <= b % s /\ b % s < s
  BY Z3
<1>2. PICK d \in Int, r \in Int : d = b \div s /\ r = b % s /\ b = s * d + r /\ 0 <= r /\ r < s
  BY <1>1
<1>3. s * d = d * s
  OBVIOUS
<1>4. ASSUME NEW q \in Int, b = q * s PROVE r = 0
  <2>1. d * s <= q * s /\ q * s < d * s + s
    BY <1>2, <1>3, <1>4
  <2>2. d = q
    BY <2>1, MultiplesApart
  <2> QED BY <1>2, <1>3, <1>4, <2>2
<1>5. r = 0 => b = d * s
  BY <1>2, <1>3
<1> QED BY <1>2, <1>4, <1>5

\* Blocks are aligned, and every aligned block is that of a node.
LEMMA Aligned ==
    \A i \in Nodes : FirstPfn(i) % NodeSize[i] = 0 /\ \E q \in Int : FirstPfn(i) = q * NodeSize[i]
<1> SUFFICES ASSUME NEW i \in Nodes
             PROVE  FirstPfn(i) % NodeSize[i] = 0 /\ \E q \in Int : FirstPfn(i) = q * NodeSize[i]
  OBVIOUS
<1>1. PICK s : s = NodeSize[i]
  OBVIOUS
<1>2. PICK m \in Nat : SIZE = m * s
  BY <1>1, SizeFacts DEF Row
<1>3. i \in Nat /\ s \in Nat /\ s > 0 /\ FirstPfn(i) \in Int
  BY <1>1, NodeFacts, BlockFacts
<1>4. PICK q \in Int : q = i + 1 - m
  BY <1>2, <1>3
<1>5. q * s = (i + 1) * s - m * s
  BY <1>2, <1>3, <1>4
<1>6. FirstPfn(i) = q * s
  BY <1>1, <1>2, <1>5 DEF FirstPfn
<1>7. FirstPfn(i) % s = 0
  BY <1>3, <1>6, Multiples
<1> QED BY <1>1, <1>6, <1>7

LEMMA NodeOf ==
    ASSUME NEW s \in Powers, NEW b \in Pfns, b % s = 0, b + s <= SIZE
    PROVE  \E x \in Nodes : NodeSize[x] = s /\ FirstPfn(x) = b
<1>1. s \in Nat \ {0} /\ b \in Nat /\ SIZE \in Nat
  BY PowersFacts, SizeIs DEF Pfns
<1>2. PICK q \in Int : b = q * s
  <2>1. s > 0 /\ b \in Int
    BY <1>1
  <2> QED BY <1>1, <2>1, Multiples
<1>3. PICK x \in Nodes : NodeSize[x] = s /\ b \in Pages(x)
  <2>1. 1 <= s /\ s <= SIZE
    BY <1>1
  <2>2. PICK x \in Path[Leaf(b)] : NodeSize[x] = s
    BY <2>1, LeafFacts, AncestorOfSize
  <2>3. x \in Nodes
    BY <2>2, LeafFacts, PathIn
  <2> QED BY <2>2, <2>3, LeafFacts
<1>4. PICK p \in Int : FirstPfn(x) = p * s
  BY <1>3, Aligned
<1>5. p * s <= q * s /\ q * s < p * s + s
  <2>1. FirstPfn(x) <= b /\ b < FirstPfn(x) + s
    BY <1>1, <1>3, BlockFacts DEF Pages
  <2> QED BY <1>2, <1>4, <2>1
<1>6. p = q
  BY <1>1, <1>5, MultiplesApart
<1> QED BY <1>2, <1>3, <1>4, <1>6

-----------------------------------------------------------------------------
(* The bitmap.                                                             *)

\* The nodes H are allocated, none above another, and every other node has what
\* the two below it offer.  What is below an allocated node is stale: it has
\* the value it would have if the node were free.
Tree(bm, H) ==
    /\ bm \in [Nodes -> Nat] /\ H \in SUBSET Nodes
    /\ \A g, h \in H : g \in Path[h] => g = h
    /\ \A i \in Nodes : bm[i] = IF i \in H THEN 0
                                ELSE IF i \notin Inner THEN 1
                                     ELSE Joined(bm[LeftLeaf(i)], bm[RightLeaf(i)], NodeSize[i])

\* Nothing is allocated at a node or below it.
Clear(i, H) == \A h \in H : i \notin Path[h]

\* Two offers join when both are whole halves.
LEMMA JoinedFacts ==
    ASSUME NEW h \in Nat \ {0}, NEW a \in 0 .. h, NEW b \in 0 .. h
    PROVE  /\ Joined(a, b, 2 * h) \in 0 .. 2 * h /\ Longer(a, b) \in 0 .. h
           /\ Longer(a, b) \in {a, b} /\ Longer(a, b) >= a /\ Longer(a, b) >= b
           /\ Joined(a, b, 2 * h) = 2 * h <=> a = h /\ b = h
           /\ ~ (a = h /\ b = h) => Joined(a, b, 2 * h) = Longer(a, b)
BY DEF Joined, Longer

\* Below a node: the node, or what is below one of the two.
LEMMA ClearBelow ==
    ASSUME NEW H \in SUBSET Nodes, NEW i \in Inner, i \notin H
    PROVE  Clear(i, H) <=> Clear(LeftLeaf(i), H) /\ Clear(RightLeaf(i), H)
<1>1. ASSUME NEW h \in H
      PROVE  i \in Path[h] <=> LeftLeaf(i) \in Path[h] \/ RightLeaf(i) \in Path[h]
  <2>1. h \in Nodes /\ h # i
    OBVIOUS
  <2>2. i \in Path[h] => LeftLeaf(i) \in Path[h] \/ RightLeaf(i) \in Path[h]
    BY <2>1, PathSplits
  <2>3. LeftLeaf(i) \in Path[h] => i \in Path[h]
    BY <2>1, PathTrans, PathBelow
  <2>4. RightLeaf(i) \in Path[h] => i \in Path[h]
    BY <2>1, PathTrans, PathBelow
  <2> QED BY <2>2, <2>3, <2>4
<1> QED BY <1>1 DEF Clear

\* A node offers all of its pages when nothing is allocated there.
LEMMA Offers ==
    ASSUME NEW bm, NEW H, Tree(bm, H)
    PROVE  \A i \in Nodes : bm[i] \in 0 .. NodeSize[i] /\ (bm[i] = NodeSize[i] <=> Clear(i, H))
<1> DEFINE Offer(i) == bm[i] \in 0 .. NodeSize[i] /\ (bm[i] = NodeSize[i] <=> Clear(i, H))
           T == {i \in Nodes : Offer(i)}
<1>1. ASSUME NEW i \in Nodes, i \in Inner => LeftLeaf(i) \in T /\ RightLeaf(i) \in T
      PROVE  Offer(i)
  <2>1. H \in SUBSET Nodes /\ bm[i] \in Nat /\ NodeSize[i] \in Nat \ {0}
    BY BlockFacts DEF Tree
  <2>2. CASE i \in H
    <3>1. bm[i] = 0 /\ ~ Clear(i, H)
      BY <2>2, PathIn DEF Tree, Clear
    <3> QED BY <2>1, <3>1
  <2>3. CASE i \notin H /\ i \notin Inner
    <3>1. bm[i] = 1 /\ NodeSize[i] = 1
      BY <2>3, BlockFacts DEF Tree
    <3>2. ASSUME NEW g \in H, i \in Path[g] PROVE FALSE
      <4>1. g \in Nodes /\ i # g
        BY <2>1, <2>3, <3>2
      <4> QED BY <2>3, <3>2, <4>1, PathSplits
    <3>3. Clear(i, H)
      BY <3>2 DEF Clear
    <3> QED BY <3>1, <3>3
  <2>4. CASE i \notin H /\ i \in Inner
    <3>1. PICK h \in Nat \ {0} : /\ NodeSize[i] = 2 * h /\ NodeSize[LeftLeaf(i)] = h
                                 /\ NodeSize[RightLeaf(i)] = h
      BY <2>4, Halves, NodeFacts, BlockFacts
    <3>2. PICK a \in 0 .. h, b \in 0 .. h : a = bm[LeftLeaf(i)] /\ b = bm[RightLeaf(i)]
      BY <1>1, <2>4, <3>1
    <3>3. (a = h <=> Clear(LeftLeaf(i), H)) /\ (b = h <=> Clear(RightLeaf(i), H))
      BY <1>1, <2>4, <3>1, <3>2
    <3>4. bm[i] = Joined(a, b, 2 * h)
      BY <2>4, <3>1, <3>2 DEF Tree
    <3>5. bm[i] \in 0 .. 2 * h /\ (bm[i] = 2 * h <=> a = h /\ b = h)
      BY <3>4 DEF Joined, Longer
    <3>6. Clear(i, H) <=> Clear(LeftLeaf(i), H) /\ Clear(RightLeaf(i), H)
      BY <2>1, <2>4, ClearBelow
    <3> QED BY <3>1, <3>3, <3>5, <3>6
  <2> QED BY <2>2, <2>3, <2>4
<1>2. \A i \in Nodes : (i \in Inner => LeftLeaf(i) \in T /\ RightLeaf(i) \in T) => i \in T
  BY <1>1
<1> HIDE DEF T
<1>3. Nodes \subseteq T
  BY <1>2, TreeUp
<1> QED BY <1>3 DEF T

\* Only a node that is allocated, or one with something allocated below, offers nothing.
LEMMA BelowHeld ==
    ASSUME NEW bm, NEW H, Tree(bm, H), NEW h \in H, NEW i \in Nodes, h \in Path[i], i # h
    PROVE  bm[i] # 0
<1>1. ASSUME NEW g \in H, i \in Path[g] PROVE FALSE
  <2>1. g \in Nodes /\ h \in Nodes
    BY DEF Tree
  <2>2. h \in Path[g]
    BY <1>1, <2>1, PathTrans
  <2>3. h = g
    BY <2>2 DEF Tree
  <2> QED BY <1>1, <2>1, <2>3, PathOrder
<1>2. Clear(i, H)
  BY <1>1 DEF Clear
<1>3. bm[i] = NodeSize[i]
  BY <1>2, Offers
<1> QED BY <1>3, BlockFacts

-----------------------------------------------------------------------------
(* The walks of the code.                                                  *)

Descends(at, need) ==
    \A i \in Nodes : at[i] = IF NodeSize[i] <= need THEN i
                            ELSE IF bitmap[LeftLeaf(i)] >= need THEN at[LeftLeaf(i)]
                                 ELSE at[RightLeaf(i)]

\* The descent is the one its definition says.
LEMMA DescendRec ==
    ASSUME NEW need \in Powers
    PROVE  \E at : Descend(need) = at[0] /\ Descends(at, need)
<1> DEFINE Is(f) == f = [i \in Nodes |->
                           IF NodeSize[i] <= need THEN i
                           ELSE IF bitmap[LeftLeaf(i)] >= need THEN f[LeftLeaf(i)]
                                ELSE f[RightLeaf(i)]]
<1>1. \E f : Is(f)
  <2> DEFINE base == [i \in Nodes |-> i]
             on == {i \in Nodes : ~ (NodeSize[i] <= need)}
             join == [y \in Nodes \X Nodes \X Nodes |->
                        IF bitmap[LeftLeaf(y[1])] >= need THEN y[2] ELSE y[3]]
  <2>1. base \in [Nodes -> Nodes] /\ join \in [Nodes \X Nodes \X Nodes -> Nodes]
    OBVIOUS
  <2>2. on \in SUBSET Inner
    <3>1. ASSUME NEW i \in Nodes, ~ (NodeSize[i] <= need) PROVE i \in Inner
      <4>1. need \in Nat \ {0}
        BY PowersFacts
      <4>2. NodeSize[i] # 1
        BY <3>1, <4>1
      <4> QED BY <4>2, BlockFacts
    <3> QED BY <3>1
  <2>3. PICK f \in [Nodes -> Nodes] : Upward(f, base, on, join)
    <3> HIDE DEF base, on, join
    <3> QED BY <2>1, <2>2, FromChildren
  <2>4. ASSUME NEW i \in Inner
        PROVE  join[<<i, f[LeftLeaf(i)], f[RightLeaf(i)]>>]
                 = IF bitmap[LeftLeaf(i)] >= need THEN f[LeftLeaf(i)] ELSE f[RightLeaf(i)]
    <3>1. i \in Nodes /\ f[LeftLeaf(i)] \in Nodes /\ f[RightLeaf(i)] \in Nodes
      BY NodeFacts
    <3> QED BY <3>1
  <2>5. \A i \in Nodes : (i \in on <=> ~ (NodeSize[i] <= need)) /\ base[i] = i
    OBVIOUS
  <2>6. ASSUME NEW i \in Nodes
        PROVE  f[i] = IF NodeSize[i] <= need THEN i
                      ELSE IF bitmap[LeftLeaf(i)] >= need THEN f[LeftLeaf(i)]
                           ELSE f[RightLeaf(i)]
    <3> HIDE DEF base, on, join
    <3> QED BY <2>2, <2>3, <2>4, <2>5 DEF Upward
  <2>7. Is(f)
    BY <2>6
  <2> QED BY <2>7
<1>2. Descend(need) = (CHOOSE f : Is(f))[0]
  BY DEF Descend
<1>3. PICK f : f = CHOOSE g : Is(g)
  OBVIOUS
<1>4. Is(f)
  <2> HIDE DEF Is
  <2> QED BY <1>1, <1>3
<1>5. Descends(f, need)
  BY <1>4 DEF Descends
<1> QED BY <1>2, <1>3, <1>5

\* buddy_alloc ends at a free block of the size asked for, in no allocated one.
LEMMA DescendIs ==
    ASSUME NEW need \in Powers, NEW H, Tree(bitmap, H), bitmap[0] >= need
    PROVE  \E x \in Nodes : /\ Descend(need) = x /\ NodeSize[x] = need
                            /\ bitmap[x] = need /\ \A j \in Path[x] : bitmap[j] # 0
<1>1. PICK bm : bm = bitmap
  OBVIOUS
<1> PICK at : Descend(need) = at[0] /\ Descends(at, need)
  BY DescendRec
<1>2. \A i \in Nodes : at[i] = IF NodeSize[i] <= need THEN i
                               ELSE IF bm[LeftLeaf(i)] >= need THEN at[LeftLeaf(i)]
                                    ELSE at[RightLeaf(i)]
  BY <1>1 DEF Descends
<1>3. need \in Nat \ {0} /\ Tree(bm, H)
  BY <1>1, PowersFacts
<1> DEFINE Ends(i, x) == /\ x \in Nodes /\ i \in Path[x] /\ NodeSize[x] = need /\ bm[x] = need
                         /\ \A j \in Path[x] : i \in Path[j] => bm[j] # 0
           T == {i \in Nodes : bm[i] >= need => Ends(i, at[i])}
<1>4. ASSUME NEW i \in Nodes, i \in Inner => LeftLeaf(i) \in T /\ RightLeaf(i) \in T,
             bm[i] >= need
      PROVE  Ends(i, at[i])
  <2>1. bm[i] \in 0 .. NodeSize[i] /\ NodeSize[i] \in Nat \ {0} /\ NodeSize[i] \in Powers
    BY <1>3, Offers, BlockFacts
  <2>2. CASE NodeSize[i] <= need
    <3>1. at[i] = i /\ NodeSize[i] = need /\ bm[i] = need
      BY <1>2, <1>3, <1>4, <2>1, <2>2
    <3>2. ASSUME NEW j \in Path[i], i \in Path[j] PROVE j = i
      BY <3>2, PathIn, PathOrder
    <3>3. \A j \in Path[i] : i \in Path[j] => bm[j] # 0
      BY <1>3, <3>1, <3>2
    <3> QED BY <3>1, <3>3, PathIn
  <2>3. CASE ~ (NodeSize[i] <= need)
    <3>1. i \in Inner /\ i \notin H
      <4>1. NodeSize[i] # 1 /\ bm[i] # 0
        BY <1>3, <1>4, <2>1, <2>3
      <4>2. i \notin H
        BY <1>3, <4>1 DEF Tree
      <4> QED BY <4>1, <4>2, BlockFacts
    <3>2. PICK h \in Nat \ {0} : /\ NodeSize[i] = 2 * h /\ NodeSize[LeftLeaf(i)] = h
                                 /\ NodeSize[RightLeaf(i)] = h /\ h \in Powers
      BY <3>1, Halves, NodeFacts, BlockFacts
    <3>3. need <= h
      <4>1. ~ (h < need)
        BY <1>3, <2>3, <3>2, PowersFacts
      <4> QED BY <1>3, <4>1
    <3>4. PICK a \in 0 .. h, b \in 0 .. h : a = bm[LeftLeaf(i)] /\ b = bm[RightLeaf(i)]
      BY <1>3, <3>1, <3>2, NodeFacts, Offers
    <3>5. bm[i] = Joined(a, b, 2 * h)
      BY <1>3, <3>1, <3>2, <3>4 DEF Tree
    <3>6. a >= need \/ b >= need
      BY <1>3, <1>4, <3>3, <3>5 DEF Joined, Longer
    <3>7. PICK c \in {LeftLeaf(i), RightLeaf(i)} : at[i] = at[c] /\ bm[c] >= need
      BY <1>2, <1>3, <2>3, <3>4, <3>6
    <3>8. PICK d \in {LeftLeaf(i), RightLeaf(i)} : {c, d} = {LeftLeaf(i), RightLeaf(i)} /\ c # d
      BY <3>1, <3>7, NodeFacts
    <3>9. c \in Nodes /\ d \in Nodes /\ i \in Path[c]
      BY <3>1, NodeFacts, PathBelow
    <3>10. PICK x : x = at[c]
      OBVIOUS
    <3>11. Ends(c, x)
      BY <1>4, <3>1, <3>7, <3>10
    <3>12. ASSUME NEW j \in Path[x], i \in Path[j] PROVE bm[j] # 0
      <4>1. j \in Nodes
        BY <3>11, PathIn
      <4>2. CASE j = i
        BY <1>3, <1>4, <4>2
      <4>3. CASE c \in Path[j]
        BY <3>11, <4>3
      <4>4. CASE d \in Path[j]
        <5>1. d \in Path[x] /\ c \in Path[x]
          BY <3>11, <4>4, PathTrans
        <5>2. c \in Path[d] \/ d \in Path[c]
          BY <3>9, <3>11, <5>1, PathPages, PagesApart, BlockFacts
        <5>3. NodeSize[c] = NodeSize[d] /\ NodeSize[c] \in Nat
          BY <3>1, <3>2, <3>8
        <5> QED BY <3>8, <3>9, <5>2, <5>3, PathPages
      <4> QED BY <3>8, <3>12, <4>1, <4>2, <4>3, <4>4, PathSplits
    <3>13. i \in Path[x]
      BY <3>9, <3>11, PathTrans
    <3> QED BY <3>7, <3>10, <3>11, <3>12, <3>13
  <2> QED BY <2>2, <2>3
<1>5. \A i \in Nodes : (i \in Inner => LeftLeaf(i) \in T /\ RightLeaf(i) \in T) => i \in T
  BY <1>4
<1>6. 0 \in T
  <2> HIDE DEF T
  <2> QED BY <1>5, TreeUp, NodeFacts
<1>7. Ends(0, at[0])
  BY <1>1, <1>6
<1>8. \A j \in Path[at[0]] : 0 \in Path[j]
  BY <1>7, PathIn
<1> QED BY <1>1, <1>7, <1>8

\* Holder, in the bitmap bm.
Found(bm, pfn) ==
    LET at[i \in Nodes] ==
          IF bm[i] = 0 \/ i = 0 THEN i ELSE at[Parent(i)]
    IN at[Leaf(pfn)]

LEMMA HolderFound == ASSUME NEW pfn PROVE Holder(pfn) = Found(bitmap, pfn)
BY DEF Holder, Found

Climbs(at, bm) == \A i \in Nodes : at[i] = IF bm[i] = 0 \/ i = 0 THEN i ELSE at[Parent(i)]

\* The climb is the one its definition says.
LEMMA FoundRec ==
    ASSUME NEW bm, NEW pfn PROVE \E at : Found(bm, pfn) = at[Leaf(pfn)] /\ Climbs(at, bm)
<1> DEFINE Is(f) == f = [i \in Nodes |-> IF bm[i] = 0 \/ i = 0 THEN i ELSE f[Parent(i)]]
<1>1. \E f : Is(f)
  <2> DEFINE step == [x \in Nodes \X Nodes |-> IF bm[x[1]] = 0 THEN x[1] ELSE x[2]]
  <2>1. step \in [Nodes \X Nodes -> Nodes] /\ 0 \in Nodes
    BY NodeFacts
  <2>2. PICK f \in [Nodes -> Nodes] : Downward(f, 0, step)
    <3> HIDE DEF step
    <3> QED BY <2>1, FromParent
  <2>3. \A i \in Nodes : i # 0 =>
          step[<<i, f[Parent(i)]>>] = IF bm[i] = 0 THEN i ELSE f[Parent(i)]
    BY NodeFacts
  <2>4. ASSUME NEW i \in Nodes PROVE f[i] = IF bm[i] = 0 \/ i = 0 THEN i ELSE f[Parent(i)]
    <3> HIDE DEF step
    <3> QED BY <2>2, <2>3 DEF Downward
  <2>5. Is(f)
    BY <2>4
  <2> QED BY <2>5
<1>2. Found(bm, pfn) = (CHOOSE f : Is(f))[Leaf(pfn)]
  BY DEF Found
<1>3. PICK f : f = CHOOSE g : Is(g)
  OBVIOUS
<1>4. Is(f)
  <2> HIDE DEF Is
  <2> QED BY <1>1, <1>3
<1>5. Climbs(f, bm)
  BY <1>4 DEF Climbs
<1> QED BY <1>2, <1>3, <1>5

\* The climb from any page of an allocated block ends at its node.
LEMMA FoundIs ==
    ASSUME NEW bm, NEW H, Tree(bm, H), NEW h \in H, NEW pfn \in Pages(h)
    PROVE  Found(bm, pfn) = h
<1>1. PICK at : Found(bm, pfn) = at[Leaf(pfn)] /\ Climbs(at, bm)
  BY FoundRec
<1>2. h \in Nodes /\ bm[h] = 0 /\ pfn \in Pfns
  BY BlockFacts DEF Tree
<1> DEFINE T == {i \in Nodes : h \in Path[i] => at[i] = h}
<1>3. 0 \in T
  BY <1>1, NodeFacts, PathRec DEF Climbs
<1>4. ASSUME NEW i \in Nodes \ {0}, Parent(i) \in T PROVE i \in T
  <2>1. Path[i] = {i} \cup Path[Parent(i)]
    BY PathRec
  <2>2. CASE h \in Path[i] /\ i # h
    <3>1. bm[i] # 0
      BY <2>2, BelowHeld
    <3> QED BY <1>1, <1>4, <2>1, <2>2, <3>1 DEF Climbs
  <2>3. CASE i = h
    BY <1>1, <1>2, <2>3 DEF Climbs
  <2> QED BY <2>2, <2>3
<1> HIDE DEF T
<1>5. Leaf(pfn) \in T
  BY <1>2, <1>3, <1>4, TreeDown, LeafFacts
<1>6. h \in Path[Leaf(pfn)]
  BY <1>2, LeafFacts
<1> QED BY <1>1, <1>5, <1>6 DEF T

AllocClimbs(new, x) ==
    \A i \in Nodes : new[i] = IF i = x THEN 0
                              ELSE IF i \in Path[x] THEN Longer(new[LeftLeaf(i)], new[RightLeaf(i)])
                                   ELSE bitmap[i]

\* What buddy_alloc writes is what its definition says.
LEMMA AllocRec ==
    ASSUME NEW x \in Nodes, bitmap \in [Nodes -> Nat]
    PROVE  \E f : BitmapOnAlloc(x) = [i \in Nodes |-> f[i]] /\ AllocClimbs(f, x)
<1>1. PICK bm \in [Nodes -> Nat] : bm = bitmap
  OBVIOUS
<1> DEFINE Is(f) == f = [i \in Nodes |->
                           IF i = x THEN 0
                           ELSE IF i \in Path[x] THEN Longer(f[LeftLeaf(i)], f[RightLeaf(i)])
                                ELSE bm[i]]
<1>2. \E f : Is(f)
  <2> DEFINE base == [i \in Nodes |-> IF i = x THEN 0 ELSE bm[i]]
             on == Path[x] \ {x}
             join == [y \in Nodes \X Nat \X Nat |-> Longer(y[2], y[3])]
  <2>1. base \in [Nodes -> Nat] /\ join \in [Nodes \X Nat \X Nat -> Nat]
    BY DEF Longer
  <2>2. on \in SUBSET Inner
    BY PathSplits
  <2>3. PICK f \in [Nodes -> Nat] : Upward(f, base, on, join)
    <3> HIDE DEF base, on, join
    <3> QED BY <2>1, <2>2, FromChildren
  <2>4. ASSUME NEW i \in Inner
        PROVE  join[<<i, f[LeftLeaf(i)], f[RightLeaf(i)]>>] = Longer(f[LeftLeaf(i)], f[RightLeaf(i)])
    <3>1. i \in Nodes /\ f[LeftLeaf(i)] \in Nat /\ f[RightLeaf(i)] \in Nat
      BY NodeFacts
    <3> QED BY <3>1
  <2>5. \A i \in Nodes : base[i] = IF i = x THEN 0 ELSE bm[i]
    OBVIOUS
  <2>6. \A i \in Nodes : i \in on <=> i # x /\ i \in Path[x]
    OBVIOUS
  <2>7. ASSUME NEW i \in Nodes
        PROVE  f[i] = IF i = x THEN 0
                      ELSE IF i \in Path[x] THEN Longer(f[LeftLeaf(i)], f[RightLeaf(i)])
                           ELSE bm[i]
    <3> HIDE DEF base, on, join
    <3>1. CASE i \in on
      <4>1. f[i] = join[<<i, f[LeftLeaf(i)], f[RightLeaf(i)]>>] /\ i \in Inner
        BY <2>2, <2>3, <3>1 DEF Upward
      <4>2. f[i] = Longer(f[LeftLeaf(i)], f[RightLeaf(i)])
        BY <2>4, <4>1
      <4> QED BY <2>6, <3>1, <4>2
    <3>2. CASE i \notin on
      <4>1. f[i] = base[i]
        BY <2>3, <3>2 DEF Upward
      <4> QED BY <2>5, <2>6, <3>2, <4>1
    <3> QED BY <3>1, <3>2
  <2>8. Is(f)
    BY <2>7
  <2> QED BY <2>8
<1>3. BitmapOnAlloc(x) = CHOOSE f : Is(f)
  BY <1>1 DEF BitmapOnAlloc
<1>4. PICK f : f = CHOOSE g : Is(g)
  OBVIOUS
<1>5. Is(f)
  <2> HIDE DEF Is
  <2> QED BY <1>2, <1>4
<1>6. AllocClimbs(f, x) /\ f = [i \in Nodes |-> f[i]]
  BY <1>1, <1>5 DEF AllocClimbs
<1> QED BY <1>3, <1>4, <1>6

\* Allocating a free node in no allocated one keeps the tree.
LEMMA AllocTree ==
    ASSUME NEW H, Tree(bitmap, H), NEW x \in Nodes, bitmap[x] = NodeSize[x],
           \A j \in Path[x] : bitmap[j] # 0
    PROVE  /\ Tree(BitmapOnAlloc(x), H \cup {x}) /\ x \notin H
           /\ \A h \in H : Pages(h) \cap Pages(x) = {}
<1>1. PICK bm \in [Nodes -> Nat] : bm = bitmap
  BY DEF Tree
<1>2. Tree(bm, H) /\ bm[x] = NodeSize[x] /\ \A j \in Path[x] : bm[j] # 0
  BY <1>1
<1>3. PICK f : BitmapOnAlloc(x) = [i \in Nodes |-> f[i]] /\ AllocClimbs(f, x)
  BY <1>1, AllocRec
<1>4. \A i \in Nodes : f[i] = IF i = x THEN 0
                              ELSE IF i \in Path[x] THEN Longer(f[LeftLeaf(i)], f[RightLeaf(i)])
                                   ELSE bm[i]
  BY <1>1, <1>3 DEF AllocClimbs
<1>5. \A h \in H : h \in Nodes /\ h \notin Path[x] /\ x \notin Path[h]
  <2>1. Clear(x, H)
    BY <1>2, Offers
  <2>2. \A h \in H : h \in Nodes /\ bm[h] = 0
    BY <1>2 DEF Tree
  <2> QED BY <1>2, <2>1, <2>2 DEF Clear
<1>6. x \notin H
  BY <1>5, PathIn
<1> DEFINE Less(i) == f[i] \in 0 .. NodeSize[i] /\ (i \in Path[x] => f[i] < NodeSize[i])
           T == {i \in Nodes : Less(i)}
<1>7. ASSUME NEW i \in Nodes, i \in Path[x], i # x, LeftLeaf(i) \in T, RightLeaf(i) \in T
      PROVE  /\ i \in Inner /\ f[i] = Longer(f[LeftLeaf(i)], f[RightLeaf(i)])
             /\ f[i] = Joined(f[LeftLeaf(i)], f[RightLeaf(i)], NodeSize[i])
             /\ Less(i)
  <2>1. i \in Inner /\ (LeftLeaf(i) \in Path[x] \/ RightLeaf(i) \in Path[x])
    BY <1>7, PathSplits
  <2>2. PICK h \in Nat \ {0} : /\ NodeSize[i] = 2 * h /\ NodeSize[LeftLeaf(i)] = h
                               /\ NodeSize[RightLeaf(i)] = h
    BY <2>1, Halves, NodeFacts, BlockFacts
  <2>3. PICK a \in 0 .. h, b \in 0 .. h : a = f[LeftLeaf(i)] /\ b = f[RightLeaf(i)]
    BY <1>7, <2>2
  <2>4. a < h \/ b < h
    BY <1>7, <2>1, <2>2, <2>3
  <2>5. f[i] = Longer(a, b)
    BY <1>4, <1>7, <2>3
  <2>6. Longer(a, b) = Joined(a, b, 2 * h) /\ Longer(a, b) \in 0 .. 2 * h /\ Longer(a, b) < 2 * h
    BY <2>4 DEF Joined, Longer
  <2> QED BY <2>1, <2>2, <2>3, <2>5, <2>6
<1>8. ASSUME NEW i \in Nodes, i \in Inner => LeftLeaf(i) \in T /\ RightLeaf(i) \in T
      PROVE  i \in T
  <2>1. CASE i = x
    <3>1. f[i] = 0
      BY <1>4, <2>1
    <3> QED BY <3>1, BlockFacts
  <2>2. CASE i # x /\ i \in Path[x]
    <3>1. i \in Inner
      BY <2>2, PathSplits
    <3> QED BY <1>7, <1>8, <2>2, <3>1
  <2>3. CASE i \notin Path[x]
    <3>1. f[i] = bm[i]
      BY <1>4, <2>3, PathIn
    <3> QED BY <1>2, <2>3, <3>1, Offers
  <2> QED BY <2>1, <2>2, <2>3
<1>9. \A i \in Nodes : i \in T
  <2> HIDE DEF T
  <2> QED BY <1>8, TreeUp
<1>10. f[x] = 0
  BY <1>4
<1>11. ASSUME NEW i \in Nodes, i # x
       PROVE  f[i] = IF i \in H THEN 0 ELSE IF i \notin Inner THEN 1
                     ELSE Joined(f[LeftLeaf(i)], f[RightLeaf(i)], NodeSize[i])
  <2>1. CASE i \in Path[x]
    <3>1. i \in Inner /\ i \notin H
      BY <1>5, <1>11, <2>1, PathSplits
    <3>2. LeftLeaf(i) \in T /\ RightLeaf(i) \in T
      BY <1>9, <3>1, NodeFacts
    <3> HIDE DEF T
    <3>3. f[i] = Joined(f[LeftLeaf(i)], f[RightLeaf(i)], NodeSize[i])
      BY <1>7, <1>11, <2>1, <3>2
    <3> QED BY <3>1, <3>3
  <2>2. CASE i \notin Path[x]
    <3>1. ASSUME i \in Inner, NEW c \in {LeftLeaf(i), RightLeaf(i)} PROVE f[c] = bm[c]
      <4>1. c \in Nodes /\ i \in Path[c]
        BY <3>1, NodeFacts, PathBelow
      <4>2. c \notin Path[x]
        BY <2>2, <4>1, PathTrans
      <4> QED BY <1>4, <4>1, <4>2, PathIn
    <3>2. f[i] = bm[i]
      BY <1>4, <1>11, <2>2
    <3>3. bm[i] = IF i \in H THEN 0 ELSE IF i \notin Inner THEN 1
                  ELSE Joined(bm[LeftLeaf(i)], bm[RightLeaf(i)], NodeSize[i])
      BY <1>2 DEF Tree
    <3> QED BY <3>1, <3>2, <3>3
  <2> QED BY <2>1, <2>2
<1>12. \A g, h \in H \cup {x} : g \in Path[h] => g = h
  BY <1>2, <1>5 DEF Tree
<1>13. PICK g \in [Nodes -> Nat] : g = BitmapOnAlloc(x) /\ \A i \in Nodes : g[i] = f[i]
  <2>1. \A i \in Nodes : f[i] \in Nat
    BY <1>9
  <2> QED BY <1>3, <2>1
<1>14. Tree(g, H \cup {x})
  <2>1. H \cup {x} \in SUBSET Nodes
    BY <1>5
  <2>2. ASSUME NEW i \in Nodes
        PROVE  g[i] = IF i \in H \cup {x} THEN 0 ELSE IF i \notin Inner THEN 1
                      ELSE Joined(g[LeftLeaf(i)], g[RightLeaf(i)], NodeSize[i])
    <3>1. i \in Inner => g[LeftLeaf(i)] = f[LeftLeaf(i)] /\ g[RightLeaf(i)] = f[RightLeaf(i)]
      BY <1>13, NodeFacts
    <3>2. g[i] = f[i]
      BY <1>13
    <3>3. CASE i = x
      BY <1>10, <3>2, <3>3
    <3>4. CASE i # x
      <4>1. i \in H \cup {x} <=> i \in H
        BY <3>4
      <4> QED BY <1>11, <3>1, <3>2, <3>4, <4>1
    <3> QED BY <3>3, <3>4
  <2> QED BY <1>12, <2>1, <2>2 DEF Tree
<1>15. \A h \in H : Pages(h) \cap Pages(x) = {}
  BY <1>5, PagesApart
<1> QED BY <1>6, <1>13, <1>14, <1>15

FreeClimbs(new, h) ==
    \A i \in Nodes : new[i] = IF i = h THEN NodeSize[h]
                              ELSE IF i \in Path[h]
                                   THEN Joined(new[LeftLeaf(i)], new[RightLeaf(i)], NodeSize[i])
                                   ELSE bitmap[i]

\* What buddy_free writes is what its definition says.
LEMMA FreeRec ==
    ASSUME NEW pfn, NEW h \in Nodes, Holder(pfn) = h, bitmap[h] = 0, bitmap \in [Nodes -> Nat]
    PROVE  \E f : BitmapOnFree(pfn) = [i \in Nodes |-> f[i]] /\ FreeClimbs(f, h)
<1>1. PICK bm \in [Nodes -> Nat] : bm = bitmap
  OBVIOUS
<1> DEFINE Is(f) == f = [i \in Nodes |->
                           IF i = h THEN IF bm[h] = 0 THEN NodeSize[h] ELSE 2 * SIZE
                           ELSE IF i \in Path[h]
                                THEN Joined(f[LeftLeaf(i)], f[RightLeaf(i)], NodeSize[i])
                                ELSE bm[i]]
<1>2. \E f : Is(f)
  <2> DEFINE base == [i \in Nodes |-> IF i = h THEN NodeSize[h] ELSE bm[i]]
             on == Path[h] \ {h}
             join == [y \in Nodes \X Nat \X Nat |-> Joined(y[2], y[3], NodeSize[y[1]])]
  <2>1. base \in [Nodes -> Nat] /\ join \in [Nodes \X Nat \X Nat -> Nat]
    <3>1. \A i \in Nodes : NodeSize[i] \in Nat
      BY BlockFacts
    <3> QED BY <3>1 DEF Longer, Joined
  <2>2. on \in SUBSET Inner
    BY PathSplits
  <2>3. PICK f \in [Nodes -> Nat] : Upward(f, base, on, join)
    <3> HIDE DEF base, on, join
    <3> QED BY <2>1, <2>2, FromChildren
  <2>4. ASSUME NEW i \in Inner
        PROVE  join[<<i, f[LeftLeaf(i)], f[RightLeaf(i)]>>]
                 = Joined(f[LeftLeaf(i)], f[RightLeaf(i)], NodeSize[i])
    <3>1. i \in Nodes /\ f[LeftLeaf(i)] \in Nat /\ f[RightLeaf(i)] \in Nat
      BY NodeFacts
    <3> QED BY <3>1
  <2>5. \A i \in Nodes : base[i] = IF i = h THEN NodeSize[h] ELSE bm[i]
    OBVIOUS
  <2>6. \A i \in Nodes : i \in on <=> i # h /\ i \in Path[h]
    OBVIOUS
  <2>7. ASSUME NEW i \in Nodes
        PROVE  f[i] = IF i = h THEN IF bm[h] = 0 THEN NodeSize[h] ELSE 2 * SIZE
                      ELSE IF i \in Path[h]
                           THEN Joined(f[LeftLeaf(i)], f[RightLeaf(i)], NodeSize[i])
                           ELSE bm[i]
    <3> HIDE DEF base, on, join
    <3>1. CASE i \in on
      <4>1. f[i] = join[<<i, f[LeftLeaf(i)], f[RightLeaf(i)]>>] /\ i \in Inner
        BY <2>2, <2>3, <3>1 DEF Upward
      <4>2. f[i] = Joined(f[LeftLeaf(i)], f[RightLeaf(i)], NodeSize[i])
        BY <2>4, <4>1
      <4> QED BY <2>6, <3>1, <4>2
    <3>2. CASE i \notin on
      <4>1. f[i] = base[i]
        BY <2>3, <3>2 DEF Upward
      <4> QED BY <1>1, <2>5, <2>6, <3>2, <4>1
    <3> QED BY <3>1, <3>2
  <2>8. Is(f)
    BY <2>7
  <2> QED BY <2>8
<1>3. BitmapOnFree(pfn) = CHOOSE f : Is(f)
  BY <1>1 DEF BitmapOnFree
<1>4. PICK f : f = CHOOSE g : Is(g)
  OBVIOUS
<1>5. Is(f)
  <2> HIDE DEF Is
  <2> QED BY <1>2, <1>4
<1>6. FreeClimbs(f, h) /\ f = [i \in Nodes |-> f[i]]
  BY <1>1, <1>5 DEF FreeClimbs
<1> QED BY <1>3, <1>4, <1>6

\* Freeing any page of an allocated block frees that block.
LEMMA FreeTree ==
    ASSUME NEW H, Tree(bitmap, H), NEW h \in H, NEW pfn \in Pages(h)
    PROVE  Tree(BitmapOnFree(pfn), H \ {h})
<1>1. PICK bm \in [Nodes -> Nat] : bm = bitmap
  BY DEF Tree
<1>2. Tree(bm, H) /\ h \in Nodes /\ bm[h] = 0
  BY <1>1 DEF Tree
<1>3. Holder(pfn) = h
  BY HolderFound, FoundIs
<1>4. PICK f : BitmapOnFree(pfn) = [i \in Nodes |-> f[i]] /\ FreeClimbs(f, h)
  BY <1>1, <1>2, <1>3, FreeRec
<1>5. \A i \in Nodes : f[i] = IF i = h THEN NodeSize[h]
                              ELSE IF i \in Path[h]
                                   THEN Joined(f[LeftLeaf(i)], f[RightLeaf(i)], NodeSize[i])
                                   ELSE bm[i]
  BY <1>1, <1>4 DEF FreeClimbs
<1>6. ASSUME NEW i \in Nodes \ Path[h], i \in Inner, NEW c \in {LeftLeaf(i), RightLeaf(i)}
      PROVE  f[c] = bm[c]
  <2>1. c \in Nodes /\ i \in Path[c]
    BY <1>6, NodeFacts, PathBelow
  <2>2. c \notin Path[h]
    BY <1>2, <1>6, <2>1, PathTrans
  <2> QED BY <1>2, <1>5, <2>1, <2>2, PathIn
<1>7. f[h] = IF h \notin Inner THEN 1 ELSE Joined(f[LeftLeaf(h)], f[RightLeaf(h)], NodeSize[h])
  <2>1. f[h] = NodeSize[h]
    BY <1>2, <1>5
  <2>2. CASE h \in Inner
    <3>1. PICK s \in Nat \ {0} : /\ NodeSize[h] = 2 * s /\ NodeSize[LeftLeaf(h)] = s
                                 /\ NodeSize[RightLeaf(h)] = s
      BY <2>2, Halves, NodeFacts, BlockFacts
    <3>2. ASSUME NEW c \in {LeftLeaf(h), RightLeaf(h)} PROVE f[c] = s
      <4>1. c \in Nodes /\ h \in Path[c] /\ c # h
        BY <2>2, NodeFacts, PathBelow
      <4>2. c \notin Path[h]
        BY <1>2, <4>1, PathOrder
      <4>3. ASSUME NEW g \in H, c \in Path[g] PROVE FALSE
        <5>1. g \in Nodes
          BY <1>2 DEF Tree
        <5>2. h \in Path[g]
          BY <4>1, <4>3, <5>1, PathTrans
        <5>3. h = g
          BY <1>2, <5>2 DEF Tree
        <5> QED BY <4>2, <4>3, <5>3
      <4>4. Clear(c, H)
        BY <4>3 DEF Clear
      <4>5. bm[c] = NodeSize[c]
        BY <1>2, <4>1, <4>4, Offers
      <4> QED BY <1>5, <3>1, <4>1, <4>2, <4>5
    <3>3. f[LeftLeaf(h)] = s /\ f[RightLeaf(h)] = s
      BY <3>2
    <3>4. Joined(s, s, 2 * s) = 2 * s
      BY DEF Joined
    <3> QED BY <2>1, <2>2, <3>1, <3>3, <3>4
  <2>3. CASE h \notin Inner
    BY <1>2, <2>1, <2>3, BlockFacts
  <2> QED BY <2>2, <2>3
<1>8. ASSUME NEW i \in Nodes
      PROVE  f[i] = IF i \in H \ {h} THEN 0 ELSE IF i \notin Inner THEN 1
                    ELSE Joined(f[LeftLeaf(i)], f[RightLeaf(i)], NodeSize[i])
  <2>1. CASE i = h
    BY <1>7, <2>1
  <2>2. CASE i # h /\ i \in Path[h]
    <3>1. i \in Inner
      BY <1>2, <2>2, PathSplits
    <3>2. i \notin H
      BY <1>2, <2>2 DEF Tree
    <3> QED BY <1>5, <2>2, <3>1, <3>2
  <2>3. CASE i \notin Path[h]
    <3>1. i # h
      BY <1>2, <2>3, PathIn
    <3>2. f[i] = bm[i]
      BY <1>5, <2>3, <3>1
    <3>3. bm[i] = IF i \in H THEN 0 ELSE IF i \notin Inner THEN 1
                  ELSE Joined(bm[LeftLeaf(i)], bm[RightLeaf(i)], NodeSize[i])
      BY <1>2 DEF Tree
    <3>4. i \in Inner => f[LeftLeaf(i)] = bm[LeftLeaf(i)] /\ f[RightLeaf(i)] = bm[RightLeaf(i)]
      BY <1>6, <2>3
    <3> QED BY <3>1, <3>2, <3>3, <3>4
  <2> QED BY <2>1, <2>2, <2>3
<1> DEFINE T == {i \in Nodes : f[i] \in Nat}
<1>9. ASSUME NEW i \in Nodes, i \in Inner => LeftLeaf(i) \in T /\ RightLeaf(i) \in T
      PROVE  i \in T
  <2>1. NodeSize[i] \in Nat
    BY BlockFacts
  <2> QED BY <1>8, <1>9, <2>1 DEF Joined, Longer
<1>10. \A i \in Nodes : f[i] \in Nat
  <2>1. Nodes \subseteq T
    <3> HIDE DEF T
    <3> QED BY <1>9, TreeUp
  <2> QED BY <2>1
<1>11. PICK g \in [Nodes -> Nat] : g = BitmapOnFree(pfn) /\ \A i \in Nodes : g[i] = f[i]
  BY <1>4, <1>10
<1>12. Tree(g, H \ {h})
  <2>1. ASSUME NEW i \in Nodes
        PROVE  g[i] = IF i \in H \ {h} THEN 0 ELSE IF i \notin Inner THEN 1
                      ELSE Joined(g[LeftLeaf(i)], g[RightLeaf(i)], NodeSize[i])
    <3>1. i \in Inner => g[LeftLeaf(i)] = f[LeftLeaf(i)] /\ g[RightLeaf(i)] = f[RightLeaf(i)]
      BY <1>11, NodeFacts
    <3>2. g[i] = f[i]
      BY <1>11
    <3> QED BY <1>8, <3>1, <3>2
  <2> QED BY <1>2, <2>1 DEF Tree
<1> QED BY <1>11, <1>12

-----------------------------------------------------------------------------
(* The invariant: the bitmap is the tree of the nodes whose blocks start   *)
(* at the pages with a reference.                                          *)

Held(H) == Tree(bitmap, H) /\ Bases = {FirstPfn(h) : h \in H}

IInv == TypeOK /\ \E H : Held(H)

\* Two allocated nodes share no page.
LEMMA HeldApart ==
    ASSUME NEW bm, NEW H, Tree(bm, H), NEW g \in H, NEW h \in H, g # h
    PROVE  Pages(g) \cap Pages(h) = {} /\ FirstPfn(g) # FirstPfn(h)
<1>1. g \in Nodes /\ h \in Nodes /\ g \notin Path[h] /\ h \notin Path[g]
  BY DEF Tree
<1>2. Pages(g) \cap Pages(h) = {}
  BY <1>1, PagesApart
<1> QED BY <1>1, <1>2, BlockFacts

LEMMA BitmapType ==
    ASSUME NEW bm, NEW H, Tree(bm, H) PROVE bm \in [Nodes -> 0 .. SIZE]
<1>1. ASSUME NEW i \in Nodes PROVE bm[i] \in 0 .. SIZE
  <2>1. bm[i] \in 0 .. NodeSize[i] /\ NodeSize[i] \in Nat /\ NodeSize[i] <= SIZE /\ SIZE \in Nat
    BY Offers, BlockFacts, SizeIs
  <2> QED BY <2>1
<1> QED BY <1>1 DEF Tree

LEMMA InitInv == Init => IInv
<1> SUFFICES ASSUME Init PROVE IInv
  OBVIOUS
<1>1. NodeSize \in [Nodes -> Nat]
  <2>1. NodeSize = [i \in Nodes |-> NodeSize[i]]
    BY DEF NodeSize
  <2> QED BY <2>1, BlockFacts
<1>2. Tree(NodeSize, {})
  <2>1. ASSUME NEW i \in Nodes
        PROVE  NodeSize[i] = IF i \notin Inner THEN 1
                             ELSE Joined(NodeSize[LeftLeaf(i)], NodeSize[RightLeaf(i)], NodeSize[i])
    <3>1. CASE i \in Inner
      <4>1. PICK h \in Nat \ {0} : /\ NodeSize[i] = 2 * h /\ NodeSize[LeftLeaf(i)] = h
                                   /\ NodeSize[RightLeaf(i)] = h
        BY <3>1, Halves, NodeFacts, BlockFacts
      <4>2. Joined(h, h, 2 * h) = 2 * h
        BY DEF Joined
      <4> QED BY <3>1, <4>1, <4>2
    <3>2. CASE i \notin Inner
      BY <3>2, BlockFacts
    <3> QED BY <3>1, <3>2
  <2> QED BY <1>1, <2>1 DEF Tree
<1>3. Bases = {}
  BY DEF Init, Bases
<1>4. Held({})
  BY <1>2, <1>3 DEF Held, Init
<1>5. TypeOK
  <2>1. bitmap \in [Nodes -> 0 .. SIZE]
    BY <1>2, BitmapType DEF Init
  <2>2. RESERVED \in 0 .. RESERVED /\ 0 \in 0 .. REF_MAX
    BY Bounds
  <2> QED BY <2>1, <2>2 DEF Init, TypeOK
<1> QED BY <1>4, <1>5 DEF IInv

\* An allocation adds a node of the size asked for that shares no page with the others.
LEMMA AllocHolds ==
    ASSUME NEW n \in Requests \cup {1}, NEW H, TypeOK, Held(H), Alloc(n)
    PROVE  \E x \in Nodes :
             /\ NodeSize[x] = Need(n) /\ x \notin H
             /\ \A h \in H : Pages(h) \cap Pages(x) = {}
             /\ ref_cnt' = [ref_cnt EXCEPT ![FirstPfn(x)] = 1]
             /\ given_back' = given_back \ {FirstPfn(x)}
             /\ Tree(bitmap', H \cup {x}) /\ Bases' = Bases \cup {FirstPfn(x)}
<1>1. Tree(bitmap, H) /\ Need(n) \in Powers /\ bitmap[0] >= Need(n)
  BY NeedIs DEF Held, Alloc
<1>2. PICK x \in Nodes : /\ Descend(Need(n)) = x /\ NodeSize[x] = Need(n)
                         /\ bitmap[x] = Need(n) /\ \A j \in Path[x] : bitmap[j] # 0
  BY <1>1, DescendIs
<1>3. /\ Tree(BitmapOnAlloc(x), H \cup {x}) /\ x \notin H
      /\ \A h \in H : Pages(h) \cap Pages(x) = {}
  BY <1>1, <1>2, AllocTree
<1>4. /\ bitmap' = BitmapOnAlloc(x)
      /\ ref_cnt' = [ref_cnt EXCEPT ![FirstPfn(x)] = 1]
      /\ given_back' = given_back \ {FirstPfn(x)}
  BY <1>2 DEF Alloc
<1>5. Bases' = Bases \cup {FirstPfn(x)}
  BY <1>4, BlockFacts DEF Bases, TypeOK
<1> QED BY <1>2, <1>3, <1>4, <1>5

LEMMA AllocInv ==
    ASSUME NEW n \in Requests \cup {1}, IInv, Alloc(n)
    PROVE  /\ bitmap' \in [Nodes -> 0 .. SIZE] /\ ref_cnt' \in [Pfns -> 0 .. REF_MAX]
           /\ given_back' \in SUBSET Pfns /\ (\E H : Held(H))'
<1>1. PICK H : Held(H)
  BY DEF IInv
<1>2. TypeOK
  BY DEF IInv
<1>3. PICK x \in Nodes :
             /\ ref_cnt' = [ref_cnt EXCEPT ![FirstPfn(x)] = 1]
             /\ given_back' = given_back \ {FirstPfn(x)}
             /\ Tree(bitmap', H \cup {x}) /\ Bases' = Bases \cup {FirstPfn(x)}
  BY <1>1, <1>2, AllocHolds
<1>4. bitmap' \in [Nodes -> 0 .. SIZE]
  BY <1>3, BitmapType
<1>5. ref_cnt' \in [Pfns -> 0 .. REF_MAX] /\ given_back' \in SUBSET Pfns
  <2>1. 1 \in 0 .. REF_MAX
    BY Bounds
  <2> QED BY <1>2, <1>3, <2>1, BlockFacts DEF TypeOK
<1>6. Bases' = {FirstPfn(h) : h \in H \cup {x}}
  BY <1>1, <1>3 DEF Held
<1> QED BY <1>3, <1>4, <1>5, <1>6 DEF Held

\* Dropping the last reference takes one node away.
LEMMA DropHolds ==
    ASSUME NEW pfn \in Pfns, NEW H, TypeOK, Held(H), DerefPage(pfn), ref_cnt[pfn] = 1
    PROVE  \E h \in H : /\ pfn = FirstPfn(h) /\ Tree(bitmap', H \ {h})
                        /\ Bases' = Bases \ {pfn}
<1>1. Tree(bitmap, H) /\ pfn \in Bases
  BY DEF Held, Bases
<1>2. PICK h \in H : pfn = FirstPfn(h)
  BY <1>1 DEF Held
<1>3. pfn \in Pages(h)
  BY <1>1, <1>2, BlockFacts DEF Tree
<1>4. bitmap' = BitmapOnFree(pfn)
  BY DEF DerefPage
<1>5. Tree(bitmap', H \ {h})
  BY <1>1, <1>3, <1>4, FreeTree
<1>6. ref_cnt' = [ref_cnt EXCEPT ![pfn] = 0]
  BY DEF DerefPage, TypeOK
<1>7. Bases' = Bases \ {pfn}
  BY <1>6 DEF Bases, TypeOK
<1> QED BY <1>2, <1>5, <1>7

\* Other changes of a count leave the pages with a reference as they are.
LEMMA CountOnly ==
    ASSUME NEW pfn \in Pfns, NEW c \in Nat \ {0}, TypeOK, ref_cnt[pfn] # 0,
           ref_cnt' = [ref_cnt EXCEPT ![pfn] = c]
    PROVE  Bases' = Bases
BY DEF Bases, TypeOK

LEMMA NextInv == IInv /\ [Next]_vars => IInv'
<1> SUFFICES ASSUME IInv, [Next]_vars PROVE IInv'
  OBVIOUS
<1>1. TypeOK /\ SIZE \in Nat /\ RESERVED \in Nat
  BY Bounds, SizeIs DEF IInv
<1>2. PICK H : Held(H)
  BY DEF IInv
<1>3. CASE Reserve
  <2>1. Alloc(1) /\ boot' \in 0 .. RESERVED /\ halt' = halt
    BY <1>1, <1>3 DEF Reserve, Alloc, TypeOK
  <2> QED BY <1>1, <2>1, AllocInv DEF IInv, TypeOK
<1>4. ASSUME NEW n \in Requests, AllocPages(n) PROVE IInv'
  <2>1. Alloc(n) /\ boot' = boot /\ halt' = halt
    BY <1>4 DEF AllocPages, Alloc
  <2> QED BY <1>1, <2>1, AllocInv DEF IInv, TypeOK
<1>5. ASSUME NEW n \in Requests, OutOfMemory(n) PROVE IInv'
  BY <1>1, <1>2, <1>5 DEF OutOfMemory, IInv, TypeOK, Held, Bases
<1>6. ASSUME NEW pfn \in Pfns, FreePages(pfn) PROVE IInv'
  <2>1. bitmap' = bitmap
    BY <1>6 DEF FreePages
  <2> QED BY <1>1, <1>2, <1>6, <2>1 DEF FreePages, IInv, TypeOK, Held, Bases
<1>7. ASSUME NEW pfn \in Pfns, RefPage(pfn) PROVE IInv'
  <2>1. PICK c \in 1 .. REF_MAX : c = ref_cnt[pfn] + 1
    BY <1>1, <1>7, Bounds DEF RefPage, TypeOK
  <2>2. ref_cnt' = [ref_cnt EXCEPT ![pfn] = c]
    BY <1>7, <2>1 DEF RefPage
  <2>3. Bases' = Bases
    <3>1. c \in Nat \ {0} /\ ref_cnt[pfn] # 0
      BY <1>7, <2>1 DEF RefPage
    <3> QED BY <1>1, <2>2, <3>1, CountOnly
  <2>4. ref_cnt' \in [Pfns -> 0 .. REF_MAX]
    BY <1>1, <2>1, <2>2 DEF TypeOK
  <2> QED BY <1>1, <1>2, <1>7, <2>3, <2>4 DEF RefPage, IInv, TypeOK, Held
<1>8. ASSUME NEW pfn \in Pfns, DerefPage(pfn) PROVE IInv'
  <2>1. PICK c \in 0 .. REF_MAX : c = ref_cnt[pfn] - 1
    BY <1>1, <1>8, Bounds DEF DerefPage, TypeOK
  <2>2. ref_cnt' = [ref_cnt EXCEPT ![pfn] = c] /\ ref_cnt[pfn] # 0
    BY <1>8, <2>1 DEF DerefPage
  <2>3. ref_cnt' \in [Pfns -> 0 .. REF_MAX]
    BY <1>1, <2>1, <2>2 DEF TypeOK
  <2>4. CASE ref_cnt[pfn] = 1
    <3>1. PICK h \in H : /\ pfn = FirstPfn(h) /\ Tree(bitmap', H \ {h})
                         /\ Bases' = Bases \ {pfn}
      BY <1>1, <1>2, <1>8, <2>4, DropHolds
    <3>2. \A g \in H \ {h} : FirstPfn(g) # pfn
      BY <1>2, <3>1, HeldApart DEF Held
    <3>3. Bases' = {FirstPfn(g) : g \in H \ {h}}
      BY <1>2, <3>1, <3>2 DEF Held
    <3>4. bitmap' \in [Nodes -> 0 .. SIZE]
      BY <3>1, BitmapType
    <3>5. halt' = halt /\ boot' = boot /\ given_back' = given_back
      BY <1>8 DEF DerefPage
    <3> QED BY <1>1, <2>3, <3>1, <3>3, <3>4, <3>5 DEF IInv, TypeOK, Held
  <2>5. CASE ref_cnt[pfn] # 1
    <3>1. c \in Nat \ {0}
      BY <1>1, <2>1, <2>2, <2>5 DEF TypeOK
    <3>2. Bases' = Bases
      BY <1>1, <2>2, <3>1, CountOnly
    <3>3. bitmap' = bitmap /\ halt' = halt /\ boot' = boot /\ given_back' = given_back
      BY <1>8, <2>5 DEF DerefPage
    <3> QED BY <1>1, <1>2, <2>3, <3>2, <3>3 DEF IInv, TypeOK, Held
  <2> QED BY <2>4, <2>5
<1>9. CASE UNCHANGED vars
  BY <1>1, <1>2, <1>9 DEF vars, IInv, TypeOK, Held, Bases
<1> QED BY <1>3, <1>4, <1>5, <1>6, <1>7, <1>8, <1>9 DEF Next

\* The types of the allocator's state are right, and the invariant holds.
THEOREM Invariance == Spec => []IInv
<1>1. Init => IInv
  BY InitInv
<1>2. IInv /\ [Next]_vars => IInv'
  BY NextInv
<1> QED BY <1>1, <1>2, PTL DEF Spec

\* Counts of references, the bitmap and the pages given back stay in their ranges.
THEOREM TypeCorrect == Spec => []TypeOK
<1>1. IInv => TypeOK
  BY DEF IInv
<1> QED BY <1>1, Invariance, PTL

-----------------------------------------------------------------------------
(* The bitmap is exact.                                                    *)

\* The blocks in use are those of the allocated nodes.
LEMMA TakenIs ==
    ASSUME NEW H, Held(H)
    PROVE  Taken = UNION {Pages(h) : h \in H}
<1>1. ASSUME NEW h \in H
      PROVE  FirstPfn(h) .. FirstPfn(h) + Block(FirstPfn(h)).size - 1 = Pages(h)
  <2>1. h \in Nodes /\ Tree(bitmap, H)
    BY DEF Held, Tree
  <2>2. FirstPfn(h) \in Pages(h)
    BY <2>1, BlockFacts
  <2>3. Holder(FirstPfn(h)) = h
    BY <2>1, <2>2, HolderFound, FoundIs
  <2> QED BY <2>3 DEF Block, Pages
<1>2. Bases = {FirstPfn(h) : h \in H}
  BY DEF Held
<1>3. Taken = UNION {b .. b + Block(b).size - 1 : b \in Bases}
  BY DEF Taken
<1>4. ASSUME NEW p PROVE p \in Taken <=> \E h \in H : p \in Pages(h)
  <2>1. p \in Taken <=> \E b \in Bases : p \in b .. b + Block(b).size - 1
    BY <1>3
  <2> QED BY <1>1, <1>2, <2>1
<1> QED BY <1>4

\* A node of which no page is in use.
Unused(j) == Taken \cap Pages(j) = {}

\* No node above it and other than it is allocated.
Reached(i, H) == \A h \in H : h \in Path[i] => h = i

\* What a node offers is the longest unused block at it or below it.
LEMMA LongestIs ==
    ASSUME NEW H, Held(H)
    PROVE  \A i \in Nodes : Reached(i, H) =>
             /\ \A j \in Nodes : i \in Path[j] /\ Unused(j) => NodeSize[j] <= bitmap[i]
             /\ bitmap[i] # 0 => \E j \in Nodes : /\ i \in Path[j] /\ Unused(j)
                                                  /\ NodeSize[j] = bitmap[i]
<1>1. PICK bm \in [Nodes -> Nat] : bm = bitmap
  BY DEF Held, Tree
<1>2. PICK U : U = Taken
  OBVIOUS
<1>3. Tree(bm, H) /\ H \in SUBSET Nodes /\ U = UNION {Pages(h) : h \in H}
  BY <1>1, <1>2, TakenIs DEF Held, Tree
<1>4. \A j \in Nodes : Unused(j) <=> \A h \in H : Pages(h) \cap Pages(j) = {}
  BY <1>2, <1>3 DEF Unused
<1> DEFINE Longest(i) == /\ \A j \in Nodes : i \in Path[j] /\ Unused(j) => NodeSize[j] <= bm[i]
                         /\ bm[i] # 0 => \E j \in Nodes : /\ i \in Path[j] /\ Unused(j)
                                                          /\ NodeSize[j] = bm[i]
           T == {i \in Nodes : Reached(i, H) => Longest(i)}
<1>5. ASSUME NEW i \in Nodes, i \in Inner => LeftLeaf(i) \in T /\ RightLeaf(i) \in T,
             Reached(i, H)
      PROVE  Longest(i)
  <2>1. CASE i \in H
    <3>1. ASSUME NEW j \in Nodes, i \in Path[j], Unused(j) PROVE FALSE
      <4>1. Pages(j) \subseteq Pages(i) /\ FirstPfn(j) \in Pages(j)
        BY <3>1, PathPages, BlockFacts
      <4> QED BY <1>4, <2>1, <3>1, <4>1
    <3>2. bm[i] = 0
      BY <1>3, <2>1 DEF Tree
    <3> QED BY <3>1, <3>2
  <2>2. CASE i \notin H /\ Clear(i, H)
    <3>1. bm[i] = NodeSize[i]
      BY <1>3, <2>2, Offers
    <3>2. ASSUME NEW h \in H PROVE Pages(h) \cap Pages(i) = {}
      <4>1. h \in Nodes /\ h # i /\ h \notin Path[i] /\ i \notin Path[h]
        BY <1>3, <1>5, <2>2 DEF Reached, Clear
      <4> QED BY <4>1, PagesApart
    <3>3. Unused(i)
      BY <1>4, <3>2
    <3>4. \A j \in Nodes : i \in Path[j] => NodeSize[j] <= NodeSize[i]
      BY PathPages
    <3> QED BY <3>1, <3>3, <3>4, PathIn
  <2>3. CASE i \notin H /\ ~ Clear(i, H)
    <3>1. PICK g \in H : i \in Path[g] /\ g # i
      BY <2>3 DEF Clear
    <3>2. i \in Inner /\ g \in Nodes
      BY <1>3, <3>1, PathSplits
    <3>3. PICK h \in Nat \ {0} : /\ NodeSize[i] = 2 * h /\ NodeSize[LeftLeaf(i)] = h
                                 /\ NodeSize[RightLeaf(i)] = h
      BY <3>2, Halves, NodeFacts, BlockFacts
    <3>4. PICK a \in 0 .. h, b \in 0 .. h : a = bm[LeftLeaf(i)] /\ b = bm[RightLeaf(i)]
      BY <1>3, <3>2, <3>3, NodeFacts, Offers
    <3>5. bm[i] = Joined(a, b, 2 * h) /\ bm[i] # 2 * h
      BY <1>3, <2>3, <3>2, <3>3, <3>4, Offers DEF Tree
    <3>6. bm[i] = Longer(a, b)
      BY <3>5 DEF Joined
    <3>7. ~ Unused(i)
      <4>1. Pages(g) \subseteq Pages(i) /\ FirstPfn(g) \in Pages(g)
        BY <3>1, <3>2, PathPages, BlockFacts
      <4> QED BY <1>4, <4>1
    <3>8. ASSUME NEW c \in {LeftLeaf(i), RightLeaf(i)}
          PROVE  c \in Nodes /\ i \in Path[c] /\ Longest(c)
      <4>1. c \in Nodes \ {0} /\ Parent(c) = i /\ i \in Path[c]
        BY <3>2, NodeFacts, PathBelow
      <4>2. Path[c] = {c} \cup Path[i]
        BY <4>1, PathRec
      <4>3. Reached(c, H)
        BY <1>5, <2>3, <4>2 DEF Reached
      <4> QED BY <1>5, <3>2, <4>1, <4>3
    <3>9. ASSUME NEW j \in Nodes, i \in Path[j], Unused(j) PROVE NodeSize[j] <= bm[i]
      <4>1. PICK c \in {LeftLeaf(i), RightLeaf(i)} : c \in Path[j]
        BY <3>7, <3>9, PathSplits
      <4>2. NodeSize[j] <= bm[c] /\ NodeSize[j] \in Nat
        BY <3>8, <3>9, <4>1, BlockFacts
      <4> QED BY <3>4, <3>6, <4>1, <4>2 DEF Longer
    <3>10. ASSUME bm[i] # 0
           PROVE  \E j \in Nodes : i \in Path[j] /\ Unused(j) /\ NodeSize[j] = bm[i]
      <4>1. PICK c \in {LeftLeaf(i), RightLeaf(i)} : bm[i] = bm[c]
        BY <3>4, <3>6 DEF Longer
      <4>2. PICK j \in Nodes : c \in Path[j] /\ Unused(j) /\ NodeSize[j] = bm[c]
        BY <3>8, <3>10, <4>1
      <4>3. i \in Path[j]
        BY <3>8, <4>2, PathTrans
      <4> QED BY <4>1, <4>2, <4>3
    <3> QED BY <3>9, <3>10
  <2> QED BY <2>1, <2>2, <2>3
<1>6. \A i \in Nodes : (i \in Inner => LeftLeaf(i) \in T /\ RightLeaf(i) \in T) => i \in T
  BY <1>5
<1>7. Nodes \subseteq T
  <2> HIDE DEF T
  <2> QED BY <1>6, TreeUp
<1> QED BY <1>1, <1>7

LEMMA ExactInState == IInv => BitmapIsExact
<1> SUFFICES ASSUME IInv, NEW i \in Nodes, \A j \in Path[i] : bitmap[j] # 0 \/ j = i
             PROVE  LET below == {j \in Nodes : /\ i \in Path[j]
                                               /\ Taken \cap (FirstPfn(j) .. FirstPfn(j) + NodeSize[j] - 1) = {}}
                    IN bitmap[i] = IF below = {} THEN 0
                                   ELSE CHOOSE s \in {NodeSize[j] : j \in below} :
                                          \A j \in below : NodeSize[j] <= s
  BY DEF BitmapIsExact
<1> DEFINE below == {j \in Nodes : /\ i \in Path[j]
                                   /\ Taken \cap (FirstPfn(j) .. FirstPfn(j) + NodeSize[j] - 1) = {}}
           sizes == {NodeSize[j] : j \in below}
           P(s) == \A j \in below : NodeSize[j] <= s
<1>1. PICK H : Held(H)
  BY DEF IInv
<1>2. Reached(i, H)
  BY <1>1 DEF Held, Tree, Reached
<1>3. \A j : j \in below <=> j \in Nodes /\ i \in Path[j] /\ Unused(j)
  BY DEF Unused, Pages
<1>4. /\ \A j \in below : NodeSize[j] <= bitmap[i]
      /\ bitmap[i] # 0 => \E j \in below : NodeSize[j] = bitmap[i]
  BY <1>1, <1>2, <1>3, LongestIs
<1>5. \A j \in below : NodeSize[j] \in Nat \ {0}
  BY BlockFacts
<1>6. bitmap[i] \in Nat
  BY DEF IInv, TypeOK
<1>7. CASE below = {}
  BY <1>4, <1>7
<1>8. CASE below # {}
  <2>1. bitmap[i] \in sizes /\ P(bitmap[i])
    <3>1. bitmap[i] # 0
      BY <1>4, <1>5, <1>6, <1>8
    <3> QED BY <1>4, <3>1
  <2>2. ASSUME NEW s \in sizes, P(s) PROVE s = bitmap[i]
    <3>1. s <= bitmap[i] /\ bitmap[i] <= s /\ s \in Nat
      BY <1>4, <1>5, <2>1, <2>2
    <3> QED BY <1>6, <3>1
  <2>3. bitmap[i] = CHOOSE s \in sizes : P(s)
    <3> HIDE DEF below, sizes, P
    <3> QED BY <2>1, <2>2
  <2> QED BY <1>8, <2>3
<1> QED BY <1>7, <1>8

\* What is split is joined again and nothing free is out of reach: a node in no
\* allocated block has the size of the longest block that is free below it.
THEOREM Exact == Spec => []BitmapIsExact
BY Invariance, ExactInState, PTL

-----------------------------------------------------------------------------
(* The allocator implements PageAlloc.                                     *)

\* The blocks that PageAlloc sees.
BlocksOf(bm, refs, bases) ==
    [b \in bases |-> [size |-> NodeSize[Found(bm, b)], refs |-> refs[b]]]

LEMMA BlocksAre ==
    /\ [b \in Bases |-> Block(b)] = BlocksOf(bitmap, ref_cnt, Bases)
    /\ ([b \in Bases |-> Block(b)])' = BlocksOf(bitmap', ref_cnt', Bases')
BY DEF BlocksOf, Block, Holder, Found

BlocksMatch(B, H, refs) ==
    /\ DOMAIN B = {FirstPfn(h) : h \in H}
    /\ \A h \in H : B[FirstPfn(h)] = [size |-> NodeSize[h], refs |-> refs[FirstPfn(h)]]

\* PageAlloc sees a block of every allocated node.
LEMMA BlocksIn ==
    ASSUME NEW bm, NEW H, Tree(bm, H), NEW refs, NEW bases, bases = {FirstPfn(h) : h \in H},
           NEW B, B = BlocksOf(bm, refs, bases)
    PROVE  BlocksMatch(B, H, refs)
<1>1. ASSUME NEW h \in H PROVE Found(bm, FirstPfn(h)) = h
  <2>1. FirstPfn(h) \in Pages(h)
    BY BlockFacts DEF Tree
  <2> QED BY <2>1, FoundIs
<1> QED BY <1>1 DEF BlocksOf, BlocksMatch

\* A block that fits is that of a node which shares no page with the allocated ones.
LEMMA FitsIs ==
    ASSUME NEW H, Held(H), NEW x \in Nodes
    PROVE  Allocator!Fits(FirstPfn(x), NodeSize[x]) <=> \A h \in H : Pages(h) \cap Pages(x) = {}
<1>1. Tree(bitmap, H) /\ Bases = {FirstPfn(h) : h \in H}
  BY DEF Held
<1>2. PICK B : B = BlocksOf(bitmap, ref_cnt, Bases)
  OBVIOUS
<1>3. DOMAIN B = {FirstPfn(h) : h \in H} /\ \A h \in H : B[FirstPfn(h)].size = NodeSize[h]
  <2>1. BlocksMatch(B, H, ref_cnt)
    BY <1>1, <1>2, BlocksIn
  <2>2. DOMAIN B = {FirstPfn(h) : h \in H}
    BY <2>1 DEF BlocksMatch
  <2>3. ASSUME NEW h \in H PROVE B[FirstPfn(h)].size = NodeSize[h]
    <3>1. B[FirstPfn(h)] = [size |-> NodeSize[h], refs |-> ref_cnt[FirstPfn(h)]]
      BY <2>1 DEF BlocksMatch
    <3> QED BY <3>1
  <2> QED BY <2>2, <2>3
<1>4. [b \in Bases |-> Block(b)] = B
  BY <1>2, BlocksAre
<1>5. FirstPfn(x) % NodeSize[x] = 0
  BY Aligned
<1>6. FirstPfn(x) .. FirstPfn(x) + NodeSize[x] - 1 \subseteq 0 .. SIZE - 1
  BY BlockFacts DEF Pages, Pfns
<1>7. (\A a \in DOMAIN B : (a .. a + B[a].size - 1) \cap Pages(x) = {})
        <=> \A h \in H : Pages(h) \cap Pages(x) = {}
  BY <1>3 DEF Pages
<1> QED BY <1>4, <1>5, <1>6, <1>7 DEF Allocator!Fits, Allocator!PagesOf, Pages

\* Every allocation is one of PageAlloc: an aligned block of the size asked for
\* that overlaps none in use.
LEMMA AllocMaps ==
    ASSUME NEW n \in Requests \cup {1}, IInv, Alloc(n)
    PROVE  \E b \in Pfns : Allocator!Alloc(b, Need(n))
<1>1. PICK H : Held(H)
  BY DEF IInv
<1>2. TypeOK
  BY DEF IInv
<1>3. PICK x \in Nodes :
             /\ NodeSize[x] = Need(n) /\ x \notin H
             /\ \A h \in H : Pages(h) \cap Pages(x) = {}
             /\ ref_cnt' = [ref_cnt EXCEPT ![FirstPfn(x)] = 1]
             /\ given_back' = given_back \ {FirstPfn(x)}
             /\ Tree(bitmap', H \cup {x}) /\ Bases' = Bases \cup {FirstPfn(x)}
  BY <1>1, <1>2, AllocHolds
<1>4. PICK b \in Pfns : b = FirstPfn(x)
  BY BlockFacts
<1>5. Allocator!Fits(b, Need(n))
  BY <1>1, <1>3, <1>4, FitsIs
<1>6. PICK B : B = BlocksOf(bitmap, ref_cnt, Bases)
  OBVIOUS
<1>7. PICK C : C = BlocksOf(bitmap', ref_cnt', Bases')
  OBVIOUS
<1>8. BlocksMatch(B, H, ref_cnt)
  <2>1. Tree(bitmap, H) /\ Bases = {FirstPfn(h) : h \in H}
    BY <1>1 DEF Held
  <2> QED BY <1>6, <2>1, BlocksIn
<1>9. Bases' = {FirstPfn(h) : h \in H \cup {x}}
  BY <1>1, <1>3 DEF Held
<1>10. BlocksMatch(C, H \cup {x}, ref_cnt')
  BY <1>3, <1>7, <1>9, BlocksIn
<1>11. \A h \in H : FirstPfn(h) # b /\ FirstPfn(h) \in Pfns
  BY <1>3, <1>4, HeldApart, BlockFacts DEF Tree
<1>12. ref_cnt'[b] = 1 /\ \A h \in H : ref_cnt'[FirstPfn(h)] = ref_cnt[FirstPfn(h)]
  BY <1>2, <1>3, <1>4, <1>11 DEF TypeOK
<1>13. C = [a \in DOMAIN B \cup {b} |->
              IF a = b THEN [size |-> Need(n), refs |-> 1] ELSE B[a]]
  <2>1. DOMAIN C = DOMAIN B \cup {b}
    BY <1>4, <1>8, <1>10 DEF BlocksMatch
  <2>2. ASSUME NEW a \in DOMAIN C
        PROVE  C[a] = IF a = b THEN [size |-> Need(n), refs |-> 1] ELSE B[a]
    <3>1. CASE a = b
      BY <1>3, <1>4, <1>10, <1>12, <3>1 DEF BlocksMatch
    <3>2. CASE a # b
      <4>1. PICK h \in H : a = FirstPfn(h)
        BY <1>4, <1>8, <2>1, <2>2, <3>2 DEF BlocksMatch
      <4> QED BY <1>8, <1>10, <1>12, <3>2, <4>1 DEF BlocksMatch
    <3> QED BY <3>1, <3>2
  <2>3. C = [a \in DOMAIN C |-> C[a]]
    BY <1>7 DEF BlocksOf
  <2> QED BY <2>1, <2>2, <2>3
<1>14. [a \in Bases |-> Block(a)] = B /\ ([a \in Bases |-> Block(a)])' = C
  BY <1>6, <1>7, BlocksAre
<1>15. (halt = "oom") = (halt = "oom")'
  BY DEF Alloc
<1> QED BY <1>5, <1>13, <1>14, <1>15 DEF Allocator!Alloc

\* What alloc_pages hands out overlaps nothing in use: no page is handed out twice.
THEOREM Fresh == Spec => AllocIsFresh
<1>1. ASSUME IInv, NEW n \in Requests, AllocPages(n)
      PROVE  \E b \in Pfns : Allocator!Alloc(b, Need(n))
  BY <1>1, AllocMaps DEF AllocPages
<1>2. IInv /\ [Next]_vars
        => [\A n \in Requests : AllocPages(n) => \E b \in Pfns : Allocator!Alloc(b, Need(n))]_vars
  BY <1>1
<1> QED BY <1>2, Invariance, PTL DEF Spec, AllocIsFresh

\* The machine is shut down only when no block of the size asked for is free.
LEMMA FailMaps ==
    ASSUME NEW n \in Requests, IInv, OutOfMemory(n)
    PROVE  Allocator!Fail(Need(n))
<1>1. PICK H : Held(H)
  BY DEF IInv
<1>2. ASSUME NEW b \in Pfns, Allocator!Fits(b, Need(n)) PROVE FALSE
  <2>1. Need(n) \in Powers /\ Need(n) \in Nat \ {0} /\ b \in Nat /\ SIZE \in Nat
    <3>1. n \in Requests \cup {1}
      OBVIOUS
    <3>2. Need(n) \in Powers /\ Need(n) \in Nat \ {0}
      BY <3>1, NeedIs, PowersFacts
    <3>3. b \in Nat /\ SIZE \in Nat
      BY SizeIs DEF Pfns
    <3> QED BY <3>2, <3>3
  <2>2. b % Need(n) = 0 /\ b .. b + Need(n) - 1 \subseteq 0 .. SIZE - 1
    BY <1>2 DEF Allocator!Fits, Allocator!PagesOf
  <2>3. b + Need(n) <= SIZE
    <3>1. PICK k \in Nat \ {0} : k = Need(n)
      BY <2>1
    <3>2. b + k - 1 \in b .. b + k - 1
      BY <2>1, <3>1
    <3>3. b + k - 1 \in 0 .. SIZE - 1
      BY <2>2, <3>1, <3>2
    <3> QED BY <2>1, <3>1, <3>3
  <2>4. PICK x \in Nodes : NodeSize[x] = Need(n) /\ FirstPfn(x) = b
    BY <2>1, <2>2, <2>3, NodeOf
  <2>5. \A h \in H : Pages(h) \cap Pages(x) = {}
    BY <1>1, <1>2, <2>4, FitsIs
  <2>6. Unused(x)
    BY <1>1, <2>5, TakenIs DEF Unused
  <2>7. Reached(0, H) /\ 0 \in Path[x] /\ 0 \in Nodes
    BY NodeFacts, PathRec, PathIn DEF Reached
  <2>8. Need(n) <= bitmap[0]
    BY <1>1, <2>4, <2>6, <2>7, LongestIs
  <2>9. bitmap[0] < Need(n) /\ bitmap[0] \in Nat
    BY <2>7 DEF OutOfMemory, IInv, TypeOK
  <2> QED BY <2>1, <2>8, <2>9
<1>3. UNCHANGED <<bitmap, ref_cnt, Bases>> /\ halt' = "oom"
  BY DEF OutOfMemory, Bases
<1>4. ([b \in Bases |-> Block(b)])' = [b \in Bases |-> Block(b)]
  BY <1>3, BlocksAre
<1> QED BY <1>2, <1>3, <1>4 DEF Allocator!Fail, Pfns

Recounted(B, C, b, k, c) ==
    /\ B[b] = [size |-> B[b].size, refs |-> k]
    /\ C = [B EXCEPT ![b] = [size |-> B[b].size, refs |-> c]]

\* A new count changes one block and no other.
LEMMA Recount ==
    ASSUME NEW pfn \in Pfns, NEW c \in Nat \ {0}, TypeOK, ref_cnt[pfn] # 0,
           ref_cnt' = [ref_cnt EXCEPT ![pfn] = c], bitmap' = bitmap,
           NEW B, B = BlocksOf(bitmap, ref_cnt, Bases),
           NEW C, C = BlocksOf(bitmap', ref_cnt', Bases')
    PROVE  Recounted(B, C, pfn, ref_cnt[pfn], c)
<1>1. Bases' = Bases /\ pfn \in Bases
  BY CountOnly DEF Bases, TypeOK
<1>2. \A b \in Bases : C[b] = [size |-> B[b].size, refs |-> IF b = pfn THEN c ELSE ref_cnt[b]]
  BY <1>1 DEF BlocksOf, Bases, TypeOK
<1>3. \A b \in Bases : B[b] = [size |-> B[b].size, refs |-> ref_cnt[b]]
  BY DEF BlocksOf
<1>4. DOMAIN C = Bases /\ DOMAIN B = Bases /\ C = [b \in Bases |-> C[b]] /\ B = [b \in Bases |-> B[b]]
  BY <1>1 DEF BlocksOf
<1>5. C = [B EXCEPT ![pfn] = [size |-> B[pfn].size, refs |-> c]]
  <2>1. PICK e : e = [size |-> B[pfn].size, refs |-> c]
    OBVIOUS
  <2>2. C[pfn] = e
    BY <1>1, <1>2, <2>1
  <2>3. \A b \in Bases : b # pfn => C[b] = B[b]
    BY <1>2, <1>3
  <2>4. C = [B EXCEPT ![pfn] = e]
    BY <1>1, <1>4, <2>2, <2>3
  <2> QED BY <2>1, <2>4
<1>6. B[pfn] = [size |-> B[pfn].size, refs |-> ref_cnt[pfn]]
  BY <1>1, <1>3
<1> QED BY <1>5, <1>6 DEF Recounted

\* ref_page counts one more reference to a block in use.
LEMMA TakeMaps ==
    ASSUME NEW pfn \in Pfns, IInv, RefPage(pfn)
    PROVE  pfn \in Bases /\ Allocator!Take(pfn)
<1>1. PICK B : B = BlocksOf(bitmap, ref_cnt, Bases)
  OBVIOUS
<1>2. PICK C : C = BlocksOf(bitmap', ref_cnt', Bases')
  OBVIOUS
<1>3. TypeOK /\ ref_cnt[pfn] \in Nat \ {0} /\ halt' = halt /\ bitmap' = bitmap
      /\ ref_cnt' = [ref_cnt EXCEPT ![pfn] = @ + 1]
  BY DEF IInv, TypeOK, RefPage
<1>4. PICK c \in Nat \ {0} : c = ref_cnt[pfn] + 1
  BY <1>3
<1>5. ref_cnt' = [ref_cnt EXCEPT ![pfn] = c]
  BY <1>3, <1>4
<1>6. Recounted(B, C, pfn, ref_cnt[pfn], c) /\ pfn \in Bases
  <2>1. Recounted(B, C, pfn, ref_cnt[pfn], c)
    BY <1>1, <1>2, <1>3, <1>5, Recount
  <2> QED BY <1>3, <2>1 DEF Bases
<1>7. C = [B EXCEPT ![pfn].refs = @ + 1]
  <2>1. PICK s, k : B[pfn] = [size |-> s, refs |-> k] /\ k = ref_cnt[pfn]
    BY <1>6 DEF Recounted
  <2>2. [B[pfn] EXCEPT !.refs = k + 1] = [size |-> B[pfn].size, refs |-> c]
    BY <1>4, <2>1
  <2>3. B[pfn].refs = k
    BY <2>1
  <2>4. [B EXCEPT ![pfn].refs = @ + 1] = [B EXCEPT ![pfn] = [B[pfn] EXCEPT !.refs = k + 1]]
    BY <2>3
  <2> QED BY <1>6, <2>2, <2>4 DEF Recounted
<1>8. [b \in Bases |-> Block(b)] = B /\ ([b \in Bases |-> Block(b)])' = C
  BY <1>1, <1>2, BlocksAre
<1> QED BY <1>3, <1>6, <1>7, <1>8 DEF Allocator!Take

\* deref_page drops one reference, and with the last the block that was allocated.
LEMMA DropMaps ==
    ASSUME NEW pfn \in Pfns, IInv, DerefPage(pfn)
    PROVE  pfn \in Bases /\ Allocator!Drop(pfn)
<1>1. PICK B : B = BlocksOf(bitmap, ref_cnt, Bases)
  OBVIOUS
<1>2. PICK C : C = BlocksOf(bitmap', ref_cnt', Bases')
  OBVIOUS
<1>3. TypeOK /\ ref_cnt[pfn] \in Nat \ {0} /\ halt' = halt /\ pfn \in Bases
      /\ ref_cnt' = [ref_cnt EXCEPT ![pfn] = @ - 1]
  BY DEF IInv, TypeOK, DerefPage, Bases
<1>4. B[pfn].refs = ref_cnt[pfn]
  BY <1>1, <1>3 DEF BlocksOf
<1>5. C = IF B[pfn].refs > 1 THEN [B EXCEPT ![pfn].refs = @ - 1]
          ELSE [b \in DOMAIN B \ {pfn} |-> B[b]]
  <2>1. CASE ref_cnt[pfn] = 1
    <3>1. PICK H : Held(H)
      BY DEF IInv
    <3>2. PICK h \in H : /\ pfn = FirstPfn(h) /\ Tree(bitmap', H \ {h})
                         /\ Bases' = Bases \ {pfn}
      BY <1>3, <2>1, <3>1, DropHolds
    <3>3. BlocksMatch(B, H, ref_cnt)
      <4>1. Tree(bitmap, H) /\ Bases = {FirstPfn(g) : g \in H}
        BY <3>1 DEF Held
      <4> QED BY <1>1, <4>1, BlocksIn
    <3>4. \A g \in H \ {h} : FirstPfn(g) # pfn /\ FirstPfn(g) \in Pfns
      BY <3>1, <3>2, HeldApart, BlockFacts DEF Held, Tree
    <3>5. Bases' = {FirstPfn(g) : g \in H \ {h}}
      BY <3>1, <3>2, <3>4 DEF Held
    <3>6. BlocksMatch(C, H \ {h}, ref_cnt')
      BY <1>2, <3>2, <3>5, BlocksIn
    <3>7. DOMAIN B = Bases /\ DOMAIN C = Bases \ {pfn} /\ C = [b \in DOMAIN C |-> C[b]]
      BY <1>1, <1>2, <3>2 DEF BlocksOf
    <3>8. ASSUME NEW b \in Bases \ {pfn} PROVE C[b] = B[b]
      <4>1. PICK g \in H \ {h} : b = FirstPfn(g)
        BY <3>2, <3>5
      <4>2. ref_cnt'[b] = ref_cnt[b]
        BY <1>3, <3>4, <4>1 DEF TypeOK
      <4> QED BY <3>3, <3>6, <4>1, <4>2 DEF BlocksMatch
    <3>9. ~ (B[pfn].refs > 1)
      BY <1>4, <2>1
    <3> QED BY <3>7, <3>8, <3>9
  <2>2. CASE ref_cnt[pfn] # 1
    <3>1. PICK c \in Nat \ {0} : c = ref_cnt[pfn] - 1
      BY <1>3, <2>2
    <3>2. ref_cnt' = [ref_cnt EXCEPT ![pfn] = c] /\ bitmap' = bitmap
      BY <1>3, <2>2, <3>1 DEF DerefPage
    <3>3. Recounted(B, C, pfn, ref_cnt[pfn], c)
      BY <1>1, <1>2, <1>3, <3>1, <3>2, Recount
    <3>4. PICK s, k : B[pfn] = [size |-> s, refs |-> k] /\ k = ref_cnt[pfn]
      BY <3>3 DEF Recounted
    <3>5. [B[pfn] EXCEPT !.refs = k - 1] = [size |-> B[pfn].size, refs |-> c]
      BY <3>1, <3>4
    <3>6. B[pfn].refs = k /\ k > 1
      BY <1>3, <2>2, <3>4
    <3>7. [B EXCEPT ![pfn].refs = @ - 1] = [B EXCEPT ![pfn] = [B[pfn] EXCEPT !.refs = k - 1]]
      BY <3>6
    <3>8. C = [B EXCEPT ![pfn].refs = @ - 1]
      BY <3>3, <3>5, <3>7 DEF Recounted
    <3> QED BY <3>6, <3>8
  <2> QED BY <2>1, <2>2
<1>6. [b \in Bases |-> Block(b)] = B /\ ([b \in Bases |-> Block(b)])' = C
  BY <1>1, <1>2, BlocksAre
<1> QED BY <1>3, <1>5, <1>6 DEF Allocator!Drop, Allocator!Restrict

\* Allocated blocks are aligned and overlap no other, the last reference frees
\* the block that was allocated, and a request fails only when no block fits.
THEOREM Implements == Spec => AllocatorSpec
<1>1. Init => Allocator!Init
  <2> SUFFICES ASSUME Init PROVE Allocator!Init
    OBVIOUS
  <2>1. Bases = {} /\ halt = "no"
    BY DEF Init, Bases
  <2> QED BY <2>1 DEF Allocator!Init
<1>2. IInv /\ [Next]_vars => [Allocator!Next]_(Allocator!avars)
  <2> SUFFICES ASSUME IInv, [Next]_vars PROVE [Allocator!Next]_(Allocator!avars)
    OBVIOUS
  <2>1. ASSUME NEW n \in Requests \cup {1}, Alloc(n) PROVE Allocator!Next
    <3>1. \E b \in 0 .. SIZE - 1 : Allocator!Alloc(b, Need(n))
      BY <2>1, AllocMaps DEF Pfns
    <3>2. halt # "oom" /\ Need(n) \in {Need(m) : m \in Requests \cup {1}}
      BY <2>1 DEF Alloc
    <3> QED BY <3>1, <3>2 DEF Allocator!Next
  <2>2. CASE Reserve
    BY <2>1, <2>2 DEF Reserve
  <2>3. ASSUME NEW n \in Requests, AllocPages(n) PROVE Allocator!Next
    BY <2>1, <2>3 DEF AllocPages
  <2>4. ASSUME NEW n \in Requests, OutOfMemory(n) PROVE Allocator!Next
    <3>1. Allocator!Fail(Need(n))
      BY <2>4, FailMaps
    <3>2. halt # "oom" /\ Need(n) \in {Need(m) : m \in Requests \cup {1}}
      BY <2>4 DEF OutOfMemory
    <3> QED BY <3>1, <3>2 DEF Allocator!Next
  <2>5. ASSUME NEW pfn \in Pfns, FreePages(pfn) PROVE UNCHANGED Allocator!avars
    <3>1. halt' = halt /\ bitmap' = bitmap /\ ref_cnt' = ref_cnt
      BY <2>5 DEF FreePages
    <3>2. Bases' = Bases
      BY <3>1 DEF Bases
    <3> QED BY <3>1, <3>2, BlocksAre DEF Allocator!avars
  <2>6. ASSUME NEW pfn \in Pfns, RefPage(pfn) PROVE Allocator!Next
    <3>1. pfn \in DOMAIN [b \in Bases |-> Block(b)] /\ Allocator!Take(pfn) /\ halt # "oom"
      BY <2>6, TakeMaps DEF RefPage
    <3> QED BY <3>1 DEF Allocator!Next
  <2>7. ASSUME NEW pfn \in Pfns, DerefPage(pfn) PROVE Allocator!Next
    <3>1. pfn \in DOMAIN [b \in Bases |-> Block(b)] /\ Allocator!Drop(pfn) /\ halt # "oom"
      BY <2>7, DropMaps DEF DerefPage
    <3> QED BY <3>1 DEF Allocator!Next
  <2>8. CASE UNCHANGED vars
    <3>1. halt' = halt /\ bitmap' = bitmap /\ ref_cnt' = ref_cnt
      BY <2>8 DEF vars
    <3>2. Bases' = Bases
      BY <3>1 DEF Bases
    <3> QED BY <3>1, <3>2, BlocksAre DEF Allocator!avars
  <2> QED BY <2>2, <2>3, <2>4, <2>5, <2>6, <2>7, <2>8 DEF Next
<1> QED BY <1>1, <1>2, Invariance, PTL DEF Spec, AllocatorSpec, Allocator!Spec
=============================================================================
