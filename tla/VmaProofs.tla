----------------------------- MODULE VmaProofs ------------------------------
(***************************************************************************)
(* Proofs about Vma and PageTable, for any number of slots, programs,      *)
(* lengths, entries in a table and addresses in a page: the lists of areas *)
(* stay sound whatever is mapped and cut, the search that gives up early   *)
(* finds every area, page tables are changed in just the range asked for,  *)
(* the kernel stays mapped, and both implement layers of areas.            *)
(***************************************************************************)
EXTENDS Vma, WellFoundedInduction, TLAPS, FiniteSetTheorems, SequenceTheorems

-----------------------------------------------------------------------------
(* Numbers, quotients and digits.                                          *)

\* A non-empty set of natural numbers has a least element.
LEMMA NatMin ==
    ASSUME NEW S \in SUBSET Nat, S # {}
    PROVE  \E i \in S : \A j \in S : i <= j
<1>1. IsWellFoundedOn(OpToRel(<, Nat), Nat)
  BY NatLessThanWellFounded
<1>2. PICK x \in S : \A y \in S : ~ (<<y, x>> \in OpToRel(<, Nat))
  BY <1>1, WFMin
<1>3. \A y \in S : ~ (y < x)
  BY <1>2 DEF OpToRel
<1> QED BY <1>3

\* Induction: what holds of 0 and of the successor of whatever it holds of.
LEMMA NatByInduction ==
    ASSUME NEW T \in SUBSET Nat, 0 \in T, \A n \in T : n + 1 \in T
    PROVE  T = Nat
<1>1. ASSUME Nat \ T # {} PROVE FALSE
  <2>1. PICK i \in Nat \ T : \A j \in Nat \ T : i <= j
    BY <1>1, NatMin
  <2>2. i # 0 /\ i - 1 \in Nat /\ i - 1 \notin Nat \ T
    BY <2>1
  <2>3. (i - 1) + 1 \in T
    BY <2>2
  <2> QED BY <2>1, <2>3
<1> QED BY <1>1

\* Quotient and remainder.
LEMMA DivMod ==
    ASSUME NEW R \in Nat \ {0}, NEW p \in Int
    PROVE  /\ p \div R \in Int /\ p % R \in 0 .. R - 1
           /\ p = R * (p \div R) + (p % R)
  BY Z3

\* They are the only ones.
LEMMA DivUnique ==
    ASSUME NEW R \in Nat \ {0}, NEW p \in Int, NEW q \in Int, NEW r \in 0 .. R - 1, p = R * q + r
    PROVE  p \div R = q /\ p % R = r
<1>1. PICK a \in Int, b \in 0 .. R - 1 : a = p \div R /\ b = p % R /\ p = R * a + b
  BY DivMod
<1>2. ~ (a < q)
  <2> SUFFICES ASSUME a < q PROVE FALSE
    OBVIOUS
  <2>1. R * (a + 1) <= R * q
    BY Z3
  <2>2. R * (a + 1) = R * a + R
    BY Z3
  <2> QED BY <1>1, <2>1, <2>2, Z3
<1>3. ~ (q < a)
  <2> SUFFICES ASSUME q < a PROVE FALSE
    OBVIOUS
  <2>1. R * (q + 1) <= R * a
    BY Z3
  <2>2. R * (q + 1) = R * q + R
    BY Z3
  <2> QED BY <1>1, <2>1, <2>2, Z3
<1>4. a = q
  BY <1>2, <1>3
<1> QED BY <1>1, <1>4

\* Numbers are ordered as their digits are.
LEMMA DigitOrder ==
    ASSUME NEW R \in Nat \ {0}, NEW a \in Int, NEW b \in 0 .. R - 1,
           NEW c \in Int, NEW d \in 0 .. R - 1
    PROVE  R * a + b <= R * c + d <=> a < c \/ (a = c /\ b <= d)
<1>1. ASSUME a < c PROVE R * a + R <= R * c
  <2>1. R * (a + 1) <= R * c
    BY <1>1, Z3
  <2> QED BY <2>1, Z3
<1>2. ASSUME c < a PROVE R * c + R <= R * a
  <2>1. R * (c + 1) <= R * a
    BY <1>2, Z3
  <2> QED BY <2>1, Z3
<1>3. PICK x \in Int, y \in Int : x = R * a /\ y = R * c
  OBVIOUS
<1>4. (a < c => x + R <= y) /\ (c < a => y + R <= x) /\ (a = c => x = y)
  BY <1>1, <1>2, <1>3
<1> QED BY <1>3, <1>4

-----------------------------------------------------------------------------
(* Positions, sequences and recursion.                                     *)

\* FirstOf is the least element of a set of positions, if it has one.
LEMMA FirstIs ==
    ASSUME NEW n \in Nat, NEW S \in SUBSET (1 .. n)
    PROVE  LET k == FirstOf(S, n + 1) IN
           /\ k \in 1 .. n + 1 /\ (k \in S \/ (k = n + 1 /\ S = {}))
           /\ \A i \in 1 .. n : i < k => i \notin S
<1> DEFINE T == S \cup {n + 1}
<1>1. T \in SUBSET Nat /\ T # {}
  OBVIOUS
<1>2. PICK k \in T : \A j \in T : k <= j
  <2> HIDE DEF T
  <2> QED BY <1>1, NatMin
<1>3. \A x \in T : (\A y \in T : x <= y) => x = k
  BY <1>1, <1>2
<1>4. FirstOf(S, n + 1) = k
  <2>1. FirstOf(S, n + 1) = CHOOSE x \in T : \A y \in T : x <= y
    BY DEF FirstOf, Min
  <2> HIDE DEF T
  <2> QED BY <1>2, <1>3, <2>1
<1>5. k \in 1 .. n + 1 /\ (k \in S \/ (k = n + 1 /\ S = {})) /\ \A i \in 1 .. n : i < k => i \notin S
  BY <1>2
<1> QED BY <1>4, <1>5

\* A function on 1 .. n is a sequence of length n.
LEMMA AsSeq ==
    ASSUME NEW S, NEW n \in Nat, NEW f \in [1 .. n -> S]
    PROVE  f \in Seq(S) /\ Len(f) = n
BY SeqDef

\* What a recursion over 0 .. n computes.
Stepwise(f, n, first, step) ==
    /\ f[0] = first
    /\ \A k \in 1 .. n : f[k] = step[<<k, f[k - 1]>>]

\* A recursion over 0 .. n has a solution.
LEMMA StepwiseExists ==
    ASSUME NEW V, NEW first \in V, NEW n \in Nat, NEW step \in [(1 .. n) \X V -> V]
    PROVE  \E f \in [0 .. n -> V] : Stepwise(f, n, first, step)
<1> DEFINE Upto(f, m) == f[0] = first /\ \A k \in 1 .. n : k <= m => f[k] = step[<<k, f[k - 1]>>]
           S == {m \in Nat : \E f \in [0 .. n -> V] : Upto(f, m)}
<1>1. 0 \in S
  <2>1. [k \in 0 .. n |-> first] \in [0 .. n -> V] /\ Upto([k \in 0 .. n |-> first], 0)
    OBVIOUS
  <2> QED BY <2>1
<1>2. ASSUME NEW m \in S PROVE m + 1 \in S
  <2>1. PICK f \in [0 .. n -> V] : Upto(f, m)
    OBVIOUS
  <2>2. CASE m + 1 \in 1 .. n
    <3> DEFINE g == [f EXCEPT ![m + 1] = step[<<m + 1, f[m]>>]]
    <3>1. f[m] \in V /\ step[<<m + 1, f[m]>>] \in V
      BY <2>2
    <3>2. g \in [0 .. n -> V] /\ g[m + 1] = step[<<m + 1, f[m]>>]
      BY <2>2, <3>1
    <3>3. \A k \in 0 .. n : k # m + 1 => g[k] = f[k]
      OBVIOUS
    <3> HIDE DEF g
    <3>4. g[0] = first
      BY <2>1, <3>3
    <3>5. ASSUME NEW k \in 1 .. n, k <= m + 1 PROVE g[k] = step[<<k, g[k - 1]>>]
      <4>1. k - 1 \in 0 .. n /\ k - 1 # m + 1
        BY <3>5
      <4>2. g[k - 1] = f[k - 1]
        BY <3>3, <4>1
      <4>3. CASE k = m + 1
        BY <3>2, <4>2, <4>3
      <4>4. CASE k # m + 1
        <5>1. k \in 0 .. n /\ k <= m
          BY <3>5, <4>4
        <5> QED BY <2>1, <3>3, <4>2, <4>4, <5>1
      <4> QED BY <4>3, <4>4
    <3>6. Upto(g, m + 1) /\ m + 1 \in Nat
      BY <3>4, <3>5
    <3> HIDE DEF Upto
    <3> QED BY <3>2, <3>6
  <2>3. CASE m + 1 \notin 1 .. n
    <3>1. \A k \in 1 .. n : k <= m
      BY <2>3
    <3>2. Upto(f, m + 1)
      <4>1. f[0] = first /\ \A k \in 1 .. n : k <= m => f[k] = step[<<k, f[k - 1]>>]
        BY <2>1
      <4> HIDE DEF S
      <4> QED BY <3>1, <4>1
    <3>3. f \in [0 .. n -> V] /\ m + 1 \in Nat
      BY <2>1
    <3> HIDE DEF Upto
    <3> QED BY <3>2, <3>3
  <2> QED BY <2>2, <2>3
<1>3. S = Nat
  <2>1. S \in SUBSET Nat
    OBVIOUS
  <2> HIDE DEF S
  <2> QED BY <1>1, <1>2, <2>1, NatByInduction
<1>4. PICK f \in [0 .. n -> V] : Upto(f, n)
  BY <1>3
<1> QED BY <1>4 DEF Stepwise

-----------------------------------------------------------------------------
(* Lists of slots.                                                         *)

\* What a pointer holds: NULL and what nobody has written are no slots.
LEMMA LinkFacts ==
    /\ NR_VMA_SLOTS \in Nat \ {0} /\ Slots \subseteq Nat /\ 0 \in Slots
    /\ Nil \notin Slots /\ Garbage \notin Slots /\ Nil # Garbage
    /\ Slots \subseteq Links /\ Nil \in Links /\ Garbage \in Links
BY VmaAssumption DEF Slots, Links, Nil, Garbage

\* The n slots of L, each once, lie on the way from first, which ends at e.
Chained(next, first, L, n, e) ==
    /\ n \in Nat /\ L \in [1 .. n -> Slots]
    /\ \A i, j \in 1 .. n : L[i] = L[j] => i = j
    /\ first = IF n = 0 THEN e ELSE L[1]
    /\ \A k \in 1 .. n : next[L[k]] = IF k = n THEN e ELSE L[k + 1]

\* A list without repetitions has at most as many slots as there are.
LEMMA ChainShort ==
    ASSUME NEW next, NEW first, NEW L, NEW n, NEW e, Chained(next, first, L, n, e)
    PROVE  n <= NR_VMA_SLOTS
<1>1. n \in Nat /\ L \in [1 .. n -> Slots] /\ \A i, j \in 1 .. n : L[i] = L[j] => i = j
  BY DEF Chained
<1>2. IsFiniteSet(1 .. n) /\ Cardinality(1 .. n) = n
  BY <1>1, FS_Interval
<1>3. IsFiniteSet(Slots) /\ Cardinality(Slots) = NR_VMA_SLOTS
  <2>1. NR_VMA_SLOTS \in Nat \ {0}
    BY LinkFacts
  <2>2. 0 \in Int /\ NR_VMA_SLOTS - 1 \in Int /\ ~ (0 > NR_VMA_SLOTS - 1)
        /\ NR_VMA_SLOTS - 1 - 0 + 1 = NR_VMA_SLOTS
    BY <2>1
  <2>3. IsFiniteSet(0 .. NR_VMA_SLOTS - 1)
        /\ Cardinality(0 .. NR_VMA_SLOTS - 1) = NR_VMA_SLOTS - 1 - 0 + 1
    BY <2>2, FS_Interval, Zenon
  <2> QED BY <2>2, <2>3 DEF Slots
<1>4. ASSUME n > NR_VMA_SLOTS PROVE FALSE
  <2>1. Cardinality(Slots) < Cardinality(1 .. n)
    BY <1>2, <1>3, <1>4
  <2>2. PICK i, j \in 1 .. n : i # j /\ L[i] = L[j]
    BY <1>1, <1>2, <1>3, <2>1, FS_PigeonHole
  <2> QED BY <1>1, <2>2
<1> QED BY <1>1, <1>4, LinkFacts

\* The pointers met on the way along a list.
LEMMA WalkIs ==
    ASSUME NEW next, NEW first, NEW L, NEW n, NEW e \in {Nil, Garbage},
           Chained(next, first, L, n, e)
    PROVE  Walk(next, first) = [k \in 1 .. NR_VMA_SLOTS + 1 |->
                                   IF k <= n THEN L[k] ELSE IF k = n + 1 THEN e ELSE Nil]
<1> DEFINE D == 1 .. NR_VMA_SLOTS + 1
           behind == [s \in Links |-> IF s \in Slots THEN next[s] ELSE Nil]
           Is(f) == f = [k \in D |-> IF k = 1 THEN first ELSE behind[f[k - 1]]]
           g == [k \in D |-> IF k <= n THEN L[k] ELSE IF k = n + 1 THEN e ELSE Nil]
<1>0. n <= NR_VMA_SLOTS
  BY ChainShort
<1>1. n \in Nat /\ L \in [1 .. n -> Slots] /\ n <= NR_VMA_SLOTS /\ NR_VMA_SLOTS \in Nat
      /\ first = (IF n = 0 THEN e ELSE L[1])
      /\ \A k \in 1 .. n : next[L[k]] = IF k = n THEN e ELSE L[k + 1]
  BY <1>0, LinkFacts DEF Chained
<1>2. ASSUME NEW k \in D PROVE g[k] = IF k = 1 THEN first ELSE behind[g[k - 1]]
  <2>1. CASE k = 1
    BY <1>1, <2>1
  <2>2. CASE k # 1
    <3>1. k - 1 \in D
      BY <1>1, <2>2
    <3>2. CASE k <= n + 1
      <4>1. k - 1 \in 1 .. n /\ g[k - 1] = L[k - 1] /\ L[k - 1] \in Slots
        BY <1>1, <2>2, <3>1, <3>2
      <4>2. behind[g[k - 1]] = next[L[k - 1]]
        BY <4>1, LinkFacts
      <4>3. next[L[k - 1]] = IF k = n + 1 THEN e ELSE L[k]
        BY <1>1, <4>1
      <4> QED BY <1>1, <2>2, <3>2, <4>2, <4>3
    <3>3. CASE ~ (k <= n + 1)
      <4>1. g[k] = Nil /\ g[k - 1] \in {e, Nil}
        BY <1>1, <3>1, <3>3
      <4>2. behind[e] = Nil /\ behind[Nil] = Nil
        BY LinkFacts
      <4> QED BY <2>2, <4>1, <4>2
    <3> QED BY <3>2, <3>3
  <2> QED BY <2>1, <2>2
<1>3. Is(g)
  BY <1>2
<1>4. ASSUME NEW f, Is(f) PROVE f = g
  <2>1. \A k \in D : f[k] = IF k = 1 THEN first ELSE behind[f[k - 1]]
    BY <1>4
  <2> DEFINE T == {k \in Nat : k + 1 \in D => f[k + 1] = g[k + 1]}
  <2> HIDE DEF g, behind
  <2>2. 0 \in T
    BY <1>2, <2>1
  <2>3. ASSUME NEW k \in T PROVE k + 1 \in T
    <3>1. CASE (k + 1) + 1 \in D
      <4>1. k + 1 \in D /\ (k + 1) + 1 # 1 /\ ((k + 1) + 1) - 1 = k + 1
        BY <1>1, <3>1
      <4>2. f[(k + 1) + 1] = behind[f[k + 1]] /\ g[(k + 1) + 1] = behind[g[k + 1]]
        BY <1>2, <2>1, <3>1, <4>1
      <4> QED BY <4>1, <4>2
    <3>2. CASE (k + 1) + 1 \notin D
      BY <3>2
    <3> QED BY <3>1, <3>2
  <2>4. T = Nat
    <3>1. T \in SUBSET Nat
      OBVIOUS
    <3> HIDE DEF T
    <3> QED BY <2>2, <2>3, <3>1, NatByInduction
  <2>5. \A k \in D : f[k] = g[k]
    <3> SUFFICES ASSUME NEW k \in D PROVE f[k] = g[k]
      OBVIOUS
    <3>1. k - 1 \in Nat /\ (k - 1) + 1 = k
      BY <1>1
    <3>2. k - 1 \in T
      BY <2>4, <3>1
    <3> QED BY <3>1, <3>2
  <2>6. f = [k \in D |-> f[k]] /\ g = [k \in D |-> g[k]]
    BY <1>3, <1>4 DEF g
  <2> QED BY <2>5, <2>6
<1>5. Walk(next, first) = CHOOSE f : Is(f)
  BY DEF Walk
<1>6. Walk(next, first) = g
  <2> HIDE DEF Is, g
  <2> QED BY <1>3, <1>4, <1>5
<1> QED BY <1>6

\* ListFrom finds the list, and Walk ends as the list does.
LEMMA ListIs ==
    ASSUME NEW next, NEW first, NEW L, NEW n, NEW e \in {Nil, Garbage},
           Chained(next, first, L, n, e)
    PROVE  /\ ListFrom(next, first) = L /\ Len(L) = n /\ L \in Seq(Slots)
           /\ Garbage \notin Range(Walk(next, first)) <=> e = Nil
<1> DEFINE W == [k \in 1 .. NR_VMA_SLOTS + 1 |->
                    IF k <= n THEN L[k] ELSE IF k = n + 1 THEN e ELSE Nil]
           S == {k \in 1 .. NR_VMA_SLOTS + 1 : W[k] \notin Slots}
           N == NR_VMA_SLOTS + 1
<1>1. Walk(next, first) = W
  BY WalkIs
<1>0. n <= NR_VMA_SLOTS
  BY ChainShort
<1>2. n \in Nat /\ L \in [1 .. n -> Slots] /\ n <= NR_VMA_SLOTS /\ NR_VMA_SLOTS \in Nat
  BY <1>0, LinkFacts DEF Chained
<1>3. n + 1 \in S /\ \A k \in 1 .. n : k \notin S
  BY <1>2, LinkFacts
<1>4. FirstOf(S, N + 1) = n + 1
  <2>1. N \in Nat /\ S \in SUBSET (1 .. N)
    BY LinkFacts
  <2> HIDE DEF S, N
  <2> DEFINE k == FirstOf(S, N + 1)
  <2>2. k \in 1 .. N + 1 /\ (k \in S \/ (k = N + 1 /\ S = {}))
        /\ \A i \in 1 .. N : i < k => i \notin S
    BY <2>1, FirstIs
  <2> HIDE DEF k
  <2>3. k \in S /\ n + 1 \in 1 .. N
    BY <1>3, <2>1, <2>2
  <2>4. ~ (n + 1 < k) /\ ~ (k < n + 1)
    BY <1>2, <1>3, <2>1, <2>2, <2>3
  <2>5. k = n + 1
    BY <1>2, <2>1, <2>2, <2>4
  <2> QED BY <2>5 DEF k
<1>5. ListFrom(next, first) = SubSeq(W, 1, n)
  <2>1. ListFrom(next, first) = SubSeq(W, 1, FirstOf(S, N + 1) - 1)
    BY <1>1 DEF ListFrom
  <2>2. (n + 1) - 1 = n
    BY <1>2
  <2> HIDE DEF W, S, N
  <2> QED BY <1>4, <2>1, <2>2
<1>6. SubSeq(W, 1, n) = L
  <2>1. SubSeq(W, 1, n) = [i \in 1 .. n |-> W[i]]
    <3>1. W \in Seq(Links \cup Slots) /\ Len(W) = N
      <4>1. W \in [1 .. N -> Links \cup Slots]
        BY <1>2, LinkFacts
      <4>2. N \in Nat
        BY LinkFacts
      <4> HIDE DEF W, N
      <4> QED BY <4>1, <4>2, AsSeq
    <3> HIDE DEF W
    <3>2. SubSeq(W, 1, n) \in Seq(Links \cup Slots) /\ Len(SubSeq(W, 1, n)) = n
      BY <1>2, <3>1, LinkFacts, SubSeqProperties
    <3>3. \A i \in 1 .. n : SubSeq(W, 1, n)[i] = W[i]
      BY <1>2, <3>1, LinkFacts, SubSeqProperties
    <3>4. SubSeq(W, 1, n) = [i \in 1 .. n |-> SubSeq(W, 1, n)[i]]
      BY <3>2, LenProperties
    <3> QED BY <3>3, <3>4
  <2>2. \A i \in 1 .. n : W[i] = L[i]
    <3>1. \A i \in 1 .. n : i \in 1 .. NR_VMA_SLOTS + 1 /\ i <= n
      BY <1>2
    <3> QED BY <3>1
  <2> HIDE DEF W
  <2> QED BY <1>2, <2>1, <2>2
<1>7. Garbage \notin Range(W) <=> e = Nil
  <2>1. Range(W) = {W[k] : k \in 1 .. N}
    BY DEF Range
  <2>2. W[n + 1] = e /\ \A k \in 1 .. N : W[k] \in Slots \cup {e, Nil}
    <3>1. n + 1 \in 1 .. NR_VMA_SLOTS + 1 /\ ~ (n + 1 <= n)
      BY <1>2
    <3>2. W[n + 1] = e
      BY <3>1
    <3>3. ASSUME NEW k \in 1 .. N PROVE W[k] \in Slots \cup {e, Nil}
      <4>1. k <= n => k \in 1 .. n
        BY <1>2
      <4> QED BY <1>2, <4>1
    <3> QED BY <3>2, <3>3
  <2>3. n + 1 \in 1 .. N
    BY <1>2, LinkFacts
  <2> HIDE DEF W, N
  <2> QED BY <2>1, <2>2, <2>3, LinkFacts
<1> QED BY <1>1, <1>2, <1>5, <1>6, <1>7, AsSeq

-----------------------------------------------------------------------------
(* Surgery on lists.                                                       *)

\* The list with a slot after the first k.
Inserted(L, n, k, vma) ==
    [i \in 1 .. n + 1 |-> IF i <= k THEN L[i] ELSE IF i = k + 1 THEN vma ELSE L[i - 1]]

\* The list without its slot at position p.
Without(L, n, p) == [i \in 1 .. n - 1 |-> IF i < p THEN L[i] ELSE L[i + 1]]

\* The links that agree with next in the other direction.
Backward(prev, L, n) == \A k \in 1 .. n : prev[L[k]] = IF k = 1 THEN Nil ELSE L[k - 1]

Sorted(start, L, n) == \A i, k \in 1 .. n : i <= k => start[L[i]] <= start[L[k]]

\* Links that are the same at the slots of a list leave the list as it is.
LEMMA ChainSame ==
    ASSUME NEW next, NEW next2, NEW first, NEW L, NEW n, NEW e,
           Chained(next, first, L, n, e), \A k \in 1 .. n : next2[L[k]] = next[L[k]]
    PROVE  Chained(next2, first, L, n, e)
BY DEF Chained

\* A slot in front of a list.
LEMMA ChainPush ==
    ASSUME NEW next, NEW next2, NEW first, NEW L, NEW n, NEW e, NEW vma \in Slots,
           Chained(next, first, L, n, e), \A k \in 1 .. n : L[k] # vma,
           \A k \in 1 .. n : next2[L[k]] = next[L[k]], next2[vma] = first
    PROVE  Chained(next2, vma, Inserted(L, n, 0, vma), n + 1, e)
<1> DEFINE M == [i \in 1 .. n + 1 |-> IF i = 1 THEN vma ELSE L[i - 1]]
<1>1. n \in Nat /\ L \in [1 .. n -> Slots]
      /\ (\A i, j \in 1 .. n : L[i] = L[j] => i = j)
      /\ first = (IF n = 0 THEN e ELSE L[1])
      /\ \A k \in 1 .. n : next[L[k]] = IF k = n THEN e ELSE L[k + 1]
  BY DEF Chained
<1>2. Inserted(L, n, 0, vma) = M
  <2>1. \A i \in 1 .. n + 1 : ~ (i <= 0) /\ (i = 0 + 1 <=> i = 1)
    BY <1>1
  <2> QED BY <2>1 DEF Inserted
<1>3. \A i \in 1 .. n + 1 : i # 1 => i - 1 \in 1 .. n
  BY <1>1
<1>4. M \in [1 .. n + 1 -> Slots] /\ M[1] = vma
  BY <1>1, <1>3
<1>5. \A i \in 1 .. n + 1 : i # 1 => M[i] = L[i - 1]
  OBVIOUS
<1> HIDE DEF M
<1>6. ASSUME NEW i \in 1 .. n + 1, NEW j \in 1 .. n + 1, M[i] = M[j] PROVE i = j
  <2>1. i # 1 => M[i] # vma
    BY <1>3, <1>5
  <2>2. j # 1 => M[j] # vma
    BY <1>3, <1>5
  <2>3. i # 1 /\ j # 1 => i - 1 = j - 1
    BY <1>1, <1>3, <1>5, <1>6
  <2> QED BY <1>1, <1>4, <1>6, <2>1, <2>2, <2>3
<1>7. ASSUME NEW k \in 1 .. n + 1
      PROVE  next2[M[k]] = IF k = n + 1 THEN e ELSE M[k + 1]
  <2>1. k # n + 1 => k + 1 \in 1 .. n + 1 /\ k + 1 # 1 /\ M[k + 1] = L[k]
    BY <1>1, <1>5
  <2>2. CASE k = 1
    BY <1>1, <1>4, <2>1, <2>2
  <2>3. CASE k # 1
    <3>1. M[k] = L[k - 1] /\ k - 1 \in 1 .. n
      BY <1>3, <1>5, <2>3
    <3>2. next2[M[k]] = IF k - 1 = n THEN e ELSE L[(k - 1) + 1]
      BY <1>1, <3>1
    <3>3. (k - 1) + 1 = k /\ (k - 1 = n <=> k = n + 1)
      BY <1>1
    <3> QED BY <2>1, <3>2, <3>3
  <2> QED BY <2>2, <2>3
<1>8. Chained(next2, vma, M, n + 1, e)
  BY <1>1, <1>4, <1>6, <1>7 DEF Chained
<1> QED BY <1>2, <1>8

\* A list without its first slot.
LEMMA ChainPop ==
    ASSUME NEW next, NEW first, NEW L, NEW n, NEW e,
           Chained(next, first, L, n, e), n # 0
    PROVE  Chained(next, next[first], Without(L, n, 1), n - 1, e)
<1> DEFINE M == [i \in 1 .. n - 1 |-> L[i + 1]]
<1>1. n \in Nat \ {0} /\ L \in [1 .. n -> Slots]
      /\ (\A i, j \in 1 .. n : L[i] = L[j] => i = j)
      /\ first = L[1]
      /\ \A k \in 1 .. n : next[L[k]] = IF k = n THEN e ELSE L[k + 1]
  BY DEF Chained
<1>2. Without(L, n, 1) = M
  <2>1. \A i \in 1 .. n - 1 : ~ (i < 1)
    BY <1>1
  <2> QED BY <2>1 DEF Without
<1>3. \A i \in 1 .. n - 1 : i + 1 \in 1 .. n /\ i \in 1 .. n
  BY <1>1
<1>4. M \in [1 .. n - 1 -> Slots] /\ \A i \in 1 .. n - 1 : M[i] = L[i + 1]
  BY <1>1, <1>3
<1> HIDE DEF M
<1>5. \A i, j \in 1 .. n - 1 : M[i] = M[j] => i = j
  BY <1>1, <1>3, <1>4
<1>6. next[first] = IF n - 1 = 0 THEN e ELSE M[1]
  <2>1. next[first] = IF 1 = n THEN e ELSE L[1 + 1]
    BY <1>1
  <2>2. n - 1 # 0 => M[1] = L[1 + 1]
    BY <1>1, <1>4
  <2> QED BY <1>1, <2>1, <2>2
<1>7. ASSUME NEW k \in 1 .. n - 1
      PROVE  next[M[k]] = IF k = n - 1 THEN e ELSE M[k + 1]
  <2>1. next[M[k]] = IF k + 1 = n THEN e ELSE L[(k + 1) + 1]
    BY <1>1, <1>3, <1>4
  <2>2. k # n - 1 => k + 1 \in 1 .. n - 1
    BY <1>1
  <2> QED BY <1>1, <1>4, <2>1, <2>2
<1>8. n - 1 \in Nat
  BY <1>1
<1> QED BY <1>2, <1>4, <1>5, <1>6, <1>7, <1>8 DEF Chained

\* M has vma after the first k slots of L.
IsInserted(M, L, n, k, vma) ==
    /\ M \in [1 .. n + 1 -> Slots]
    /\ \A i \in 1 .. n + 1 : i <= k => i \in 1 .. n /\ M[i] = L[i]
    /\ M[k + 1] = vma
    /\ \A i \in 1 .. n + 1 : i > k + 1 => i - 1 \in 1 .. n /\ M[i] = L[i - 1]
    /\ \A i, j \in 1 .. n + 1 : M[i] = M[j] => i = j

\* What an insertion yields.
LEMMA InsertedFacts ==
    ASSUME NEW n \in Nat, NEW L \in [1 .. n -> Slots], NEW vma \in Slots, NEW k \in 0 .. n,
           \A i, j \in 1 .. n : L[i] = L[j] => i = j, \A i \in 1 .. n : L[i] # vma
    PROVE  IsInserted(Inserted(L, n, k, vma), L, n, k, vma)
<1> DEFINE M == Inserted(L, n, k, vma)
<1>1. \A i \in 1 .. n + 1 : i <= k => i \in 1 .. n
  OBVIOUS
<1>2. \A i \in 1 .. n + 1 : ~ (i <= k) /\ i # k + 1 => i - 1 \in 1 .. n /\ i > k + 1
  OBVIOUS
<1>3. \A i \in 1 .. n + 1 : i > k + 1 => ~ (i <= k) /\ i # k + 1
  OBVIOUS
<1>4. \A i \in 1 .. n + 1 :
         M[i] = IF i <= k THEN L[i] ELSE IF i = k + 1 THEN vma ELSE L[i - 1]
  BY DEF Inserted
<1>5. M \in [1 .. n + 1 -> Slots]
  <2>1. M = [i \in 1 .. n + 1 |-> M[i]]
    BY DEF Inserted
  <2>2. \A i \in 1 .. n + 1 : M[i] \in Slots
    <3> HIDE DEF M
    <3> QED BY <1>1, <1>2, <1>4
  <2> HIDE DEF M
  <2> QED BY <2>1, <2>2
<1>6. M[k + 1] = vma
  <2>1. k + 1 \in 1 .. n + 1 /\ ~ (k + 1 <= k)
    OBVIOUS
  <2> HIDE DEF M
  <2> QED BY <1>4, <2>1
<1> HIDE DEF M
<1>7. ASSUME NEW i \in 1 .. n + 1, NEW j \in 1 .. n + 1, M[i] = M[j] PROVE i = j
  <2> DEFINE At(x) == IF x <= k THEN x ELSE x - 1
  <2>1. \A x \in 1 .. n + 1 : x # k + 1 => At(x) \in 1 .. n /\ M[x] = L[At(x)]
    BY <1>1, <1>2, <1>4
  <2>2. i # k + 1 => M[i] # vma
    BY <2>1
  <2>3. j # k + 1 => M[j] # vma
    BY <2>1
  <2>4. CASE i = k + 1 \/ j = k + 1
    BY <1>6, <1>7, <2>2, <2>3, <2>4
  <2>5. CASE i # k + 1 /\ j # k + 1
    <3>1. At(i) = At(j)
      BY <1>7, <2>1, <2>5
    <3> QED BY <2>5, <3>1
  <2> QED BY <2>4, <2>5
<1>8. \A i \in 1 .. n + 1 : i <= k => i \in 1 .. n /\ M[i] = L[i]
  BY <1>1, <1>4
<1>9. \A i \in 1 .. n + 1 : i > k + 1 => i - 1 \in 1 .. n /\ M[i] = L[i - 1]
  BY <1>2, <1>3, <1>4
<1> QED BY <1>5, <1>6, <1>7, <1>8, <1>9 DEF M, IsInserted

\* M has the slots of L but for the one at position p.
IsWithout(M, L, n, p) ==
    /\ n - 1 \in Nat /\ M \in [1 .. n - 1 -> Slots]
    /\ \A i \in 1 .. n - 1 : i < p => i \in 1 .. n /\ M[i] = L[i]
    /\ \A i \in 1 .. n - 1 : ~ (i < p) => i + 1 \in 1 .. n /\ M[i] = L[i + 1]
    /\ \A i \in 1 .. n - 1 : M[i] # L[p]
    /\ \A i, j \in 1 .. n - 1 : M[i] = M[j] => i = j
    /\ \A i \in 1 .. n : i # p => \E j \in 1 .. n - 1 : M[j] = L[i]

\* What a removal yields.
LEMMA WithoutFacts ==
    ASSUME NEW n \in Nat, NEW L \in [1 .. n -> Slots], NEW p \in 1 .. n,
           \A i, j \in 1 .. n : L[i] = L[j] => i = j
    PROVE  IsWithout(Without(L, n, p), L, n, p)
<1> DEFINE M == Without(L, n, p)
           At(x) == IF x < p THEN x ELSE x + 1
<1>1. \A x \in 1 .. n - 1 : At(x) \in 1 .. n /\ At(x) # p
  OBVIOUS
<1>2. \A x, y \in 1 .. n - 1 : At(x) = At(y) => x = y
  OBVIOUS
<1>3. M = [x \in 1 .. n - 1 |-> L[At(x)]]
  <2>1. \A x \in 1 .. n - 1 : L[At(x)] = IF x < p THEN L[x] ELSE L[x + 1]
    OBVIOUS
  <2> HIDE DEF At
  <2> QED BY <2>1 DEF Without
<1> HIDE DEF M
<1>4. M \in [1 .. n - 1 -> Slots] /\ \A x \in 1 .. n - 1 : M[x] = L[At(x)]
  <2> HIDE DEF At
  <2> QED BY <1>1, <1>3
<1>5. \A x \in 1 .. n - 1 : M[x] # L[p]
  <2> HIDE DEF At
  <2> QED BY <1>1, <1>4
<1>6. \A x, y \in 1 .. n - 1 : M[x] = M[y] => x = y
  <2> HIDE DEF At
  <2> QED BY <1>1, <1>2, <1>4
<1>7. \A x \in 1 .. n - 1 : x < p => x \in 1 .. n /\ M[x] = L[x]
  BY <1>4
<1>8. \A x \in 1 .. n - 1 : ~ (x < p) => x + 1 \in 1 .. n /\ M[x] = L[x + 1]
  BY <1>4
<1>9. ASSUME NEW i \in 1 .. n, i # p PROVE \E j \in 1 .. n - 1 : M[j] = L[i]
  <2> DEFINE j == IF i < p THEN i ELSE i - 1
  <2>1. j \in 1 .. n - 1 /\ At(j) = i
    BY <1>9
  <2> HIDE DEF j, At
  <2> QED BY <1>4, <2>1
<1>10. n - 1 \in Nat
  OBVIOUS
<1> QED BY <1>4, <1>5, <1>6, <1>7, <1>8, <1>9, <1>10 DEF M, IsWithout

\* The neighbours of a slot that goes after the first k of a list.
LeftOf(L, k) == IF k > 0 THEN L[k] ELSE Nil
RightOf(L, n, k) == IF k < n THEN L[k + 1] ELSE Nil

\* Inserting a slot into a list, forwards.
LEMMA ChainInsert ==
    ASSUME NEW next, NEW first, NEW L, NEW n, NEW vma \in Slots, NEW k \in 0 .. n,
           Chained(next, first, L, n, Nil), \A i \in 1 .. n : L[i] # vma
    PROVE  Chained([s \in Slots |-> IF s = vma THEN RightOf(L, n, k)
                                    ELSE IF s = LeftOf(L, k) THEN vma ELSE next[s]],
                   IF LeftOf(L, k) = Nil THEN vma ELSE first,
                   Inserted(L, n, k, vma), n + 1, Nil)
<1> DEFINE M == Inserted(L, n, k, vma)
           next2 == [s \in Slots |-> IF s = vma THEN RightOf(L, n, k)
                                     ELSE IF s = LeftOf(L, k) THEN vma ELSE next[s]]
           first2 == IF LeftOf(L, k) = Nil THEN vma ELSE first
<1>1. n \in Nat /\ L \in [1 .. n -> Slots]
      /\ (\A i, j \in 1 .. n : L[i] = L[j] => i = j)
      /\ first = (IF n = 0 THEN Nil ELSE L[1])
      /\ \A i \in 1 .. n : next[L[i]] = IF i = n THEN Nil ELSE L[i + 1]
  BY DEF Chained
<1>0. IsInserted(M, L, n, k, vma)
  BY <1>1, InsertedFacts
<1> HIDE DEF M
<1>2. /\ M \in [1 .. n + 1 -> Slots]
      /\ \A i \in 1 .. n + 1 : i <= k => i \in 1 .. n /\ M[i] = L[i]
      /\ M[k + 1] = vma
      /\ \A i \in 1 .. n + 1 : i > k + 1 => i - 1 \in 1 .. n /\ M[i] = L[i - 1]
      /\ \A i, j \in 1 .. n + 1 : M[i] = M[j] => i = j
  BY <1>0 DEF IsInserted
<1>3. first2 = M[1] /\ n + 1 \in Nat
  <2>1. CASE k = 0
    BY <1>1, <1>2, <2>1 DEF LeftOf
  <2>2. CASE k > 0
    <3>1. k \in 1 .. n /\ 1 \in 1 .. n + 1 /\ L[k] \in Slots
      BY <1>1, <2>2
    <3>2. LeftOf(L, k) # Nil /\ M[1] = L[1]
      BY <1>2, <2>2, <3>1, LinkFacts DEF LeftOf
    <3> QED BY <1>1, <3>1, <3>2
  <2> QED BY <2>1, <2>2
<1>4. ASSUME NEW i \in 1 .. n + 1
      PROVE  next2[M[i]] = IF i = n + 1 THEN Nil ELSE M[i + 1]
  <2>0. next2[M[i]] = IF M[i] = vma THEN RightOf(L, n, k)
                      ELSE IF M[i] = LeftOf(L, k) THEN vma ELSE next[M[i]]
    BY <1>2
  <2> HIDE DEF next2
  <2>1. CASE i = k + 1
    <3>1. next2[M[i]] = RightOf(L, n, k)
      BY <1>2, <2>0, <2>1
    <3>2. k < n => M[i + 1] = L[k + 1]
      <4>1. k < n => i + 1 \in 1 .. n + 1 /\ i + 1 > k + 1 /\ (i + 1) - 1 = k + 1
        BY <1>1, <2>1
      <4> QED BY <1>2, <4>1
    <3> QED BY <1>1, <2>1, <3>1, <3>2 DEF RightOf
  <2>2. CASE i <= k
    <3>1. i \in 1 .. n /\ M[i] = L[i] /\ L[i] # vma /\ i + 1 \in 1 .. n + 1 /\ k \in 1 .. n
          /\ LeftOf(L, k) = L[k]
      BY <1>1, <1>2, <2>2 DEF LeftOf
    <3>2. CASE i = k
      BY <1>1, <1>2, <2>0, <3>1, <3>2
    <3>3. CASE i # k
      <4>1. i + 1 <= k /\ i # n
        BY <1>1, <2>2, <3>3
      <4>2. M[i + 1] = L[i + 1]
        BY <1>2, <3>1, <4>1
      <4>3. L[i] # L[k]
        BY <1>1, <3>1, <3>3
      <4>4. next2[M[i]] = L[i + 1]
        BY <1>1, <2>0, <3>1, <4>1, <4>3
      <4> QED BY <1>1, <3>1, <4>1, <4>2, <4>4
    <3> QED BY <3>2, <3>3
  <2>3. CASE i > k + 1
    <3>1. i - 1 \in 1 .. n /\ M[i] = L[i - 1] /\ L[i - 1] # vma
      BY <1>1, <1>2, <2>3
    <3>2. L[i - 1] # LeftOf(L, k)
      <4>1. k > 0 => k \in 1 .. n /\ i - 1 # k
        BY <1>1, <2>3
      <4>2. L[i - 1] \in Slots
        BY <1>1, <3>1
      <4> QED BY <1>1, <3>1, <4>1, <4>2, LinkFacts DEF LeftOf
    <3>3. next2[M[i]] = IF i - 1 = n THEN Nil ELSE L[(i - 1) + 1]
      BY <1>1, <2>0, <3>1, <3>2
    <3>4. i # n + 1 => M[i + 1] = L[(i - 1) + 1]
      <4>1. i # n + 1 => i + 1 \in 1 .. n + 1 /\ i + 1 > k + 1 /\ (i + 1) - 1 = (i - 1) + 1
        BY <1>1, <2>3
      <4> QED BY <1>2, <4>1
    <3>5. i - 1 = n <=> i = n + 1
      BY <1>1
    <3> QED BY <3>3, <3>4, <3>5
  <2> QED BY <1>1, <2>1, <2>2, <2>3
<1> HIDE DEF next2, first2
<1>5. Chained(next2, first2, M, n + 1, Nil)
  BY <1>1, <1>2, <1>3, <1>4 DEF Chained
<1> QED BY <1>5 DEF next2, first2, M

\* Inserting a slot into a list, backwards.
LEMMA BackInsert ==
    ASSUME NEW next, NEW first, NEW prev, NEW L, NEW n, NEW vma \in Slots, NEW k \in 0 .. n,
           Chained(next, first, L, n, Nil), Backward(prev, L, n), \A i \in 1 .. n : L[i] # vma
    PROVE  Backward([s \in Slots |-> IF s = vma THEN LeftOf(L, k)
                                     ELSE IF s = RightOf(L, n, k) THEN vma ELSE prev[s]],
                    Inserted(L, n, k, vma), n + 1)
<1> DEFINE M == Inserted(L, n, k, vma)
           prev2 == [s \in Slots |-> IF s = vma THEN LeftOf(L, k)
                                     ELSE IF s = RightOf(L, n, k) THEN vma ELSE prev[s]]
<1>1. n \in Nat /\ L \in [1 .. n -> Slots]
      /\ (\A i, j \in 1 .. n : L[i] = L[j] => i = j)
      /\ \A i \in 1 .. n : prev[L[i]] = IF i = 1 THEN Nil ELSE L[i - 1]
  BY DEF Chained, Backward
<1>0. IsInserted(M, L, n, k, vma)
  BY <1>1, InsertedFacts
<1> HIDE DEF M
<1>2. /\ M \in [1 .. n + 1 -> Slots]
      /\ \A i \in 1 .. n + 1 : i <= k => i \in 1 .. n /\ M[i] = L[i]
      /\ M[k + 1] = vma
      /\ \A i \in 1 .. n + 1 : i > k + 1 => i - 1 \in 1 .. n /\ M[i] = L[i - 1]
  BY <1>0 DEF IsInserted
<1>3. ASSUME NEW i \in 1 .. n + 1
      PROVE  prev2[M[i]] = IF i = 1 THEN Nil ELSE M[i - 1]
  <2>0. prev2[M[i]] = IF M[i] = vma THEN LeftOf(L, k)
                      ELSE IF M[i] = RightOf(L, n, k) THEN vma ELSE prev[M[i]]
    BY <1>2
  <2> HIDE DEF prev2
  <2>1. CASE i = k + 1
    <3>1. prev2[M[i]] = LeftOf(L, k)
      BY <1>2, <2>0, <2>1
    <3>2. k > 0 => M[i - 1] = L[k]
      <4>1. k > 0 => i - 1 \in 1 .. n + 1 /\ i - 1 = k
        BY <1>1, <2>1
      <4> QED BY <1>2, <4>1
    <3> QED BY <1>1, <2>1, <3>1, <3>2 DEF LeftOf
  <2>2. CASE i <= k
    <3>1. i \in 1 .. n /\ M[i] = L[i] /\ L[i] # vma
      BY <1>1, <1>2, <2>2
    <3>2. L[i] # RightOf(L, n, k)
      <4>1. k < n => k + 1 \in 1 .. n /\ k + 1 # i
        BY <1>1, <2>2
      <4>2. L[i] \in Slots
        BY <1>1, <3>1
      <4> QED BY <1>1, <3>1, <4>1, <4>2, LinkFacts DEF RightOf
    <3>3. prev2[M[i]] = IF i = 1 THEN Nil ELSE L[i - 1]
      BY <1>1, <2>0, <3>1, <3>2
    <3>4. i # 1 => i - 1 \in 1 .. n + 1 /\ i - 1 <= k
      BY <1>1, <2>2
    <3> QED BY <1>2, <3>3, <3>4
  <2>3. CASE i > k + 1
    <3>1. i - 1 \in 1 .. n /\ M[i] = L[i - 1] /\ L[i - 1] # vma /\ k < n /\ k + 1 \in 1 .. n
          /\ RightOf(L, n, k) = L[k + 1]
      BY <1>1, <1>2, <2>3 DEF RightOf
    <3>2. CASE i - 1 = k + 1
      <4>1. prev2[M[i]] = vma /\ i # 1
        BY <1>1, <2>0, <2>3, <3>1, <3>2
      <4> QED BY <1>2, <3>2, <4>1
    <3>3. CASE i - 1 # k + 1
      <4>1. L[i - 1] # L[k + 1]
        BY <1>1, <3>1, <3>3
      <4>2. prev2[M[i]] = IF i - 1 = 1 THEN Nil ELSE L[(i - 1) - 1]
        BY <1>1, <2>0, <3>1, <4>1
      <4>3. i - 1 \in 1 .. n + 1 /\ i - 1 > k + 1 /\ i # 1 /\ i - 1 # 1
        BY <1>1, <2>3, <3>1, <3>3
      <4>4. M[i - 1] = L[(i - 1) - 1]
        BY <1>2, <4>3
      <4> QED BY <4>2, <4>3, <4>4
    <3> QED BY <3>2, <3>3
  <2> QED BY <1>1, <2>1, <2>2, <2>3
<1> HIDE DEF prev2
<1>4. Backward(prev2, M, n + 1)
  BY <1>3 DEF Backward
<1> QED BY <1>4 DEF prev2, M

\* A sorted list stays sorted when an area goes before the first that starts
\* beyond it.
LEMMA SortedInsert ==
    ASSUME NEW n \in Nat, NEW L \in [1 .. n -> Slots], NEW vma \in Slots, NEW k \in 0 .. n,
           \A i, j \in 1 .. n : L[i] = L[j] => i = j, \A i \in 1 .. n : L[i] # vma,
           NEW start, NEW start2, Sorted(start, L, n),
           \A i \in 1 .. n : start[L[i]] \in Nat, start2[vma] \in Nat,
           \A i \in 1 .. n : start2[L[i]] = start[L[i]],
           \A i \in 1 .. n : IF i <= k THEN start[L[i]] <= start2[vma]
                             ELSE start2[vma] < start[L[i]]
    PROVE  Sorted(start2, Inserted(L, n, k, vma), n + 1)
<1> DEFINE M == Inserted(L, n, k, vma)
<1>0. IsInserted(M, L, n, k, vma)
  BY InsertedFacts
<1> HIDE DEF M
<1>1. \A i \in 1 .. n + 1 : \/ i <= k /\ i \in 1 .. n /\ M[i] = L[i]
                            \/ i = k + 1 /\ M[i] = vma
                            \/ i > k + 1 /\ i - 1 \in 1 .. n /\ M[i] = L[i - 1]
  BY <1>0 DEF IsInserted
<1>2. ASSUME NEW i \in 1 .. n + 1, NEW j \in 1 .. n + 1, i <= j
      PROVE  start2[M[i]] <= start2[M[j]]
  <2>1. CASE i = k + 1
    <3>1. j = k + 1 \/ (j > k + 1 /\ j - 1 \in 1 .. n /\ ~ (j - 1 <= k))
      BY <1>1, <1>2, <2>1
    <3> QED BY <1>1, <2>1, <3>1
  <2>2. CASE i <= k
    <3>1. CASE j <= k
      BY <1>1, <1>2, <2>2, <3>1 DEF Sorted
    <3>2. CASE j = k + 1
      BY <1>1, <2>2, <3>2
    <3>3. CASE j > k + 1
      <4>1. i \in 1 .. n /\ j - 1 \in 1 .. n /\ i <= j - 1 /\ M[i] = L[i] /\ M[j] = L[j - 1]
        BY <1>1, <2>2, <3>3
      <4> QED BY <4>1 DEF Sorted
    <3> QED BY <3>1, <3>2, <3>3
  <2>3. CASE i > k + 1
    <3>1. i - 1 \in 1 .. n /\ j - 1 \in 1 .. n /\ i - 1 <= j - 1
          /\ M[i] = L[i - 1] /\ M[j] = L[j - 1]
      BY <1>1, <1>2, <2>3
    <3> QED BY <3>1 DEF Sorted
  <2> QED BY <2>1, <2>2, <2>3
<1>3. Sorted(start2, M, n + 1)
  BY <1>2 DEF Sorted
<1> QED BY <1>3 DEF M

\* Removing a slot from a list, forwards.
LEMMA ChainRemove ==
    ASSUME NEW next, NEW next2, NEW first, NEW prev, NEW L, NEW n, NEW p \in 1 .. n,
           Chained(next, first, L, n, Nil), Backward(prev, L, n),
           \A s \in Slots : s # L[p] =>
               next2[s] = IF s = prev[L[p]] THEN next[L[p]] ELSE next[s]
    PROVE  Chained(next2, IF L[p] = first THEN next[L[p]] ELSE first,
                   Without(L, n, p), n - 1, Nil)
<1> DEFINE M == Without(L, n, p)
           first2 == IF L[p] = first THEN next[L[p]] ELSE first
<1>1. n \in Nat /\ L \in [1 .. n -> Slots]
      /\ (\A i, j \in 1 .. n : L[i] = L[j] => i = j)
      /\ first = L[1]
      /\ (\A i \in 1 .. n : next[L[i]] = IF i = n THEN Nil ELSE L[i + 1])
      /\ \A i \in 1 .. n : prev[L[i]] = IF i = 1 THEN Nil ELSE L[i - 1]
  BY DEF Chained, Backward
<1>0. IsWithout(M, L, n, p)
  BY <1>1, WithoutFacts
<1> HIDE DEF M
<1>2. /\ n - 1 \in Nat /\ M \in [1 .. n - 1 -> Slots]
      /\ \A i \in 1 .. n - 1 : i < p => i \in 1 .. n /\ M[i] = L[i]
      /\ \A i \in 1 .. n - 1 : ~ (i < p) => i + 1 \in 1 .. n /\ M[i] = L[i + 1]
      /\ \A i \in 1 .. n - 1 : M[i] # L[p]
      /\ \A i, j \in 1 .. n - 1 : M[i] = M[j] => i = j
  BY <1>0 DEF IsWithout
<1>3. first2 = IF n - 1 = 0 THEN Nil ELSE M[1]
  <2>1. 1 \in 1 .. n
    BY <1>1
  <2>2. L[p] = first <=> p = 1
    BY <1>1, <2>1
  <2>3. CASE p = 1
    <3>1. n - 1 # 0 => 1 \in 1 .. n - 1 /\ ~ (1 < p) /\ n # 1
      BY <1>1, <2>3
    <3> QED BY <1>1, <1>2, <2>2, <2>3, <3>1
  <2>4. CASE p # 1
    <3>1. n - 1 # 0 /\ 1 \in 1 .. n - 1 /\ 1 < p
      BY <1>1, <2>4
    <3> QED BY <1>1, <1>2, <2>2, <2>4, <3>1
  <2> QED BY <2>3, <2>4
<1>4. ASSUME NEW i \in 1 .. n - 1
      PROVE  next2[M[i]] = IF i = n - 1 THEN Nil ELSE M[i + 1]
  <2>0. M[i] \in Slots /\ M[i] # L[p]
    BY <1>2
  <2>1. next2[M[i]] = IF M[i] = prev[L[p]] THEN next[L[p]] ELSE next[M[i]]
    BY <2>0
  <2>2. i # n - 1 => i + 1 \in 1 .. n - 1
    BY <1>1
  <2>3. CASE i < p
    <3>1. i \in 1 .. n /\ M[i] = L[i]
      BY <1>2, <2>3
    <3>2. CASE i = p - 1
      <4>1. p # 1 /\ M[i] = prev[L[p]] /\ next2[M[i]] = next[L[p]]
        BY <1>1, <2>1, <3>1, <3>2
      <4>2. i # n - 1 => ~ (i + 1 < p) /\ M[i + 1] = L[(i + 1) + 1] /\ i + 1 = p
        BY <1>2, <2>2, <3>2
      <4>3. i = n - 1 <=> p = n
        BY <1>1, <3>2
      <4> QED BY <1>1, <4>1, <4>2, <4>3
    <3>3. CASE i # p - 1
      <4>1. p # 1 => p - 1 \in 1 .. n
        BY <1>1
      <4>2. M[i] # prev[L[p]]
        BY <1>1, <2>0, <3>1, <3>3, <4>1, LinkFacts
      <4>3. i # n /\ next2[M[i]] = L[i + 1]
        BY <1>1, <2>1, <3>1, <4>2
      <4>4. i + 1 < p /\ i # n - 1
        BY <1>1, <2>3, <3>3
      <4> QED BY <1>2, <2>2, <4>3, <4>4
    <3> QED BY <3>2, <3>3
  <2>4. CASE ~ (i < p)
    <3>1. i + 1 \in 1 .. n /\ M[i] = L[i + 1]
      BY <1>2, <2>4
    <3>2. p # 1 => p - 1 \in 1 .. n /\ p - 1 # i + 1
      BY <1>1, <2>4
    <3>3. M[i] # prev[L[p]]
      BY <1>1, <2>0, <3>1, <3>2, LinkFacts
    <3>4. next2[M[i]] = IF i + 1 = n THEN Nil ELSE L[(i + 1) + 1]
      BY <1>1, <2>1, <3>1, <3>3
    <3>5. i # n - 1 => M[i + 1] = L[(i + 1) + 1]
      <4>1. i # n - 1 => ~ (i + 1 < p)
        BY <1>1, <2>4
      <4> QED BY <1>2, <2>2, <4>1
    <3>6. i = n - 1 <=> i + 1 = n
      BY <1>1
    <3> QED BY <3>4, <3>5, <3>6
  <2> QED BY <2>3, <2>4
<1> HIDE DEF first2
<1>5. Chained(next2, first2, M, n - 1, Nil)
  BY <1>1, <1>2, <1>3, <1>4 DEF Chained
<1> QED BY <1>5 DEF first2, M

\* Removing a slot from a list, backwards.
LEMMA BackRemove ==
    ASSUME NEW next, NEW first, NEW prev, NEW prev2, NEW L, NEW n, NEW p \in 1 .. n,
           Chained(next, first, L, n, Nil), Backward(prev, L, n),
           \A s \in Slots : s # L[p] =>
               prev2[s] = IF s = next[L[p]] THEN prev[L[p]] ELSE prev[s]
    PROVE  Backward(prev2, Without(L, n, p), n - 1)
<1> DEFINE M == Without(L, n, p)
<1>1. n \in Nat /\ L \in [1 .. n -> Slots]
      /\ (\A i, j \in 1 .. n : L[i] = L[j] => i = j)
      /\ (\A i \in 1 .. n : next[L[i]] = IF i = n THEN Nil ELSE L[i + 1])
      /\ \A i \in 1 .. n : prev[L[i]] = IF i = 1 THEN Nil ELSE L[i - 1]
  BY DEF Chained, Backward
<1>0. IsWithout(M, L, n, p)
  BY <1>1, WithoutFacts
<1> HIDE DEF M
<1>2. /\ n - 1 \in Nat /\ M \in [1 .. n - 1 -> Slots]
      /\ \A i \in 1 .. n - 1 : i < p => i \in 1 .. n /\ M[i] = L[i]
      /\ \A i \in 1 .. n - 1 : ~ (i < p) => i + 1 \in 1 .. n /\ M[i] = L[i + 1]
      /\ \A i \in 1 .. n - 1 : M[i] # L[p]
  BY <1>0 DEF IsWithout
<1>3. ASSUME NEW i \in 1 .. n - 1
      PROVE  prev2[M[i]] = IF i = 1 THEN Nil ELSE M[i - 1]
  <2>0. M[i] \in Slots /\ M[i] # L[p]
    BY <1>2
  <2>1. prev2[M[i]] = IF M[i] = next[L[p]] THEN prev[L[p]] ELSE prev[M[i]]
    BY <2>0
  <2>2. i # 1 => i - 1 \in 1 .. n - 1
    BY <1>1
  <2>3. CASE i < p
    <3>1. i \in 1 .. n /\ M[i] = L[i]
      BY <1>2, <2>3
    <3>2. p # n => p + 1 \in 1 .. n /\ p + 1 # i
      BY <1>1, <2>3
    <3>3. M[i] # next[L[p]]
      BY <1>1, <2>0, <3>1, <3>2, LinkFacts
    <3>4. prev2[M[i]] = IF i = 1 THEN Nil ELSE L[i - 1]
      BY <1>1, <2>1, <3>1, <3>3
    <3>5. i # 1 => i - 1 < p
      BY <1>1, <2>3
    <3> QED BY <1>2, <2>2, <3>4, <3>5
  <2>4. CASE ~ (i < p)
    <3>1. i + 1 \in 1 .. n /\ M[i] = L[i + 1]
      BY <1>2, <2>4
    <3>2. CASE i = p
      <4>1. p # n /\ M[i] = next[L[p]] /\ prev2[M[i]] = prev[L[p]]
        BY <1>1, <2>1, <3>1, <3>2
      <4>2. i # 1 => i - 1 < p /\ M[i - 1] = L[i - 1]
        BY <1>2, <2>2, <3>2
      <4> QED BY <1>1, <3>2, <4>1, <4>2
    <3>3. CASE i # p
      <4>1. p # n => p + 1 \in 1 .. n /\ p + 1 # i + 1
        BY <1>1, <3>3
      <4>2. M[i] # next[L[p]]
        BY <1>1, <2>0, <3>1, <4>1, LinkFacts
      <4>3. prev2[M[i]] = L[(i + 1) - 1] /\ i # 1
        BY <1>1, <2>1, <2>4, <3>1, <3>3, <4>2
      <4>4. ~ (i - 1 < p) /\ (i - 1) + 1 = (i + 1) - 1
        BY <1>1, <2>4, <3>3
      <4>5. M[i - 1] = L[(i - 1) + 1]
        BY <1>2, <2>2, <4>3, <4>4
      <4> QED BY <4>3, <4>4, <4>5
    <3> QED BY <3>2, <3>3
  <2> QED BY <2>3, <2>4
<1>4. Backward(prev2, M, n - 1)
  BY <1>3 DEF Backward
<1> QED BY <1>4 DEF M

\* A sorted list stays sorted without one of its areas.
LEMMA SortedRemove ==
    ASSUME NEW n \in Nat, NEW L \in [1 .. n -> Slots], NEW p \in 1 .. n,
           \A i, j \in 1 .. n : L[i] = L[j] => i = j,
           NEW start, NEW start2, Sorted(start, L, n),
           \A i \in 1 .. n : i # p => start2[L[i]] = start[L[i]]
    PROVE  Sorted(start2, Without(L, n, p), n - 1)
<1> DEFINE M == Without(L, n, p)
<1>0. IsWithout(M, L, n, p)
  BY WithoutFacts
<1> HIDE DEF M
<1>1. \A i \in 1 .. n - 1 : \/ i < p /\ i \in 1 .. n /\ M[i] = L[i]
                            \/ ~ (i < p) /\ i + 1 \in 1 .. n /\ M[i] = L[i + 1]
  BY <1>0 DEF IsWithout
<1>2. ASSUME NEW i \in 1 .. n - 1, NEW j \in 1 .. n - 1, i <= j
      PROVE  start2[M[i]] <= start2[M[j]]
  <2> DEFINE At(x) == IF x < p THEN x ELSE x + 1
  <2>1. At(i) \in 1 .. n /\ At(j) \in 1 .. n /\ At(i) <= At(j) /\ At(i) # p /\ At(j) # p
    BY <1>1, <1>2
  <2>2. M[i] = L[At(i)] /\ M[j] = L[At(j)]
    BY <1>1
  <2> HIDE DEF At
  <2> QED BY <2>1, <2>2 DEF Sorted
<1>3. Sorted(start2, M, n - 1)
  BY <1>2 DEF Sorted
<1> QED BY <1>3 DEF M

-----------------------------------------------------------------------------
(* The lists of an mm_struct.                                              *)

\* L is the list of the areas of m, F its free list, which ends at e.
Shape(m, L, n, F, f, e) ==
    /\ e \in {Nil, Garbage}
    /\ Chained(m.next, m.mmap, L, n, Nil)
    /\ Chained(m.next, m.free_vma_list, F, f, e)
    /\ Backward(m.prev, L, n)
    /\ Sorted(m.start, L, n)
    /\ m.num_vmas = n
    /\ n # 0 => \A i \in 1 .. n, k \in 1 .. f : L[i] # F[k]
    /\ n # 0 /\ e = Nil => \A s \in Slots : (\E i \in 1 .. n : L[i] = s)
                                            \/ (\E k \in 1 .. f : F[k] = s)

\* The lists are sound.
Holds(m) == \E L, n, F, f, e : Shape(m, L, n, F, f, e)

Used(m) == Range(AreaList(m))

\* What the definitions of the lists see of them.
LEMMA ShapeIs ==
    ASSUME NEW m, NEW L, NEW n, NEW F, NEW f, NEW e, Shape(m, L, n, F, f, e)
    PROVE  /\ n \in Nat /\ L \in [1 .. n -> Slots] /\ f \in Nat /\ F \in [1 .. f -> Slots]
           /\ AreaList(m) = L /\ Len(L) = n /\ L \in Seq(Slots)
           /\ FreeList(m) = F /\ Len(F) = f /\ F \in Seq(Slots)
           /\ Used(m) = {L[i] : i \in 1 .. n}
           /\ Garbage \notin Range(Walk(m.next, m.free_vma_list)) <=> e = Nil
<1>1. e \in {Nil, Garbage} /\ Nil \in {Nil, Garbage} /\ Chained(m.next, m.mmap, L, n, Nil)
      /\ Chained(m.next, m.free_vma_list, F, f, e)
  BY DEF Shape
<1>2. AreaList(m) = L /\ Len(L) = n /\ L \in Seq(Slots)
  BY <1>1, ListIs DEF AreaList
<1>3. FreeList(m) = F /\ Len(F) = f /\ F \in Seq(Slots)
      /\ (Garbage \notin Range(Walk(m.next, m.free_vma_list)) <=> e = Nil)
  BY <1>1, ListIs DEF FreeList
<1>4. n \in Nat /\ L \in [1 .. n -> Slots] /\ f \in Nat /\ F \in [1 .. f -> Slots]
  BY <1>1 DEF Chained
<1>5. Used(m) = {L[i] : i \in 1 .. n}
  BY <1>2, <1>4 DEF Used, Range
<1> QED BY <1>2, <1>3, <1>4, <1>5

\* An area for the range va .. end has been added to m, which gave d.
Added(m, d, va, end) ==
    \E vma \in Slots :
        /\ vma \notin Used(m) /\ Used(d) = Used(m) \cup {vma}
        /\ d.start = [m.start EXCEPT ![vma] = va]
        /\ d.end = [m.end EXCEPT ![vma] = end]

\* The first area of an empty list.
LEMMA MmapFirst ==
    ASSUME NEW m \in MM, m.fault = "no", m.mmap = Nil, m.num_vmas = 0,
           NEW va \in Addresses, NEW end \in Addresses
    PROVE  LET d == do_mmap(m, va, end) IN
           /\ d \in MM /\ d.fault = "no" /\ Holds(d) /\ 0 \in Slots
           /\ Used(d) = {0} /\ d.start = [m.start EXCEPT ![0] = va]
           /\ d.end = [m.end EXCEPT ![0] = end]
<1> DEFINE d == do_mmap(m, va, end)
           N == NR_VMA_SLOTS
           next2 == [i \in Slots |-> IF i = 0 \/ i = N - 1 THEN Nil ELSE i + 1]
           free2 == IF N > 1 THEN 1 ELSE Nil
           L == [i \in 1 .. 1 |-> 0]
           F == [i \in 1 .. N - 1 |-> i]
<1>1. N \in Nat \ {0} /\ Slots = 0 .. N - 1 /\ 0 \in Slots /\ 0 # Nil /\ 0 # Garbage
  BY LinkFacts DEF Slots, Nil, Garbage
<1>2. d = [InitSlots(m) EXCEPT !.start[0] = va, !.end[0] = end, !.num_vmas = @ + 1]
  BY <1>1 DEF do_mmap
<1>3. /\ d.fault = "no" /\ d.mmap = 0 /\ d.num_vmas = 1
      /\ d.next = next2 /\ d.free_vma_list = free2 /\ d.prev = [m.prev EXCEPT ![0] = Nil]
      /\ d.start = [m.start EXCEPT ![0] = va] /\ d.end = [m.end EXCEPT ![0] = end]
  BY <1>2 DEF InitSlots, MM
<1>4. d \in MM
  <2>1. next2 \in [Slots -> Links] /\ free2 \in Links /\ 0 \in Links
    <3>1. \A i \in Slots : i = N - 1 \/ i + 1 \in Slots
      BY <1>1
    <3>2. N > 1 => 1 \in Slots
      BY <1>1
    <3> QED BY <3>1, <3>2, LinkFacts
  <2>2. [m.prev EXCEPT ![0] = Nil] \in [Slots -> Links]
    BY LinkFacts DEF MM
  <2>3. [m.start EXCEPT ![0] = va] \in [Slots -> Addresses]
        /\ [m.end EXCEPT ![0] = end] \in [Slots -> Addresses]
    BY DEF MM
  <2>4. d = [fault |-> d.fault, mmap |-> d.mmap, free_vma_list |-> d.free_vma_list,
             num_vmas |-> d.num_vmas, next |-> d.next, prev |-> d.prev,
             start |-> d.start, end |-> d.end]
    BY <1>2 DEF InitSlots, MM
  <2> HIDE DEF d, next2, free2
  <2> QED BY <1>3, <2>1, <2>2, <2>3, <2>4 DEF MM, Faults
<1> HIDE DEF d
<1>5. Chained(d.next, d.mmap, L, 1, Nil)
  BY <1>1, <1>3 DEF Chained
<1>6. Chained(d.next, d.free_vma_list, F, N - 1, Nil)
  <2>1. N - 1 \in Nat /\ F \in [1 .. N - 1 -> Slots] /\ \A i \in 1 .. N - 1 : F[i] = i
    BY <1>1
  <2>2. d.free_vma_list = IF N - 1 = 0 THEN Nil ELSE F[1]
    <3>1. N - 1 = 0 <=> ~ (N > 1)
      BY <1>1
    <3>2. N - 1 # 0 => 1 \in 1 .. N - 1
      BY <1>1
    <3> QED BY <1>3, <2>1, <3>1, <3>2
  <2>3. ASSUME NEW k \in 1 .. N - 1
        PROVE  d.next[F[k]] = IF k = N - 1 THEN Nil ELSE F[k + 1]
    <3>1. k \in Slots /\ k # 0 /\ (k # N - 1 => k + 1 \in 1 .. N - 1)
      BY <1>1
    <3>2. d.next[k] = IF k = N - 1 THEN Nil ELSE k + 1
      BY <1>3, <3>1
    <3> QED BY <2>1, <3>1, <3>2
  <2> HIDE DEF F
  <2> QED BY <2>1, <2>2, <2>3 DEF Chained
<1>7. Backward(d.prev, L, 1) /\ Sorted(d.start, L, 1)
  <2>1. d.start[0] = va /\ d.prev[0] = Nil
    BY <1>1, <1>3 DEF MM
  <2>2. \A i \in 1 .. 1 : L[i] = 0 /\ i = 1
    OBVIOUS
  <2>3. va <= va
    BY VmaAssumption DEF Addresses
  <2> HIDE DEF L
  <2> QED BY <2>1, <2>2, <2>3 DEF Backward, Sorted
<1>8. \A i \in 1 .. 1, k \in 1 .. N - 1 : L[i] # F[k]
  BY <1>1
<1>9. \A s \in Slots : (\E i \in 1 .. 1 : L[i] = s) \/ (\E k \in 1 .. N - 1 : F[k] = s)
  <2> SUFFICES ASSUME NEW s \in Slots
               PROVE  (\E i \in 1 .. 1 : L[i] = s) \/ (\E k \in 1 .. N - 1 : F[k] = s)
    OBVIOUS
  <2>1. CASE s = 0
    BY <2>1
  <2>2. CASE s # 0
    <3>1. s \in 1 .. N - 1 /\ F[s] = s
      BY <1>1, <2>2
    <3> QED BY <3>1
  <2> QED BY <2>1, <2>2
<1>10. Shape(d, L, 1, F, N - 1, Nil)
  <2> HIDE DEF L, F
  <2> QED BY <1>3, <1>5, <1>6, <1>7, <1>8, <1>9 DEF Shape
<1>11. Used(d) = {0}
  <2>1. Used(d) = {L[i] : i \in 1 .. 1}
    <3> HIDE DEF L, F
    <3> QED BY <1>10, ShapeIs
  <2> QED BY <2>1
<1>12. Holds(d)
  BY <1>10 DEF Holds
<1> QED BY <1>1, <1>3, <1>4, <1>11, <1>12 DEF d

\* An area more in a list that has some.
LEMMA MmapNext ==
    ASSUME NEW m \in MM, m.fault = "no", NEW L, NEW n, NEW F, NEW f, NEW e,
           Shape(m, L, n, F, f, e), n # 0, f # 0,
           NEW va \in Addresses, NEW end \in Addresses
    PROVE  LET d == do_mmap(m, va, end) IN
           d \in MM /\ d.fault = "no" /\ Holds(d) /\ Added(m, d, va, end)
<1> DEFINE d == do_mmap(m, va, end)
           vma == m.free_vma_list
           S == {i \in 1 .. n : ~ (m.start[L[i]] <= va)}
           k == FirstOf(S, n + 1) - 1
           curr == RightOf(L, n, k)
           prev == LeftOf(L, k)
           prev2 == [s \in Slots |-> IF s = vma THEN prev
                                     ELSE IF s = curr THEN vma ELSE m.prev[s]]
           next2 == [s \in Slots |-> IF s = vma THEN curr
                                     ELSE IF s = prev THEN vma ELSE m.next[s]]
           mmap2 == IF prev = Nil THEN vma ELSE m.mmap
           M == Inserted(L, n, k, vma)
           G == Without(F, f, 1)
<1>1. n \in Nat \ {0} /\ L \in [1 .. n -> Slots] /\ f \in Nat \ {0} /\ F \in [1 .. f -> Slots]
      /\ AreaList(m) = L /\ Len(L) = n /\ Used(m) = {L[i] : i \in 1 .. n}
  BY ShapeIs
<1>2. /\ e \in {Nil, Garbage} /\ m.num_vmas = n
      /\ Chained(m.next, m.mmap, L, n, Nil)
      /\ Chained(m.next, m.free_vma_list, F, f, e)
      /\ Backward(m.prev, L, n) /\ Sorted(m.start, L, n)
      /\ \A i \in 1 .. n, j \in 1 .. f : L[i] # F[j]
      /\ e = Nil => \A s \in Slots : (\E i \in 1 .. n : L[i] = s)
                                     \/ (\E j \in 1 .. f : F[j] = s)
  BY DEF Shape
<1>3. /\ \A i, j \in 1 .. n : L[i] = L[j] => i = j
      /\ \A i, j \in 1 .. f : F[i] = F[j] => i = j
      /\ m.mmap = L[1] /\ vma = F[1]
  BY <1>1, <1>2 DEF Chained
<1>4. vma \in Slots /\ m.mmap \in Slots /\ 1 \in 1 .. f /\ \A i \in 1 .. n : L[i] # vma
  BY <1>1, <1>2, <1>3
<1>5. /\ k \in 0 .. n
      /\ \A i \in 1 .. n : i <= k => m.start[L[i]] <= va
      /\ k < n => k + 1 \in 1 .. n /\ ~ (m.start[L[k + 1]] <= va)
  <2> DEFINE j == FirstOf(S, n + 1)
  <2>1. S \in SUBSET (1 .. n) /\ n \in Nat
    BY <1>1
  <2>2. \A i \in 1 .. n : i \in S <=> ~ (m.start[L[i]] <= va)
    OBVIOUS
  <2> HIDE DEF S
  <2>3. j \in 1 .. n + 1 /\ (j \in S \/ (j = n + 1 /\ S = {})) /\ \A i \in 1 .. n : i < j => i \notin S
    BY <2>1, FirstIs
  <2>4. k = j - 1
    OBVIOUS
  <2> HIDE DEF j, k
  <2>5. k \in 0 .. n /\ k + 1 = j /\ (k < n => j \in 1 .. n /\ j \in S)
    BY <2>1, <2>3, <2>4
  <2>6. \A i \in 1 .. n : i <= k => i < j
    BY <2>1, <2>3, <2>4
  <2> QED BY <2>2, <2>3, <2>5, <2>6
<1>6. d = [LinkFree(m, va) EXCEPT !.start[vma] = va, !.end[vma] = end, !.num_vmas = @ + 1]
  BY <1>4, LinkFacts DEF do_mmap
<1>7. LinkFree(m, va) = [m EXCEPT !.free_vma_list = m.next[vma], !.next = next2,
                                  !.prev = prev2, !.mmap = mmap2]
  <2>1. {i \in 1 .. Len(L) : ~GoesAfter(m, L[i], va)} = S
    BY <1>1 DEF GoesAfter
  <2> HIDE DEF S
  <2> QED BY <1>1, <2>1, Zenon DEF LinkFree, LeftOf, RightOf
<1> HIDE DEF k
<1>8. curr \in Links /\ prev \in Links
  <2>1. k > 0 => k \in 1 .. n
    BY <1>1, <1>5
  <2>2. (k < n => L[k + 1] \in Slots) /\ (k > 0 => L[k] \in Slots)
    BY <1>1, <1>5, <2>1
  <2> QED BY <2>2, LinkFacts DEF RightOf, LeftOf
<1> HIDE DEF curr, prev
<1>9. next2 \in [Slots -> Links] /\ prev2 \in [Slots -> Links] /\ mmap2 \in Links
      /\ m.next[vma] \in Links
  BY <1>4, <1>8, LinkFacts DEF MM
<1> HIDE DEF next2, prev2, mmap2
<1>10. /\ d.fault = "no" /\ d.mmap = mmap2 /\ d.num_vmas = n + 1
       /\ d.next = next2 /\ d.free_vma_list = m.next[vma] /\ d.prev = prev2
       /\ d.start = [m.start EXCEPT ![vma] = va] /\ d.end = [m.end EXCEPT ![vma] = end]
       /\ d = [fault |-> d.fault, mmap |-> d.mmap, free_vma_list |-> d.free_vma_list,
               num_vmas |-> d.num_vmas, next |-> d.next, prev |-> d.prev,
               start |-> d.start, end |-> d.end]
  <2> DEFINE l == [m EXCEPT !.free_vma_list = m.next[vma], !.next = next2,
                            !.prev = prev2, !.mmap = mmap2]
  <2>1. l = [fault |-> "no", mmap |-> mmap2, free_vma_list |-> m.next[vma],
             num_vmas |-> n, next |-> next2, prev |-> prev2,
             start |-> m.start, end |-> m.end]
    <3>1. m = [fault |-> m.fault, mmap |-> m.mmap, free_vma_list |-> m.free_vma_list,
               num_vmas |-> m.num_vmas, next |-> m.next, prev |-> m.prev,
               start |-> m.start, end |-> m.end]
      BY DEF MM
    <3> DEFINE first == m.next[vma]
    <3>2. l = [m EXCEPT !.free_vma_list = first, !.next = next2,
                        !.prev = prev2, !.mmap = mmap2]
      OBVIOUS
    <3> HIDE DEF first, l
    <3>3. l = [fault |-> m.fault, mmap |-> mmap2, free_vma_list |-> first,
               num_vmas |-> m.num_vmas, next |-> next2, prev |-> prev2,
               start |-> m.start, end |-> m.end]
      BY <3>1, <3>2
    <3> QED BY <1>2, <3>3 DEF first
  <2>2. d = [l EXCEPT !.start[vma] = va, !.end[vma] = end, !.num_vmas = @ + 1]
    <3> HIDE DEF l, d
    <3> QED BY <1>6, <1>7 DEF l
  <2> HIDE DEF vma, l, d
  <2>3. d = [fault |-> "no", mmap |-> mmap2, free_vma_list |-> m.next[vma],
             num_vmas |-> n + 1, next |-> next2, prev |-> prev2,
             start |-> [m.start EXCEPT ![vma] = va], end |-> [m.end EXCEPT ![vma] = end]]
    BY <2>1, <2>2
  <2> QED BY <2>3
<1> HIDE DEF d
<1>11. d \in MM
  <2>1. d.start \in [Slots -> Addresses] /\ d.end \in [Slots -> Addresses] /\ n + 1 \in Nat
    BY <1>1, <1>4, <1>10 DEF MM
  <2> HIDE DEF vma
  <2> QED BY <1>9, <1>10, <2>1 DEF MM, Faults
<1>12. Chained(d.next, d.mmap, M, n + 1, Nil)
  <2> HIDE DEF M, vma
  <2>1. Chained(next2, mmap2, M, n + 1, Nil)
    BY <1>2, <1>4, <1>5, ChainInsert DEF next2, mmap2, curr, prev, M
  <2> QED BY <1>10, <2>1
<1>13. Backward(d.prev, M, n + 1)
  <2> HIDE DEF M, vma
  <2>1. Backward(prev2, M, n + 1)
    BY <1>2, <1>4, <1>5, BackInsert DEF prev2, curr, prev, M
  <2> QED BY <1>10, <2>1
<1>14. Sorted(d.start, M, n + 1)
  <2>1. /\ \A i \in 1 .. n : m.start[L[i]] \in Nat
        /\ va \in Nat /\ d.start[vma] = va
    <3>1. Addresses \subseteq Nat
      BY VmaAssumption DEF Addresses
    <3> QED BY <1>1, <1>4, <1>10, <3>1 DEF MM
  <2>2. \A i \in 1 .. n : d.start[L[i]] = m.start[L[i]]
    BY <1>1, <1>4, <1>10 DEF MM
  <2>3. ASSUME NEW i \in 1 .. n
        PROVE  IF i <= k THEN m.start[L[i]] <= d.start[vma] ELSE d.start[vma] < m.start[L[i]]
    <3>1. CASE i <= k
      BY <1>5, <2>1, <3>1
    <3>2. CASE ~ (i <= k)
      <4>1. k < n /\ k + 1 <= i /\ k + 1 \in 1 .. n
        BY <1>1, <1>5, <3>2
      <4>2. m.start[L[k + 1]] <= m.start[L[i]] /\ ~ (m.start[L[k + 1]] <= va)
        BY <1>2, <1>5, <4>1 DEF Sorted
      <4> QED BY <2>1, <3>2, <4>1, <4>2
    <3> QED BY <3>1, <3>2
  <2> HIDE DEF vma, M
  <2>4. n \in Nat /\ \A i, j \in 1 .. n : L[i] = L[j] => i = j
    BY <1>1, <1>3
  <2>5. d.start[vma] \in Nat
    BY <2>1
  <2> QED BY <1>1, <1>2, <1>4, <1>5, <2>1, <2>2, <2>3, <2>4, <2>5, SortedInsert, ZenonT(40) DEF M
<1>15. IsWithout(G, F, f, 1)
  <2>1. f \in Nat /\ 1 \in 1 .. f
    BY <1>1
  <2> QED BY <1>1, <1>3, <2>1, WithoutFacts DEF G
<1>16. IsInserted(M, L, n, k, vma)
  BY <1>1, <1>3, <1>4, <1>5, InsertedFacts DEF M
<1> HIDE DEF M, G
<1>17. Chained(d.next, d.free_vma_list, G, f - 1, e)
  <2>1. Chained(m.next, m.next[vma], G, f - 1, e)
    BY <1>1, <1>2, ChainPop DEF G
  <2>2. ASSUME NEW i \in 1 .. f - 1 PROVE next2[G[i]] = m.next[G[i]]
    <3>1. G[i] \in Slots /\ G[i] # vma /\ \E j \in 1 .. f : G[i] = F[j]
      BY <1>3, <1>15, ZenonT(40) DEF IsWithout
    <3>2. G[i] # prev
      BY <1>1, <1>2, <1>5, <3>1, LinkFacts DEF prev, LeftOf
    <3> QED BY <3>1, <3>2 DEF next2
  <2>3. Chained(next2, m.next[vma], G, f - 1, e)
    BY <2>1, <2>2, ChainSame
  <2> QED BY <1>10, <2>3
<1>18. \A i \in 1 .. n + 1 : M[i] = vma \/ \E j \in 1 .. n : M[i] = L[j]
  <2>1. \A i \in 1 .. n + 1 : i <= k \/ i = k + 1 \/ i > k + 1
    BY <1>5
  <2> QED BY <1>16, <2>1 DEF IsInserted
<1>19. ASSUME NEW j \in 1 .. n PROVE \E i \in 1 .. n + 1 : M[i] = L[j]
  <2>1. CASE j <= k
    <3>1. j \in 1 .. n + 1
      BY <1>1
    <3> QED BY <1>16, <2>1, <3>1 DEF IsInserted
  <2>2. CASE ~ (j <= k)
    <3>1. j + 1 \in 1 .. n + 1 /\ j + 1 > k + 1 /\ (j + 1) - 1 = j
      BY <1>1, <1>5, <2>2
    <3> QED BY <1>16, <3>1 DEF IsInserted
  <2> QED BY <2>1, <2>2
<1>20. k + 1 \in 1 .. n + 1 /\ M[k + 1] = vma
  BY <1>1, <1>5, <1>16 DEF IsInserted
<1>21. \A i \in 1 .. n + 1, j \in 1 .. f - 1 : M[i] # G[j]
  <2>1. \A j \in 1 .. f - 1 : G[j] # vma /\ \E x \in 1 .. f : G[j] = F[x]
    BY <1>3, <1>15, ZenonT(40) DEF IsWithout
  <2> HIDE DEF vma
  <2> QED BY <1>2, <1>18, <2>1
<1>22. ASSUME e = Nil, NEW s \in Slots
       PROVE  (\E i \in 1 .. n + 1 : M[i] = s) \/ (\E j \in 1 .. f - 1 : G[j] = s)
  <2>1. CASE \E i \in 1 .. n : L[i] = s
    BY <1>19, <2>1
  <2>2. CASE \E j \in 1 .. f : F[j] = s
    <3>1. PICK j \in 1 .. f : F[j] = s
      BY <2>2
    <3>2. CASE j = 1
      BY <1>3, <1>20, <3>1, <3>2
    <3>3. CASE j # 1
      BY <1>15, <3>1, <3>3 DEF IsWithout
    <3> QED BY <3>2, <3>3
  <2> QED BY <1>2, <1>22, <2>1, <2>2
<1>23. Shape(d, M, n + 1, G, f - 1, e)
  <2> HIDE DEF vma
  <2> QED BY <1>2, <1>10, <1>12, <1>13, <1>14, <1>17, <1>21, <1>22 DEF Shape
<1>24. Used(d) = Used(m) \cup {vma} /\ vma \notin Used(m)
  <2>1. Used(d) = {M[i] : i \in 1 .. n + 1}
    BY <1>23, ShapeIs
  <2> HIDE DEF vma
  <2> QED BY <1>1, <1>4, <1>18, <1>19, <1>20, <2>1
<1>25. Holds(d)
  BY <1>23 DEF Holds
<1>26. Added(m, d, va, end)
  <2> HIDE DEF vma
  <2> QED BY <1>4, <1>10, <1>24 DEF Added
<1> QED BY <1>10, <1>11, <1>25, <1>26 DEF d

\* A pointer that does not lead to a slot stops the kernel.
LEMMA LostIs ==
    ASSUME NEW m \in MM, NEW fault \in Faults
    PROVE  Lost(m, fault) \in MM /\ Lost(m, fault).fault = fault
BY DEF Lost, MM

\* do_mmap keeps the lists sound and adds one area, or stops the kernel.
LEMMA MmapHolds ==
    ASSUME NEW m \in MM, m.fault = "no", Holds(m),
           NEW va \in Addresses, NEW end \in Addresses
    PROVE  LET d == do_mmap(m, va, end) IN
           d \in MM /\ (d.fault = "no" => Holds(d) /\ Added(m, d, va, end))
<1> DEFINE d == do_mmap(m, va, end)
<1>1. PICK L, n, F, f, e : Shape(m, L, n, F, f, e)
  BY DEF Holds
<1>2. /\ e \in {Nil, Garbage} /\ m.num_vmas = n /\ n \in Nat /\ f \in Nat
      /\ L \in [1 .. n -> Slots] /\ Used(m) = {L[i] : i \in 1 .. n}
      /\ m.mmap = (IF n = 0 THEN Nil ELSE L[1])
      /\ m.free_vma_list = IF f = 0 THEN e ELSE F[1]
  <2>1. n \in Nat /\ f \in Nat /\ L \in [1 .. n -> Slots] /\ Used(m) = {L[i] : i \in 1 .. n}
    BY <1>1, ShapeIs
  <2> QED BY <1>1, <2>1 DEF Shape, Chained
<1>3. CASE n = 0
  <2>1. d \in MM /\ d.fault = "no" /\ Holds(d) /\ 0 \in Slots
        /\ Used(d) = {0} /\ d.start = [m.start EXCEPT ![0] = va]
        /\ d.end = [m.end EXCEPT ![0] = end]
    BY <1>2, <1>3, MmapFirst
  <2>2. Used(m) = {}
    BY <1>2, <1>3
  <2> HIDE DEF d
  <2>3. Added(m, d, va, end)
    BY <2>1, <2>2 DEF Added
  <2> QED BY <2>1, <2>3 DEF d
<1>4. CASE n # 0 /\ f = 0
  <2>1. m.mmap # Nil
    BY <1>2, <1>4, LinkFacts
  <2>2. d = Lost(m, "null") \/ d = Lost(m, "garbage")
    BY <1>2, <1>4, <2>1 DEF do_mmap
  <2>3. d \in MM /\ d.fault # "no"
    <3>1. "null" \in Faults /\ "garbage" \in Faults
      BY DEF Faults
    <3> HIDE DEF d
    <3> QED BY <2>2, <3>1, LostIs
  <2> QED BY <2>3
<1>5. CASE n # 0 /\ f # 0
  BY <1>1, <1>5, MmapNext
<1> QED BY <1>3, <1>4, <1>5

\* The area of vma has been taken out of m, which gave d.
Removed(m, d, vma) ==
    /\ Used(d) = Used(m) \ {vma}
    /\ d.start = [m.start EXCEPT ![vma] = 0]
    /\ d.end = [m.end EXCEPT ![vma] = 0]

\* remove_vma keeps the lists sound and takes out one area.
LEMMA RemoveHolds ==
    ASSUME NEW m \in MM, m.fault = "no", Holds(m), NEW vma \in Used(m)
    PROVE  LET d == remove_vma(m, vma) IN
           d \in MM /\ d.fault = "no" /\ Holds(d) /\ Removed(m, d, vma)
<1> DEFINE d == remove_vma(m, vma)
           next2 == [s \in Slots |-> IF s = vma THEN m.free_vma_list
                                     ELSE IF s = m.prev[vma] THEN m.next[vma]
                                     ELSE m.next[s]]
           prev2 == [s \in Slots |-> IF s = vma THEN Nil
                                     ELSE IF s = m.next[vma] THEN m.prev[vma]
                                     ELSE m.prev[s]]
           mmap2 == IF vma = m.mmap THEN m.next[vma] ELSE m.mmap
<1>1. PICK L, n, F, f, e : Shape(m, L, n, F, f, e)
  BY DEF Holds
<1>2. /\ e \in {Nil, Garbage} /\ m.num_vmas = n /\ n \in Nat /\ f \in Nat
      /\ L \in [1 .. n -> Slots] /\ F \in [1 .. f -> Slots]
      /\ Used(m) = {L[i] : i \in 1 .. n}
      /\ Chained(m.next, m.mmap, L, n, Nil)
      /\ Chained(m.next, m.free_vma_list, F, f, e)
      /\ Backward(m.prev, L, n) /\ Sorted(m.start, L, n)
      /\ n # 0 => \A i \in 1 .. n, j \in 1 .. f : L[i] # F[j]
      /\ n # 0 /\ e = Nil => \A s \in Slots : (\E i \in 1 .. n : L[i] = s)
                                              \/ (\E j \in 1 .. f : F[j] = s)
  <2>1. n \in Nat /\ f \in Nat /\ L \in [1 .. n -> Slots] /\ F \in [1 .. f -> Slots]
        /\ Used(m) = {L[i] : i \in 1 .. n}
    BY <1>1, ShapeIs
  <2> QED BY <1>1, <2>1 DEF Shape
<1>3. PICK p \in 1 .. n : L[p] = vma
  BY <1>2
<1>4. n # 0 /\ n - 1 \in Nat /\ vma \in Slots /\ \A i, j \in 1 .. n : L[i] = L[j] => i = j
  BY <1>2, <1>3 DEF Chained
<1> DEFINE M == Without(L, n, p)
           G == Inserted(F, f, 0, vma)
<1>5. next2 \in [Slots -> Links] /\ prev2 \in [Slots -> Links] /\ mmap2 \in Links /\ vma \in Links
  BY <1>4, LinkFacts DEF MM
<1> HIDE DEF next2, prev2, mmap2
<1>6. d = [fault |-> "no", mmap |-> mmap2, free_vma_list |-> vma,
           num_vmas |-> n - 1, next |-> next2, prev |-> prev2,
           start |-> [m.start EXCEPT ![vma] = 0], end |-> [m.end EXCEPT ![vma] = 0]]
  <2>1. m = [fault |-> m.fault, mmap |-> m.mmap, free_vma_list |-> m.free_vma_list,
             num_vmas |-> m.num_vmas, next |-> m.next, prev |-> m.prev,
             start |-> m.start, end |-> m.end]
    BY DEF MM
  <2>2. d = [m EXCEPT !.mmap = mmap2, !.next = next2, !.prev = prev2,
                      !.start[vma] = 0, !.end[vma] = 0,
                      !.free_vma_list = vma, !.num_vmas = @ - 1]
    BY DEF remove_vma, HeadWithout, mmap2, next2, prev2
  <2> HIDE DEF d
  <2>3. d = [fault |-> m.fault, mmap |-> mmap2, free_vma_list |-> vma,
             num_vmas |-> m.num_vmas - 1, next |-> next2, prev |-> prev2,
             start |-> [m.start EXCEPT ![vma] = 0], end |-> [m.end EXCEPT ![vma] = 0]]
    BY <2>1, <2>2
  <2> QED BY <1>2, <2>3
<1> HIDE DEF d
<1>7. d \in MM /\ d.fault = "no"
  <2>1. 0 \in Addresses
    BY VmaAssumption DEF Addresses
  <2>2. [m.start EXCEPT ![vma] = 0] \in [Slots -> Addresses]
        /\ [m.end EXCEPT ![vma] = 0] \in [Slots -> Addresses]
    BY <2>1 DEF MM
  <2> QED BY <1>4, <1>5, <1>6, <2>2 DEF MM, Faults
<1>8. Chained(d.next, d.mmap, M, n - 1, Nil)
  <2>1. \A s \in Slots : s # L[p] =>
           next2[s] = IF s = m.prev[L[p]] THEN m.next[L[p]] ELSE m.next[s]
    BY <1>3 DEF next2
  <2> HIDE DEF M
  <2>2. Chained(next2, IF L[p] = m.mmap THEN m.next[L[p]] ELSE m.mmap, M, n - 1, Nil)
    BY <1>2, <2>1, ChainRemove DEF M
  <2> QED BY <1>3, <1>6, <2>2 DEF mmap2
<1>9. Backward(d.prev, M, n - 1)
  <2>1. \A s \in Slots : s # L[p] =>
           prev2[s] = IF s = m.next[L[p]] THEN m.prev[L[p]] ELSE m.prev[s]
    BY <1>3 DEF prev2
  <2> HIDE DEF M
  <2>2. Chained(m.next, m.mmap, L, n, Nil) /\ Backward(m.prev, L, n)
    BY <1>2
  <2>3. Backward(prev2, M, n - 1)
    BY <2>1, <2>2, BackRemove DEF M
  <2> QED BY <1>6, <2>3
<1>10. Sorted(d.start, M, n - 1)
  <2>1. \A i \in 1 .. n : i # p => d.start[L[i]] = m.start[L[i]]
    BY <1>2, <1>3, <1>4, <1>6 DEF MM
  <2> HIDE DEF M
  <2> QED BY <1>2, <1>4, <2>1, SortedRemove DEF M
<1>11. IsWithout(M, L, n, p)
  BY <1>2, <1>4, WithoutFacts DEF M
<1>12. \A j \in 1 .. f : F[j] \in Slots /\ F[j] # vma
  BY <1>2, <1>3, <1>4
<1>13. Chained(d.next, d.free_vma_list, G, f + 1, e)
  <2>1. ASSUME NEW j \in 1 .. f PROVE next2[F[j]] = m.next[F[j]]
    <3>1. m.prev[vma] = Nil \/ \E i \in 1 .. n : m.prev[vma] = L[i]
      <4>1. m.prev[vma] = IF p = 1 THEN Nil ELSE L[p - 1]
        BY <1>2, <1>3 DEF Backward
      <4>2. p # 1 => p - 1 \in 1 .. n
        BY <1>2
      <4> QED BY <4>1, <4>2
    <3>2. F[j] # m.prev[vma]
      BY <1>2, <1>4, <1>12, <3>1, LinkFacts
    <3> QED BY <1>12, <3>2 DEF next2
  <2>2. next2[vma] = m.free_vma_list
    BY <1>4 DEF next2
  <2> HIDE DEF G
  <2>3. Chained(next2, vma, G, f + 1, e)
    BY <1>2, <1>4, <1>12, <2>1, <2>2, ChainPush DEF G
  <2> QED BY <1>6, <2>3
<1>14. IsInserted(G, F, f, 0, vma)
  <2>1. 0 \in 0 .. f /\ \A i, j \in 1 .. f : F[i] = F[j] => i = j
    BY <1>2 DEF Chained
  <2> QED BY <1>2, <1>4, <1>12, <2>1, InsertedFacts DEF G
<1> HIDE DEF M, G
<1>15. \A i \in 1 .. n - 1 : M[i] # vma /\ \E j \in 1 .. n : M[i] = L[j]
  BY <1>3, <1>11 DEF IsWithout
<1>16. \A i \in 1 .. n : i # p => \E j \in 1 .. n - 1 : M[j] = L[i]
  BY <1>11 DEF IsWithout
<1>17. ASSUME NEW i \in 1 .. f + 1 PROVE G[i] = vma \/ \E j \in 1 .. f : G[i] = F[j]
  <2>1. i = 0 + 1 \/ i > 0 + 1
    BY <1>2
  <2> QED BY <1>14, <2>1 DEF IsInserted
<1>18. ASSUME NEW j \in 1 .. f PROVE \E i \in 1 .. f + 1 : G[i] = F[j]
  <2>1. j + 1 \in 1 .. f + 1 /\ j + 1 > 0 + 1 /\ (j + 1) - 1 = j
    BY <1>2
  <2> QED BY <1>14, <2>1 DEF IsInserted
<1>19. 1 \in 1 .. f + 1 /\ G[1] = vma
  BY <1>2, <1>14 DEF IsInserted
<1>20. \A i \in 1 .. n - 1, j \in 1 .. f + 1 : M[i] # G[j]
  BY <1>2, <1>4, <1>15, <1>17
<1>21. ASSUME e = Nil, NEW s \in Slots
       PROVE  (\E i \in 1 .. n - 1 : M[i] = s) \/ (\E j \in 1 .. f + 1 : G[j] = s)
  <2>1. CASE \E i \in 1 .. n : L[i] = s
    BY <1>3, <1>16, <1>19, <2>1
  <2>2. CASE \E j \in 1 .. f : F[j] = s
    BY <1>18, <2>2
  <2> QED BY <1>2, <1>4, <1>21, <2>1, <2>2
<1>22. Shape(d, M, n - 1, G, f + 1, e)
  BY <1>2, <1>6, <1>8, <1>9, <1>10, <1>13, <1>20, <1>21 DEF Shape
<1>23. Used(d) = Used(m) \ {vma}
  <2>1. Used(d) = {M[i] : i \in 1 .. n - 1}
    BY <1>22, ShapeIs
  <2> QED BY <1>2, <1>3, <1>15, <1>16, <2>1
<1>24. Holds(d)
  BY <1>22 DEF Holds
<1>25. Removed(m, d, vma)
  BY <1>6, <1>23 DEF Removed
<1> QED BY <1>7, <1>24, <1>25 DEF d

\* An mm_struct whose lists are sound unless the kernel has been stopped.
Good == {m \in MM : m.fault = "no" => Holds(m)}

\* do_mmap leads from one such mm_struct to another.
LEMMA MmapGood ==
    ASSUME NEW m \in Good, NEW va \in Addresses, NEW end \in Addresses
    PROVE  LET d == do_mmap(m, va, end) IN
           /\ d \in Good
           /\ d.fault = "no" => m.fault = "no" /\ Holds(m) /\ Added(m, d, va, end)
<1> DEFINE d == do_mmap(m, va, end)
<1>1. m \in MM /\ (m.fault = "no" => Holds(m))
  BY DEF Good
<1>2. CASE m.fault # "no"
  <2>1. d = m
    BY <1>2 DEF do_mmap
  <2> HIDE DEF d
  <2> QED BY <1>2, <2>1 DEF d
<1>3. CASE m.fault = "no"
  <2>1. d \in MM /\ (d.fault = "no" => Holds(d) /\ Added(m, d, va, end))
    BY <1>1, <1>3, MmapHolds
  <2> HIDE DEF d
  <2> QED BY <1>1, <1>3, <2>1 DEF Good, d
<1> QED BY <1>2, <1>3

\* d is m with the range va .. end cut out of the area of vma.
CutOut(m, d, vma, va, end) ==
    \E r, b \in MM :
        /\ Removed(m, r, vma)
        /\ IF m.start[vma] < va THEN Added(r, b, m.start[vma], va) ELSE b = r
        /\ IF m.end[vma] > end THEN Added(b, d, end, m.end[vma]) ELSE d = b

\* The lists of d are sound and hold all areas of m but one, unless the kernel
\* has been stopped.
Keeps(m, d, vma) ==
    d \in Good /\ (d.fault = "no" => m.fault = "no" /\ Used(m) \ {vma} \subseteq Used(d))

\* Cutting an area leaves the lists sound, and the other areas where they are.
LEMMA CutGood ==
    ASSUME NEW m \in Good, NEW vma, m.fault = "no" => vma \in Used(m),
           NEW va \in Addresses, NEW end \in Addresses
    PROVE  LET d == Cut(m, vma, va, end) IN
           /\ Keeps(m, d, vma)
           /\ d.fault = "no" => m.fault = "no" /\ CutOut(m, d, vma, va, end)
<1> DEFINE d == Cut(m, vma, va, end)
           r == remove_vma(m, vma)
           b == IF m.start[vma] < va THEN do_mmap(r, m.start[vma], va) ELSE r
           c == IF m.end[vma] > end THEN do_mmap(b, end, m.end[vma]) ELSE b
<1>1. m \in MM /\ (m.fault = "no" => Holds(m))
  BY DEF Good
<1>2. CASE m.fault # "no"
  <2>1. d = m
    BY <1>2 DEF Cut
  <2>2. Keeps(m, m, vma) /\ m.fault # "no"
    BY <1>2 DEF Keeps
  <2> HIDE DEF d
  <2> QED BY <2>1, <2>2 DEF d
<1>3. CASE m.fault = "no"
  <2>1. d = c
    BY <1>3 DEF Cut
  <2>2. r \in MM /\ r.fault = "no" /\ Holds(r) /\ Removed(m, r, vma)
    BY <1>1, <1>3, RemoveHolds
  <2>3. vma \in Slots /\ m.start[vma] \in Addresses /\ m.end[vma] \in Addresses
    <3>1. vma \in Slots
      <4>1. PICK L, n, F, f, e : Shape(m, L, n, F, f, e)
        BY <1>1, <1>3 DEF Holds
      <4>2. n \in Nat /\ L \in [1 .. n -> Slots] /\ Used(m) = {L[i] : i \in 1 .. n}
        BY <4>1, ShapeIs
      <4> QED BY <1>3, <4>2
    <3> QED BY <1>1, <3>1 DEF MM
  <2> HIDE DEF d, r, c
  <2>4. r \in Good
    BY <2>2 DEF Good
  <2> DEFINE b1 == do_mmap(r, m.start[vma], va)
  <2>5. b1 \in Good /\ (b1.fault = "no" => Added(r, b1, m.start[vma], va))
    BY <2>3, <2>4, MmapGood
  <2>6. b = IF m.start[vma] < va THEN b1 ELSE r
    OBVIOUS
  <2> HIDE DEF b, b1
  <2>7. b \in Good
        /\ (b.fault = "no" => IF m.start[vma] < va THEN Added(r, b, m.start[vma], va) ELSE b = r)
    BY <2>4, <2>5, <2>6
  <2> DEFINE c1 == do_mmap(b, end, m.end[vma])
  <2>8. c1 \in Good /\ (c1.fault = "no" => b.fault = "no" /\ Added(b, c1, end, m.end[vma]))
    BY <2>3, <2>7, MmapGood
  <2>9. c = IF m.end[vma] > end THEN c1 ELSE b
    BY DEF c
  <2> HIDE DEF c1
  <2>10. c \in Good
         /\ (c.fault = "no" => b.fault = "no"
                /\ IF m.end[vma] > end THEN Added(b, c, end, m.end[vma]) ELSE c = b)
    BY <2>7, <2>8, <2>9
  <2>11. ASSUME c.fault = "no"
         PROVE  CutOut(m, c, vma, va, end) /\ Used(m) \ {vma} \subseteq Used(c)
    <3>1. b \in MM /\ r \in MM
      BY <2>2, <2>7 DEF Good
    <3>2. CutOut(m, c, vma, va, end)
      BY <2>2, <2>7, <2>10, <2>11, <3>1 DEF CutOut
    <3>3. Used(m) \ {vma} \subseteq Used(r)
      BY <2>2 DEF Removed
    <3>4. Used(r) \subseteq Used(b)
      BY <2>7, <2>10, <2>11 DEF Added
    <3>5. Used(b) \subseteq Used(c)
      BY <2>10, <2>11 DEF Added
    <3> QED BY <3>2, <3>3, <3>4, <3>5
  <2>12. Keeps(m, c, vma)
    BY <1>3, <2>10, <2>11 DEF Keeps
  <2> QED BY <1>3, <2>1, <2>11, <2>12 DEF d
<1> QED BY <1>2, <1>3

\* After k of n cuts the other areas are still there.
Fit(x, k, areas, n) ==
    x \in Good /\ (x.fault = "no" => \A j \in k + 1 .. n : areas[j] \in Used(x))

\* Cutting one area after the other.
LEMMA CutSteps ==
    ASSUME NEW n \in Nat, NEW areas, NEW va \in Addresses, NEW end \in Addresses,
           \A i, j \in 1 .. n : areas[i] = areas[j] => i = j,
           NEW g, Fit(g[0], 0, areas, n),
           \A k \in 1 .. n : Fit(g[k - 1], k - 1, areas, n)
                             => g[k] = Cut(g[k - 1], areas[k], va, end)
    PROVE  \A k \in 0 .. n : Fit(g[k], k, areas, n)
<1> DEFINE T == {k \in Nat : k \in 0 .. n => Fit(g[k], k, areas, n)}
<1>1. 0 \in T
  OBVIOUS
<1>2. ASSUME NEW k \in T PROVE k + 1 \in T
  <2> SUFFICES ASSUME k + 1 \in 0 .. n PROVE Fit(g[k + 1], k + 1, areas, n)
    OBVIOUS
  <2>1. k \in 0 .. n /\ k + 1 \in 1 .. n /\ (k + 1) - 1 = k
    OBVIOUS
  <2>2. Fit(g[k], k, areas, n)
    BY <2>1
  <2>3. g[k + 1] = Cut(g[k], areas[k + 1], va, end)
    BY <2>1, <2>2
  <2>4. g[k] \in Good /\ (g[k].fault = "no" => \A j \in k + 1 .. n : areas[j] \in Used(g[k]))
    BY <2>2 DEF Fit
  <2>5. k + 1 \in k + 1 .. n
    BY <2>1
  <2>6. g[k].fault = "no" => areas[k + 1] \in Used(g[k])
    BY <2>4, <2>5
  <2>7. /\ g[k + 1] \in Good
        /\ g[k + 1].fault = "no" => /\ g[k].fault = "no"
                                    /\ Used(g[k]) \ {areas[k + 1]} \subseteq Used(g[k + 1])
    <3>1. PICK m, vma : m = g[k] /\ vma = areas[k + 1]
      OBVIOUS
    <3>2. m \in Good /\ (m.fault = "no" => vma \in Used(m))
      BY <2>4, <2>6, <3>1
    <3>3. Keeps(m, Cut(m, vma, va, end), vma)
      BY <3>2, CutGood
    <3>4. Keeps(g[k], g[k + 1], areas[k + 1])
      BY <2>3, <3>1, <3>3
    <3> QED BY <3>4 DEF Keeps
  <2>8. ASSUME g[k + 1].fault = "no", NEW j \in (k + 1) + 1 .. n
        PROVE  areas[j] \in Used(g[k + 1])
    <3>1. j \in k + 1 .. n /\ j \in 1 .. n /\ j # k + 1
      BY <2>1
    <3> QED BY <2>1, <2>4, <2>7, <2>8, <3>1
  <2> QED BY <2>7, <2>8 DEF Fit
<1>3. T = Nat
  <2>1. T \in SUBSET Nat
    OBVIOUS
  <2> HIDE DEF T
  <2> QED BY <1>1, <1>2, <2>1, NatByInduction
<1> QED BY <1>3

\* What CutAll computes, by one cut after the other.
LEMMA CutAllIs ==
    ASSUME NEW n \in Nat, NEW areas \in [1 .. n -> Slots],
           NEW va \in Addresses, NEW end \in Addresses,
           \A i, j \in 1 .. n : areas[i] = areas[j] => i = j,
           NEW m \in Good, \A i \in 1 .. n : areas[i] \in Used(m)
    PROVE  \E g : /\ g[0] = m /\ CutAll(m, areas, va, end) = g[n]
                  /\ \A k \in 1 .. n : g[k] = Cut(g[k - 1], areas[k], va, end)
                  /\ \A k \in 0 .. n : Fit(g[k], k, areas, n)
<1> DEFINE Is(h) == h = [k \in 0 .. n |-> IF k = 0 THEN m
                                          ELSE Cut(h[k - 1], areas[k], va, end)]
           done == CHOOSE h : Is(h)
           C(k, x) == Cut(x, areas[k], va, end)
           step == [y \in (1 .. n) \X Good |->
                       IF C(y[1], y[2]) \in Good THEN C(y[1], y[2]) ELSE y[2]]
<1>1. Len(areas) = n
  BY AsSeq
<1>2. CutAll(m, areas, va, end) = done[n]
  BY <1>1, Zenon DEF CutAll
<1>3. Fit(m, 0, areas, n)
  BY DEF Fit
<1>4. step \in [(1 .. n) \X Good -> Good]
  <2> HIDE DEF C
  <2> QED OBVIOUS
<1>5. PICK f \in [0 .. n -> Good] : Stepwise(f, n, m, step)
  <2> HIDE DEF step
  <2> QED BY <1>4, StepwiseExists
<1>6. f[0] = m /\ \A k \in 1 .. n : f[k] = step[<<k, f[k - 1]>>]
  BY <1>5 DEF Stepwise
<1>7. ASSUME NEW k \in 1 .. n, Fit(f[k - 1], k - 1, areas, n)
      PROVE  f[k] = C(k, f[k - 1])
  <2>1. k - 1 \in 0 .. n /\ f[k - 1] \in Good /\ k \in (k - 1) + 1 .. n
    BY <1>5
  <2>2. f[k - 1].fault = "no" => areas[k] \in Used(f[k - 1])
    BY <1>7, <2>1 DEF Fit
  <2>3. C(k, f[k - 1]) \in Good
    <3>1. PICK x, vma : x = f[k - 1] /\ vma = areas[k]
      OBVIOUS
    <3>2. x \in Good /\ (x.fault = "no" => vma \in Used(x))
      BY <2>1, <2>2, <3>1
    <3>3. Keeps(x, Cut(x, vma, va, end), vma)
      BY <3>2, CutGood
    <3> QED BY <3>1, <3>3 DEF Keeps
  <2>4. f[k] = IF C(k, f[k - 1]) \in Good THEN C(k, f[k - 1]) ELSE f[k - 1]
    <3> HIDE DEF C
    <3> QED BY <1>6, <2>1
  <2> HIDE DEF C
  <2> QED BY <2>3, <2>4
<1>8. \A k \in 0 .. n : Fit(f[k], k, areas, n)
  <2> HIDE DEF step
  <2> QED BY <1>3, <1>6, <1>7, CutSteps
<1>9. Is(f)
  <2>1. \A k \in 1 .. n : k - 1 \in 0 .. n
    OBVIOUS
  <2>2. \A k \in 1 .. n : f[k] = C(k, f[k - 1])
    BY <1>7, <1>8, <2>1
  <2>3. \A k \in 0 .. n : k # 0 => k \in 1 .. n
    OBVIOUS
  <2>4. f = [k \in 0 .. n |-> f[k]]
    BY <1>5
  <2>5. \A k \in 0 .. n : f[k] = IF k = 0 THEN m ELSE C(k, f[k - 1])
    BY <1>6, <2>2, <2>3
  <2>6. f = [k \in 0 .. n |-> IF k = 0 THEN m ELSE C(k, f[k - 1])]
    <3> HIDE DEF C
    <3> QED BY <2>4, <2>5
  <2> QED BY <2>6
<1>10. Is(done)
  <2> HIDE DEF Is
  <2> QED BY <1>9
<1> HIDE DEF done
<1>11. done[0] = m /\ \A k \in 1 .. n : done[k] = Cut(done[k - 1], areas[k], va, end)
  <2>1. \A k \in 0 .. n : done[k] = IF k = 0 THEN m ELSE C(k, done[k - 1])
    <3> DEFINE e(k) == IF k = 0 THEN m ELSE C(k, done[k - 1])
    <3>1. done = [k \in 0 .. n |-> e(k)]
      BY <1>10
    <3>2. PICK h : h = [k \in 0 .. n |-> e(k)]
      OBVIOUS
    <3>3. done = h
      BY <3>1, <3>2
    <3> HIDE DEF e
    <3>4. \A k \in 0 .. n : h[k] = e(k)
      BY <3>2
    <3> QED BY <3>3, <3>4 DEF e
  <2>2. 0 \in 0 .. n /\ \A k \in 1 .. n : k \in 0 .. n /\ k # 0
    OBVIOUS
  <2> QED BY <2>1, <2>2
<1>12. \A k \in 0 .. n : Fit(done[k], k, areas, n)
  <2> HIDE DEF Is
  <2> QED BY <1>3, <1>11, CutSteps, ZenonT(40)
<1> QED BY <1>2, <1>11, <1>12

-----------------------------------------------------------------------------
(* The search, munmap, programs and copies.                                *)

\* An area that holds va, or Nil when none does.
Found(m, va, s) ==
    \/ s = Nil /\ \A t \in Used(m) : ~ (m.start[t] <= va /\ va < m.end[t])
    \/ s \in Used(m) /\ m.start[s] <= va /\ va < m.end[s]

\* The search that ends at the first area that starts or ends beyond va misses
\* none: the areas behind that one start no earlier.
LEMMA FindIs ==
    ASSUME NEW m \in MM, Holds(m), NEW va \in Addresses
    PROVE  Found(m, va, find_vma(m, va))
<1>1. PICK L, n, F, f, e : Shape(m, L, n, F, f, e)
  BY DEF Holds
<1>2. n \in Nat /\ L \in [1 .. n -> Slots] /\ AreaList(m) = L /\ Len(L) = n
      /\ Used(m) = {L[i] : i \in 1 .. n}
  BY <1>1, ShapeIs
<1>3. \A i, k \in 1 .. n : i <= k => m.start[L[i]] <= m.start[L[k]]
  BY <1>1 DEF Shape, Sorted
<1>4. Addresses \subseteq Nat /\ va \in Nat
  BY VmaAssumption DEF Addresses
<1>5. \A i \in 1 .. n : m.start[L[i]] \in Nat /\ m.end[L[i]] \in Nat
  BY <1>2, <1>4 DEF MM
<1> DEFINE S == {i \in 1 .. n : va < m.start[L[i]] \/ va < m.end[L[i]]}
           k == FirstOf(S, n + 1)
<1>6. find_vma(m, va) = IF k > n \/ va < m.start[L[k]] THEN Nil ELSE L[k]
  BY <1>2, Zenon DEF find_vma
<1>7. S \in SUBSET (1 .. n)
  OBVIOUS
<1>8. k \in 1 .. n + 1 /\ (k \in S \/ (k = n + 1 /\ S = {}))
      /\ \A i \in 1 .. n : i < k => i \notin S
  <2> HIDE DEF S
  <2> QED BY <1>2, <1>7, FirstIs
<1> HIDE DEF k
<1>9. CASE k = n + 1
  <2>1. \A i \in 1 .. n : i \notin S
    BY <1>2, <1>8, <1>9
  <2>2. \A i \in 1 .. n : ~ (va < m.end[L[i]])
    BY <2>1
  <2>3. find_vma(m, va) = Nil
    BY <1>2, <1>6, <1>9
  <2> QED BY <1>2, <2>2, <2>3 DEF Found
<1>10. CASE k \in 1 .. n /\ va < m.start[L[k]]
  <2>1. find_vma(m, va) = Nil
    BY <1>6, <1>10
  <2>2. ASSUME NEW i \in 1 .. n PROVE ~ (m.start[L[i]] <= va /\ va < m.end[L[i]])
    <3>1. CASE i < k
      BY <1>8, <3>1
    <3>2. CASE k <= i
      <4>1. m.start[L[k]] <= m.start[L[i]]
        BY <1>3, <1>10, <3>2
      <4> QED BY <1>4, <1>5, <1>10, <4>1
    <3> QED BY <1>2, <1>8, <3>1, <3>2
  <2> QED BY <1>2, <2>1, <2>2 DEF Found
<1>11. CASE k \in 1 .. n /\ ~ (va < m.start[L[k]])
  <2>1. k \in S
    BY <1>2, <1>8, <1>11
  <2>2. m.start[L[k]] <= va /\ va < m.end[L[k]]
    BY <1>4, <1>5, <1>11, <2>1
  <2>3. find_vma(m, va) = L[k]
    BY <1>2, <1>6, <1>11
  <2> QED BY <1>2, <1>11, <2>2, <2>3 DEF Found
<1> QED BY <1>2, <1>8, <1>9, <1>10, <1>11

\* The list that begins at the j-th slot of another.
LEMMA ChainTail ==
    ASSUME NEW next, NEW first, NEW L, NEW n, NEW e, NEW j \in 1 .. n,
           Chained(next, first, L, n, e)
    PROVE  Chained(next, L[j], [i \in 1 .. n - j + 1 |-> L[j + i - 1]], n - j + 1, e)
<1> DEFINE M == [i \in 1 .. n - j + 1 |-> L[j + i - 1]]
<1>1. n \in Nat /\ L \in [1 .. n -> Slots] /\ (\A i, k \in 1 .. n : L[i] = L[k] => i = k)
      /\ \A k \in 1 .. n : next[L[k]] = IF k = n THEN e ELSE L[k + 1]
  BY DEF Chained
<1>2. \A i \in 1 .. n - j + 1 : j + i - 1 \in 1 .. n
  BY <1>1
<1>3. M \in [1 .. n - j + 1 -> Slots]
  BY <1>1, <1>2
<1>4. \A i \in 1 .. n - j + 1 : M[i] = L[j + i - 1]
  OBVIOUS
<1> HIDE DEF M
<1>5. \A i, k \in 1 .. n - j + 1 : M[i] = M[k] => i = k
  <2> SUFFICES ASSUME NEW i \in 1 .. n - j + 1, NEW k \in 1 .. n - j + 1, M[i] = M[k]
               PROVE  i = k
    OBVIOUS
  <2>1. j + i - 1 = j + k - 1
    BY <1>1, <1>2, <1>4
  <2> QED BY <1>1, <2>1
<1>6. n - j + 1 \in Nat /\ n - j + 1 # 0 /\ 1 \in 1 .. n - j + 1 /\ j + 1 - 1 = j
  BY <1>1
<1>7. L[j] = M[1]
  BY <1>4, <1>6
<1>8. ASSUME NEW k \in 1 .. n - j + 1
      PROVE  next[M[k]] = IF k = n - j + 1 THEN e ELSE M[k + 1]
  <2>1. next[M[k]] = IF j + k - 1 = n THEN e ELSE L[(j + k - 1) + 1]
    BY <1>1, <1>2, <1>4
  <2>2. j + k - 1 = n <=> k = n - j + 1
    BY <1>1
  <2>3. ASSUME k # n - j + 1 PROVE L[(j + k - 1) + 1] = M[k + 1]
    <3>1. k + 1 \in 1 .. n - j + 1 /\ (j + k - 1) + 1 = j + (k + 1) - 1
      BY <1>1, <2>3
    <3> QED BY <1>4, <3>1
  <2> QED BY <2>1, <2>2, <2>3
<1>9. Chained(next, L[j], M, n - j + 1, e)
  BY <1>3, <1>5, <1>6, <1>7, <1>8 DEF Chained
<1> QED BY <1>9 DEF M

\* Different slots that are areas of m.
Areas(m, s) ==
    /\ s \in Seq(Slots) /\ (\A i, j \in 1 .. Len(s) : s[i] = s[j] => i = j)
    /\ \A i \in 1 .. Len(s) : s[i] \in Used(m)

\* Areas that follow each other without a gap, from one that holds va on; the last
\* one reaches end.
Covering(m, s, va, end) ==
    /\ m.start[s[1]] <= va /\ va < m.end[s[1]]
    /\ \A i \in 1 .. Len(s) - 1 : m.start[s[i + 1]] = m.end[s[i]] /\ m.end[s[i]] < end
    /\ m.end[s[Len(s)]] >= end

\* The areas that do_munmap goes through are areas of the list, each once, and
\* cover the range.
LEMMA AffectedIs ==
    ASSUME NEW m \in MM, Holds(m), NEW va \in Addresses, NEW end \in Addresses
    PROVE  /\ Areas(m, Affected(m, va, end))
           /\ Affected(m, va, end) # <<>> => Covering(m, Affected(m, va, end), va, end)
<1>1. PICK L, n, F, f, e : Shape(m, L, n, F, f, e)
  BY DEF Holds
<1>2. n \in Nat /\ L \in [1 .. n -> Slots] /\ Used(m) = {L[i] : i \in 1 .. n}
  BY <1>1, ShapeIs
<1>3. Chained(m.next, m.mmap, L, n, Nil)
  BY <1>1 DEF Shape
<1> DEFINE s == find_vma(m, va)
           list == ListFrom(m.next, s)
<1>4. s = Nil \/ (s \in Used(m) /\ m.start[s] <= va /\ va < m.end[s])
  BY FindIs DEF Found
<1> HIDE DEF s
<1>5. /\ Areas(m, list)
      /\ Len(list) # 0 => list[1] = s /\ m.start[s] <= va /\ va < m.end[s]
      /\ \A i \in 1 .. Len(list) - 1 : m.next[list[i]] = list[i + 1]
  <2>1. CASE s = Nil
    <3> DEFINE E == [i \in 1 .. 0 |-> 0]
    <3>1. Chained(m.next, s, E, 0, Nil)
      BY <2>1 DEF Chained
    <3> HIDE DEF E
    <3>2. list = E /\ Len(E) = 0 /\ E \in Seq(Slots)
      BY <3>1, ListIs
    <3> HIDE DEF list
    <3>3. Areas(m, list) /\ Len(list) = 0
      BY <3>2 DEF Areas
    <3> QED BY <3>3
  <2>2. CASE s # Nil
    <3>1. PICK j \in 1 .. n : s = L[j]
      BY <1>2, <1>4, <2>2
    <3> DEFINE M == [i \in 1 .. n - j + 1 |-> L[j + i - 1]]
    <3>2. Chained(m.next, s, M, n - j + 1, Nil)
      BY <1>3, <3>1, ChainTail
    <3>3. \A i \in 1 .. n - j + 1 : j + i - 1 \in 1 .. n /\ M[i] = L[j + i - 1]
      BY <1>2
    <3> HIDE DEF M
    <3>4. list = M /\ Len(M) = n - j + 1 /\ M \in Seq(Slots)
      BY <3>2, ListIs
    <3>5. \A i, k \in 1 .. n - j + 1 : M[i] = M[k] => i = k
      BY <3>2 DEF Chained
    <3> HIDE DEF list
    <3>6. \A i \in 1 .. n - j + 1 : M[i] \in Used(m)
      BY <1>2, <3>3
    <3>7. Areas(m, list) /\ Len(list) = n - j + 1
      BY <3>4, <3>5, <3>6 DEF Areas
    <3>8. Len(list) # 0 => list[1] = s
      BY <3>2, <3>4 DEF Chained
    <3>9. \A i \in 1 .. Len(list) - 1 : m.next[list[i]] = list[i + 1]
      BY <1>2, <3>2, <3>4 DEF Chained
    <3> QED BY <1>4, <2>2, <3>7, <3>8, <3>9
  <2> QED BY <2>1, <2>2
<1> DEFINE S == {k \in 1 .. Len(list) : m.end[list[k]] >= end}
           k == FirstOf(S, Len(list) + 1)
           C == k <= Len(list) /\ \A i \in 1 .. k - 1 : Touches(m, list[i])
<1>6. Affected(m, va, end) = IF C THEN SubSeq(list, 1, k) ELSE <<>>
  BY Zenon DEF Affected, s
<1> HIDE DEF list
<1>7. Len(list) \in Nat /\ list \in Seq(Slots) /\ (\A i, j \in 1 .. Len(list) : list[i] = list[j] => i = j)
      /\ \A i \in 1 .. Len(list) : list[i] \in Used(m)
  BY <1>5, LenProperties DEF Areas
<1>8. S \in SUBSET (1 .. Len(list))
  OBVIOUS
<1>9. /\ k \in 1 .. Len(list) + 1 /\ (k \in S \/ (k = Len(list) + 1 /\ S = {}))
      /\ \A i \in 1 .. Len(list) : i < k => i \notin S
  <2> HIDE DEF S
  <2> QED BY <1>7, <1>8, FirstIs
<1> HIDE DEF k
<1>10. CASE ~ C
  <2>1. Affected(m, va, end) = <<>>
    BY <1>6, <1>10
  <2>2. <<>> \in Seq(Slots) /\ Len(<<>>) = 0
    BY EmptySeq
  <2> QED BY <2>1, <2>2 DEF Areas
<1>11. CASE C
  <2> DEFINE M == SubSeq(list, 1, k)
  <2>1. k \in 1 .. Len(list) /\ k \in Int /\ 1 \in Int /\ 1 <= k /\ k - 1 + 1 = k
    BY <1>7, <1>9, <1>11
  <2>2. \A i \in 1 .. k : list[i] \in Slots
    BY <1>7, <2>1
  <2>3. M \in Seq(Slots) /\ Len(M) = k /\ \A i \in 1 .. k : M[i] = list[i]
    <3>1. /\ M \in Seq(Slots)
          /\ Len(M) = (IF 1 <= k THEN k - 1 + 1 ELSE 0)
          /\ \A i \in 1 .. k - 1 + 1 : M[i] = list[1 + i - 1]
      BY <2>1, <2>2, SubSeqProperties
    <3>2. \A i \in 1 .. k : 1 + i - 1 = i
      OBVIOUS
    <3> HIDE DEF M
    <3> QED BY <2>1, <3>1, <3>2
  <2> HIDE DEF M
  <2>4. Areas(m, M)
    BY <1>7, <2>1, <2>3 DEF Areas
  <2>5. Affected(m, va, end) = M
    BY <1>6, <1>11 DEF M
  <2>6. \A i \in 1 .. Len(list) : m.end[list[i]] \in Nat /\ end \in Nat
    <3>1. Addresses \subseteq Nat
      BY VmaAssumption DEF Addresses
    <3>2. \A i \in 1 .. Len(list) : list[i] \in Slots
      BY <1>7, ElementOfSeq
    <3> QED BY <3>1, <3>2 DEF MM
  <2>7. k \in S /\ m.end[M[k]] >= end
    BY <1>9, <2>1, <2>3
  <2>8. ASSUME NEW i \in 1 .. k - 1
        PROVE  m.start[M[i + 1]] = m.end[M[i]] /\ m.end[M[i]] < end
    <3>1. i \in 1 .. k /\ i + 1 \in 1 .. k /\ i \in 1 .. Len(list) - 1 /\ i \in 1 .. Len(list) /\ i < k
      BY <1>7, <2>1
    <3>2. M[i] = list[i] /\ M[i + 1] = list[i + 1] /\ m.next[list[i]] = list[i + 1]
      BY <1>5, <2>3, <3>1
    <3>3. m.start[m.next[list[i]]] = m.end[list[i]]
      BY <1>11 DEF Touches
    <3>4. ~ (m.end[list[i]] >= end)
      BY <1>9, <3>1
    <3> QED BY <2>6, <3>1, <3>2, <3>3, <3>4
  <2>9. m.start[M[1]] <= va /\ va < m.end[M[1]]
    <3>1. 1 \in 1 .. k /\ Len(list) # 0
      BY <1>7, <2>1
    <3> QED BY <1>5, <2>3, <3>1
  <2>10. Covering(m, M, va, end)
    BY <2>3, <2>7, <2>8, <2>9 DEF Covering
  <2> QED BY <2>4, <2>5, <2>10
<1> QED BY <1>10, <1>11

\* An mm_struct without areas.
LEMMA FreshGood == FreshMM \in Good /\ FreshMM.fault = "no"
<1> DEFINE E == [i \in 1 .. 0 |-> 0]
<1>1. NoLinks \in [Slots -> Links] /\ Unused \in [Slots -> Addresses]
  BY LinkFacts, VmaAssumption DEF NoLinks, Unused, Addresses
<1>2. FreshMM \in MM
  BY <1>1, LinkFacts DEF FreshMM, MM, Faults
<1>3. /\ FreshMM.mmap = Nil /\ FreshMM.free_vma_list = Nil /\ FreshMM.num_vmas = 0
      /\ FreshMM.fault = "no"
  BY DEF FreshMM
<1>4. Shape(FreshMM, E, 0, E, 0, Nil)
  BY <1>3 DEF Shape, Chained, Backward, Sorted
<1> QED BY <1>2, <1>3, <1>4 DEF Good, Holds

\* do_munmap leads from one sound mm_struct to another.
LEMMA MunmapGood ==
    ASSUME NEW m \in Good, m.fault = "no", NEW va \in Addresses, NEW end \in Addresses
    PROVE  CutAll(m, Affected(m, va, end), va, end) \in Good
<1>1. m \in MM /\ Holds(m)
  BY DEF Good
<1>2. PICK areas : areas = Affected(m, va, end)
  OBVIOUS
<1>3. Areas(m, areas)
  BY <1>1, <1>2, AffectedIs
<1>4. PICK n : n = Len(areas)
  OBVIOUS
<1>5. n \in Nat /\ areas \in [1 .. n -> Slots]
      /\ (\A i, j \in 1 .. n : areas[i] = areas[j] => i = j)
      /\ \A i \in 1 .. n : areas[i] \in Used(m)
  BY <1>3, <1>4, LenProperties DEF Areas
<1>6. PICK g : /\ CutAll(m, areas, va, end) = g[n]
               /\ \A k \in 0 .. n : Fit(g[k], k, areas, n)
  BY <1>5, CutAllIs
<1>7. Fit(g[n], n, areas, n)
  BY <1>5, <1>6
<1> QED BY <1>2, <1>6, <1>7 DEF Fit

\* The areas S are in d where they are in m.
Same(m, d, S) == \A s \in S : s \in Used(d) /\ d.start[s] = m.start[s] /\ d.end[s] = m.end[s]

\* An empty list has no areas.
LEMMA NoneUsed ==
    ASSUME NEW m \in MM, Holds(m), m.mmap = Nil
    PROVE  Used(m) = {}
<1>1. PICK L, n, F, f, e : Shape(m, L, n, F, f, e)
  BY DEF Holds
<1>2. n \in Nat /\ L \in [1 .. n -> Slots] /\ Used(m) = {L[i] : i \in 1 .. n}
  BY <1>1, ShapeIs
<1>3. m.mmap = IF n = 0 THEN Nil ELSE L[1]
  BY <1>1 DEF Shape, Chained
<1>4. n = 0
  BY <1>2, <1>3, LinkFacts
<1> QED BY <1>2, <1>4

\* The mm_struct of a child: the same list, and no free list.
LEMMA CopyGood ==
    ASSUME NEW m \in Good, m.fault = "no"
    PROVE  /\ copy_mm(m) \in Good /\ copy_mm(m).fault = "no"
           /\ Used(copy_mm(m)) = Used(m) /\ Same(m, copy_mm(m), Used(m))
<1>1. m \in MM /\ Holds(m)
  BY DEF Good
<1>2. CASE m.mmap = Nil
  <2>1. copy_mm(m) = FreshMM
    BY <1>2 DEF copy_mm
  <2>2. FreshMM \in MM /\ Holds(FreshMM) /\ FreshMM.mmap = Nil
    BY FreshGood DEF Good, FreshMM
  <2>3. Used(FreshMM) = {} /\ Used(m) = {}
    BY <1>1, <1>2, <2>2, NoneUsed
  <2> QED BY <2>1, <2>3, FreshGood DEF Same
<1>3. CASE m.mmap # Nil
  <2>1. PICK L, n, F, f, e : Shape(m, L, n, F, f, e)
    BY <1>1 DEF Holds
  <2>2. n \in Nat /\ L \in [1 .. n -> Slots] /\ Used(m) = {L[i] : i \in 1 .. n}
    BY <2>1, ShapeIs
  <2> DEFINE next2 == [s \in Slots |-> IF s \in Used(m) THEN m.next[s] ELSE Nil]
             prev2 == [s \in Slots |-> IF s \in Used(m) THEN m.prev[s] ELSE Nil]
             start2 == [s \in Slots |-> IF s \in Used(m) THEN m.start[s] ELSE 0]
             end2 == [s \in Slots |-> IF s \in Used(m) THEN m.end[s] ELSE 0]
             d == [m EXCEPT !.free_vma_list = Garbage, !.next = next2, !.prev = prev2,
                            !.start = start2, !.end = end2]
             E == [i \in 1 .. 0 |-> 0]
  <2>3. copy_mm(m) = d
    BY <1>3 DEF copy_mm, Used
  <2>4. next2 \in [Slots -> Links] /\ prev2 \in [Slots -> Links]
    BY <1>1, LinkFacts DEF MM
  <2>5. start2 \in [Slots -> Addresses] /\ end2 \in [Slots -> Addresses]
    <3>1. 0 \in Addresses
      BY VmaAssumption DEF Addresses
    <3> QED BY <1>1, <3>1 DEF MM
  <2>6. \A i \in 1 .. n : /\ next2[L[i]] = m.next[L[i]] /\ prev2[L[i]] = m.prev[L[i]]
                          /\ start2[L[i]] = m.start[L[i]] /\ end2[L[i]] = m.end[L[i]]
    BY <2>2
  <2> HIDE DEF next2, prev2, start2, end2
  <2>7. d \in MM /\ d.fault = "no"
    BY <1>1, <2>4, <2>5, LinkFacts DEF MM
  <2>8. /\ d.next = next2 /\ d.prev = prev2 /\ d.start = start2 /\ d.end = end2
        /\ d.mmap = m.mmap
        /\ d.free_vma_list = Garbage /\ d.num_vmas = m.num_vmas
    BY <1>1 DEF MM
  <2>9. Chained(d.next, d.mmap, L, n, Nil)
    BY <2>1, <2>6, <2>8, ChainSame DEF Shape
  <2>10. Chained(d.next, d.free_vma_list, E, 0, Garbage)
    BY <2>8 DEF Chained
  <2>11. Backward(d.prev, L, n) /\ Sorted(d.start, L, n) /\ d.num_vmas = n
    BY <2>1, <2>6, <2>8 DEF Shape, Backward, Sorted
  <2> HIDE DEF d, E
  <2>12. Shape(d, L, n, E, 0, Garbage)
    BY <2>9, <2>10, <2>11, LinkFacts DEF Shape
  <2>13. d \in Good
    BY <2>7, <2>12 DEF Good, Holds
  <2>14. Used(d) = {L[i] : i \in 1 .. n}
    BY <2>12, ShapeIs
  <2>15. Same(m, d, Used(m))
    BY <2>2, <2>6, <2>8, <2>14 DEF Same
  <2> QED BY <2>2, <2>3, <2>7, <2>13, <2>14, <2>15
<1> QED BY <1>2, <1>3

\* A kernel that has stopped asks nothing of its lists.
LEMMA LostGood ==
    ASSUME NEW m \in MM, NEW fault \in Faults, fault # "no"
    PROVE  Lost(m, fault) \in Good
BY LostIs DEF Good

-----------------------------------------------------------------------------
(* Page tables.                                                            *)

\* The indices of a table.
LEMMA RadixIs == RADIX \in Nat \ {0} /\ Index \subseteq Nat /\ Index = 0 .. RADIX - 1 /\ 0 \in Index
BY PageTableAssumption DEF Index

\* The page with these indices.
PageAt(r, f, s) == RADIX * (RADIX * r + f) + s

\* The indices of a page.
LEMMA VpnOf ==
    ASSUME NEW r \in Int, NEW f \in Index, NEW s \in Index
    PROVE  Vpn(PageAt(r, f, s)) = <<s, f, r>>
<1> DEFINE q == RADIX * r + f
           p == RADIX * q + s
<1>1. q \in Int /\ p \in Int
  BY RadixIs
<1>2. q \div RADIX = r /\ q % RADIX = f
  <2> HIDE DEF p
  <2> QED BY <1>1, RadixIs, DivUnique
<1>3. p = RADIX * q + s
  OBVIOUS
<1>4. q = RADIX * r + f
  OBVIOUS
<1>5. PageAt(r, f, s) = p
  BY DEF PageAt
<1> HIDE DEF p, q
<1>6. p \div RADIX = q /\ p % RADIX = s
  BY <1>1, <1>3, RadixIs, DivUnique
<1>7. p \div (RADIX * RADIX) = r
  <2> DEFINE S == RADIX * RADIX
             t == RADIX * f + s
  <2>1. S \in Nat \ {0} /\ t \in Int
    BY RadixIs, Z3
  <2>2. p = S * r + t
    BY <1>1, <1>3, <1>4, RadixIs, Z3
  <2>3. t \in 0 .. S - 1
    <3>1. RADIX * f <= RADIX * (RADIX - 1) /\ RADIX * f >= 0
      BY RadixIs, Z3
    <3>2. RADIX * (RADIX - 1) = S - RADIX
      BY RadixIs, Z3
    <3>3. PICK x \in Int : x = RADIX * f
      BY RadixIs
    <3>4. t = x + s /\ 0 <= x /\ x <= S - RADIX
      BY <3>1, <3>2, <3>3
    <3> HIDE DEF S, t
    <3> QED BY <2>1, <3>4, RadixIs
  <2> HIDE DEF S, t
  <2>4. p \div S = r
    BY <1>1, <2>1, <2>2, <2>3, DivUnique
  <2> QED BY <2>4 DEF S
<1>8. Vpn(p) = <<s, f, r>>
  BY <1>2, <1>6, <1>7 DEF Vpn
<1> QED BY <1>5, <1>8

\* Every page has indices; all but the first are those of a table.
LEMMA VpnIs ==
    ASSUME NEW p \in Int
    PROVE  \E r \in Int, f \in Index, s \in Index : p = PageAt(r, f, s) /\ Vpn(p) = <<s, f, r>>
<1>1. PICK q \in Int, s \in Index : p = RADIX * q + s
  BY DivMod, RadixIs
<1>2. PICK r \in Int, f \in Index : q = RADIX * r + f
  BY DivMod, RadixIs
<1>3. p = PageAt(r, f, s)
  BY <1>1, <1>2 DEF PageAt
<1> QED BY <1>3, VpnOf

\* Pages are in the order of their indices.
LEMMA PageOrder ==
    ASSUME NEW r \in Int, NEW f \in Index, NEW s \in Index,
           NEW a \in Int, NEW b \in Index, NEW c \in Index
    PROVE  PageAt(r, f, s) <= PageAt(a, b, c)
           <=> r < a \/ (r = a /\ (f < b \/ (f = b /\ s <= c)))
<1>1. PICK x \in Int, y \in Int : x = RADIX * r + f /\ y = RADIX * a + b
  BY RadixIs
<1>2. RADIX * x + s <= RADIX * y + c <=> x < y \/ (x = y /\ s <= c)
  BY RadixIs, DigitOrder
<1>3. (x <= y <=> r < a \/ (r = a /\ f <= b)) /\ (y <= x <=> a < r \/ (a = r /\ b <= f))
  BY <1>1, RadixIs, DigitOrder
<1>4. x < y <=> r < a \/ (r = a /\ f < b)
  BY <1>3, RadixIs
<1>5. x = y <=> r = a /\ f = b
  BY <1>3, RadixIs
<1>6. PageAt(r, f, s) = RADIX * x + s /\ PageAt(a, b, c) = RADIX * y + c
  BY <1>1 DEF PageAt
<1> QED BY <1>2, <1>4, <1>5, <1>6

\* The pages of a table.
LEMMA VpnsIs ==
    ASSUME NEW r \in Int, NEW f \in Index, NEW s \in Index
    PROVE  PageAt(r, f, s) \in Vpns <=> r \in Index
<1> DEFINE n == RADIX - 1
<1>1. n \in Index /\ 0 \in Index /\ n \in Int /\ 0 \in Int
  BY RadixIs
<1>2. PageAt(0, 0, 0) = 0
  BY RadixIs DEF PageAt
<1>3. PageAt(n, n, n) = RADIX * RADIX * RADIX - 1
  BY RadixIs, Z3 DEF PageAt
<1>4. PageAt(r, f, s) \in Int
  BY RadixIs DEF PageAt
<1>5. 0 <= PageAt(r, f, s) <=> r >= 0
  BY <1>1, <1>2, PageOrder, RadixIs
<1>6. PageAt(r, f, s) <= PageAt(n, n, n) <=> r <= n
  BY <1>1, PageOrder, RadixIs
<1> QED BY <1>3, <1>4, <1>5, <1>6, RadixIs DEF Vpns

\* The leaf of a page is in the range of the loops.
InLoops(lo, hi, r, f, s) ==
    r \in RootRange(lo, hi) /\ f \in FirstRange(lo, hi, r) /\ s \in SecondRange(lo, hi, r, f)

\* The three nested loops come to just the leaves of the pages lo .. hi.
LEMMA LoopsAre ==
    ASSUME NEW lo \in Int, NEW hi \in Int, NEW r \in Index, NEW f \in Index, NEW s \in Index
    PROVE  InLoops(lo, hi, r, f, s) <=> lo <= PageAt(r, f, s) /\ PageAt(r, f, s) <= hi
<1>1. PICK a \in Int, b \in Index, c \in Index : lo = PageAt(a, b, c) /\ Vpn(lo) = <<c, b, a>>
  BY VpnIs
<1>2. PICK x \in Int, y \in Index, z \in Index : hi = PageAt(x, y, z) /\ Vpn(hi) = <<z, y, x>>
  BY VpnIs
<1>3. lo <= PageAt(r, f, s) <=> a < r \/ (a = r /\ (b < f \/ (b = f /\ c <= s)))
  <2>1. a \in Int /\ r \in Int
    BY RadixIs
  <2>2. PageAt(a, b, c) <= PageAt(r, f, s) <=> a < r \/ (a = r /\ (b < f \/ (b = f /\ c <= s)))
    BY <2>1, PageOrder
  <2> QED BY <1>1, <2>2
<1>4. PageAt(r, f, s) <= hi <=> r < x \/ (r = x /\ (f < y \/ (f = y /\ s <= z)))
  <2>1. x \in Int /\ r \in Int
    BY RadixIs
  <2>2. PageAt(r, f, s) <= PageAt(x, y, z) <=> r < x \/ (r = x /\ (f < y \/ (f = y /\ s <= z)))
    BY <2>1, PageOrder
  <2> QED BY <1>2, <2>2
<1>5. /\ Vpn(lo)[1] = c /\ Vpn(lo)[2] = b /\ Vpn(lo)[3] = a
      /\ Vpn(hi)[1] = z /\ Vpn(hi)[2] = y /\ Vpn(hi)[3] = x
  BY <1>1, <1>2
<1>6. r \in RootRange(lo, hi) <=> a <= r /\ r <= x
  BY <1>5, RadixIs DEF RootRange
<1>7. f \in FirstRange(lo, hi, r) <=> (r = a => b <= f) /\ (r = x => f <= y)
  BY <1>5, RadixIs DEF FirstRange
<1>8. s \in SecondRange(lo, hi, r, f) <=> (r = a /\ f = b => c <= s) /\ (r = x /\ f = y => s <= z)
  BY <1>5, RadixIs DEF SecondRange
<1> QED BY <1>3, <1>4, <1>6, <1>7, <1>8, RadixIs DEF InLoops

\* What a walk finds at given indices.
Walked(t, r, f, s) ==
    IF t[r] \in {None, Wild} THEN t[r]
    ELSE IF t[r][f] \in {None, Wild} THEN t[r][f] ELSE t[r][f][s]

\* A walk to a page of given indices.
LEMMA PteAt ==
    ASSUME NEW t, NEW r \in Int, NEW f \in Index, NEW s \in Index
    PROVE  Pte(t, PageAt(r, f, s)) = Walked(t, r, f, s)
<1>1. Vpn(PageAt(r, f, s)) = <<s, f, r>>
  BY VpnOf
<1>2. PICK v : v = Vpn(PageAt(r, f, s))
  OBVIOUS
<1>3. v[1] = s /\ v[2] = f /\ v[3] = r
  BY <1>1, <1>2
<1> QED BY <1>2, <1>3 DEF Pte, Walked

\* The indices of the pages of a table.
LEMMA VpnsHave ==
    ASSUME NEW p \in Vpns
    PROVE  \E r, f, s \in Index : p = PageAt(r, f, s) /\ Vpn(p) = <<s, f, r>>
<1>1. p \in Int
  BY RadixIs DEF Vpns
<1>2. PICK r \in Int, f \in Index, s \in Index : p = PageAt(r, f, s) /\ Vpn(p) = <<s, f, r>>
  BY <1>1, VpnIs
<1> QED BY <1>2, VpnsIs

\* A table in which the leaves lo .. hi are taken from w.
Written(t, lo, hi, w) ==
    [r \in Index |->
        IF r \notin RootRange(lo, hi) THEN t[r]
        ELSE [f \in Index |->
            IF f \notin FirstRange(lo, hi, r) THEN Table(t[r])[f]
            ELSE [s \in Index |->
                IF s \in SecondRange(lo, hi, r, f) THEN w[<<r, f, s>>]
                ELSE Table(Table(t[r])[f])[s]]]]

\* The entries of d that nobody has written are entries of t that nobody has.
Tamer(d, t) ==
    \A r \in Index :
        /\ d[r] = Wild => t[r] = Wild
        /\ d[r] \notin {None, Wild} => \A f \in Index :
               d[r][f] = Wild => t[r] \notin {None, Wild} /\ t[r][f] = Wild

Leaves == [Index \X Index \X Index -> Ptes]

\* The table an entry points to, once it is there.
LEMMA TableIs ==
    /\ \A e \in FirstTables \cup {None} : Table(e) \in FirstTables
    /\ \A e \in SecondTables \cup {None} : Table(e) \in SecondTables
    /\ EmptyTable \in Tables /\ \A f \in Index : EmptyTable[f] = None
    /\ None # Wild /\ Wild \notin Ptes /\ None \in Ptes
    /\ Frames \subseteq Ptes /\ None \notin Frames /\ Wild \notin Frames
    /\ None \notin FirstTables /\ None \notin SecondTables
    /\ Wild \notin FirstTables /\ Wild \notin SecondTables
<1>1. None \in Ptes
  BY DEF Ptes
<1>2. EmptyTable \in SecondTables /\ EmptyTable \in FirstTables /\ EmptyTable \in Tables
      /\ \A f \in Index : EmptyTable[f] = None
  BY <1>1 DEF EmptyTable, SecondTables, FirstTables, Tables
<1> QED BY <1>1, <1>2, PageTableAssumption DEF Table, Ptes

\* Writing leaves where the tables are sound gives a sound table that translates
\* the pages lo .. hi as written and all others as before.
LEMMA WrittenIs ==
    ASSUME NEW t \in Tables, NEW lo \in Int, NEW hi \in Int, ~MeetsWild(t, lo, hi),
           NEW w \in Leaves
    PROVE  LET d == Written(t, lo, hi, w) IN
           /\ d \in Tables /\ Tamer(d, t)
           /\ \A r, f, s \in Index : LET p == PageAt(r, f, s) IN
                Pte(d, p) = IF lo <= p /\ p <= hi THEN w[<<r, f, s>>] ELSE Pte(t, p)
<1> DEFINE d == Written(t, lo, hi, w)
           In(r) == r \in RootRange(lo, hi)
           In1(r, f) == f \in FirstRange(lo, hi, r)
           In2(r, f, s) == s \in SecondRange(lo, hi, r, f)
           F(r) == Table(t[r])
           S(r, f) == Table(F(r)[f])
           row(r, f) == [s \in Index |-> IF In2(r, f, s) THEN w[<<r, f, s>>] ELSE S(r, f)[s]]
           sub(r) == [f \in Index |-> IF ~In1(r, f) THEN F(r)[f] ELSE row(r, f)]
<1>1. d = [r \in Index |-> IF ~In(r) THEN t[r] ELSE sub(r)]
  BY DEF Written
<1>2. ASSUME NEW r \in Index
      PROVE  t[r] \in FirstTables \cup {None, Wild}
  BY DEF Tables
<1>3. ASSUME NEW r \in Index, In(r)
      PROVE  t[r] \in FirstTables \cup {None} /\ F(r) \in FirstTables
  <2>1. t[r] # Wild
    BY <1>3 DEF MeetsWild
  <2> QED BY <1>2, <2>1, TableIs
<1>4. ASSUME NEW r \in Index, In(r), NEW f \in Index
      PROVE  F(r)[f] = IF t[r] = None THEN None ELSE t[r][f]
  BY TableIs DEF Table
<1>5. ASSUME NEW r \in Index, In(r), NEW f \in Index, In1(r, f)
      PROVE  F(r)[f] \in SecondTables \cup {None} /\ S(r, f) \in SecondTables
  <2>1. F(r)[f] # Wild
    <3>1. CASE t[r] = None
      BY <1>4, <1>5, <3>1, TableIs
    <3>2. CASE t[r] # None
      <4>1. t[r][f] # Wild
        BY <1>5, <3>2 DEF MeetsWild
      <4> QED BY <1>4, <1>5, <3>2, <4>1
    <3> QED BY <3>1, <3>2
  <2>2. F(r)[f] \in SecondTables \cup {None, Wild}
    BY <1>3, <1>5 DEF FirstTables
  <2> QED BY <2>1, <2>2, TableIs
<1>6. ASSUME NEW r \in Index, NEW f \in Index, NEW s \in Index PROVE w[<<r, f, s>>] \in Ptes
  BY DEF Leaves
<1>7. ASSUME NEW r \in Index, In(r), NEW f \in Index, In1(r, f)
      PROVE  row(r, f) \in SecondTables
  <2>1. \A s \in Index : S(r, f)[s] \in Ptes
    BY <1>5, <1>7 DEF SecondTables
  <2> HIDE DEF S, In2
  <2> QED BY <1>6, <2>1 DEF SecondTables
<1>8. ASSUME NEW r \in Index, In(r) PROVE sub(r) \in FirstTables
  <2>1. \A f \in Index : F(r)[f] \in SecondTables \cup {None, Wild}
    BY <1>3, <1>8 DEF FirstTables
  <2>2. \A f \in Index : In1(r, f) => row(r, f) \in SecondTables
    BY <1>7, <1>8
  <2> HIDE DEF F, row, In1
  <2> QED BY <2>1, <2>2 DEF FirstTables
<1> HIDE DEF d
<1>9. d \in Tables
  <2> HIDE DEF sub, In
  <2> QED BY <1>1, <1>2, <1>8 DEF Tables
<1>10. ASSUME NEW r \in Index PROVE d[r] = IF ~In(r) THEN t[r] ELSE sub(r)
  <2> HIDE DEF sub, In
  <2> QED BY <1>1
<1>11. ASSUME NEW r \in Index, NEW f \in Index
       PROVE  sub(r)[f] = IF ~In1(r, f) THEN F(r)[f] ELSE row(r, f)
  <2> HIDE DEF F, row, In1
  <2> QED OBVIOUS
<1>12. ASSUME NEW r \in Index, NEW f \in Index, NEW s \in Index
       PROVE  row(r, f)[s] = IF In2(r, f, s) THEN w[<<r, f, s>>] ELSE S(r, f)[s]
  <2> HIDE DEF S, In2
  <2> QED OBVIOUS
<1>13. Tamer(d, t)
  <2>1. ASSUME NEW r \in Index, d[r] = Wild PROVE t[r] = Wild
    <3> HIDE DEF sub, In
    <3> QED BY <1>8, <1>10, <2>1, TableIs
  <2>2. ASSUME NEW r \in Index, d[r] \notin {None, Wild}, NEW f \in Index, d[r][f] = Wild
        PROVE  t[r] \notin {None, Wild} /\ t[r][f] = Wild
    <3>1. CASE ~In(r)
      <4> HIDE DEF sub, In
      <4> QED BY <1>10, <2>2, <3>1
    <3>2. CASE In(r)
      <4>1. sub(r)[f] = Wild
        <5> HIDE DEF sub, In
        <5> QED BY <1>10, <2>2, <3>2
      <4>2. F(r)[f] = Wild
        <5>1. In1(r, f) => row(r, f) # Wild
          <6> HIDE DEF row
          <6> QED BY <1>7, <3>2, TableIs
        <5> HIDE DEF row, F, In1, sub
        <5> QED BY <1>11, <4>1, <5>1
      <4>3. t[r] # Wild
        BY <1>3, <3>2, TableIs
      <4> HIDE DEF F
      <4> QED BY <1>4, <3>2, <4>2, <4>3, TableIs
    <3> QED BY <3>1, <3>2
  <2> QED BY <2>1, <2>2 DEF Tamer
<1>14. ASSUME NEW r \in Index, NEW f \in Index, NEW s \in Index
       PROVE  Pte(d, PageAt(r, f, s)) =
                IF lo <= PageAt(r, f, s) /\ PageAt(r, f, s) <= hi THEN w[<<r, f, s>>]
                ELSE Pte(t, PageAt(r, f, s))
  <2>1. /\ Pte(d, PageAt(r, f, s)) =
             IF d[r] \in {None, Wild} THEN d[r]
             ELSE IF d[r][f] \in {None, Wild} THEN d[r][f] ELSE d[r][f][s]
        /\ Pte(t, PageAt(r, f, s)) =
             IF t[r] \in {None, Wild} THEN t[r]
             ELSE IF t[r][f] \in {None, Wild} THEN t[r][f] ELSE t[r][f][s]
    <3>1. r \in Int
      BY RadixIs
    <3>2. \A x : Pte(x, PageAt(r, f, s)) = Walked(x, r, f, s)
      BY <3>1, PteAt
    <3> QED BY <3>2 DEF Walked
  <2>2. lo <= PageAt(r, f, s) /\ PageAt(r, f, s) <= hi <=> In(r) /\ In1(r, f) /\ In2(r, f, s)
    BY LoopsAre DEF InLoops
  <2>3. CASE ~In(r)
    <3>1. d[r] = t[r]
      <4> HIDE DEF sub, In
      <4> QED BY <1>10, <2>3
    <3> HIDE DEF In, In1, In2
    <3> QED BY <2>1, <2>2, <2>3, <3>1
  <2>4. CASE In(r) /\ ~In1(r, f)
    <3>1. d[r] = sub(r) /\ sub(r) \in FirstTables
      <4> HIDE DEF sub, In
      <4> QED BY <1>8, <1>10, <2>4
    <3>2. sub(r)[f] = F(r)[f]
      <4> HIDE DEF F, row, In1, sub
      <4> QED BY <1>11, <2>4
    <3>3. F(r)[f] = IF t[r] = None THEN None ELSE t[r][f]
      BY <1>4, <2>4
    <3>4. t[r] # Wild
      BY <1>3, <2>4, TableIs
    <3>5. sub(r) \notin {None, Wild}
      <4> HIDE DEF sub
      <4> QED BY <3>1, TableIs
    <3>6. t[r] \notin {None, Wild} => d[r][f] = t[r][f] /\ d[r] \notin {None, Wild}
      <4> HIDE DEF sub, F
      <4> QED BY <3>1, <3>2, <3>3, <3>5
    <3>7. t[r] = None => d[r][f] = None /\ d[r] \notin {None, Wild}
      <4> HIDE DEF sub, F
      <4> QED BY <3>1, <3>2, <3>3, <3>5
    <3> HIDE DEF In, In1, In2, sub, F
    <3>9. CASE t[r] = None
      BY <2>1, <2>2, <2>4, <3>7, <3>9
    <3>10. CASE t[r] # None
      BY <2>1, <2>2, <2>4, <3>4, <3>6, <3>10
    <3> QED BY <3>9, <3>10
  <2>5. CASE In(r) /\ In1(r, f)
    <3>1. d[r] = sub(r) /\ sub(r) \in FirstTables
      <4> HIDE DEF sub, In
      <4> QED BY <1>8, <1>10, <2>5
    <3>2. sub(r)[f] = row(r, f) /\ row(r, f) \in SecondTables
      <4> HIDE DEF F, row, In1, sub
      <4> QED BY <1>7, <1>11, <2>5
    <3>3. d[r] \notin {None, Wild} /\ d[r][f] = row(r, f) /\ d[r][f] \notin {None, Wild}
      <4> HIDE DEF sub, row
      <4> QED BY <3>1, <3>2, TableIs
    <3>4. Pte(d, PageAt(r, f, s)) = IF In2(r, f, s) THEN w[<<r, f, s>>] ELSE S(r, f)[s]
      <4> HIDE DEF row, In2, S
      <4> QED BY <1>12, <2>1, <3>3
    <3>5. F(r)[f] = IF t[r] = None THEN None ELSE t[r][f]
      BY <1>4, <2>5
    <3>6. t[r] # Wild /\ F(r)[f] # Wild
      BY <1>3, <1>5, <2>5, TableIs
    <3>7. S(r, f)[s] = IF F(r)[f] = None THEN None ELSE F(r)[f][s]
      BY TableIs DEF Table
    <3>8. S(r, f)[s] = Pte(t, PageAt(r, f, s))
      <4> HIDE DEF S, F
      <4> QED BY <2>1, <3>5, <3>6, <3>7
    <3> HIDE DEF In, In1, In2, S
    <3> QED BY <2>2, <2>5, <3>4, <3>8
  <2> QED BY <2>3, <2>4, <2>5
<1> QED BY <1>9, <1>13, <1>14 DEF d

\* The leaves the loops have come to before that of a page are as many as the
\* pages before it.
LEMMA CountIs ==
    ASSUME NEW lo \in Vpns, NEW hi \in Vpns, NEW r \in Index, NEW f \in Index, NEW s \in Index,
           lo <= PageAt(r, f, s), PageAt(r, f, s) <= hi
    PROVE  Cardinality({k \in Visited(lo, hi) : Before(k, <<r, f, s>>)}) = PageAt(r, f, s) - lo
<1> DEFINE p == PageAt(r, f, s)
           K == {k \in Visited(lo, hi) : Before(k, <<r, f, s>>)}
           at == [x \in lo .. p - 1 |-> <<Vpn(x)[3], Vpn(x)[2], Vpn(x)[1]>>]
<1>1. lo \in Int /\ hi \in Int /\ p \in Int /\ p \in Vpns /\ Vpns = 0 .. RADIX * RADIX * RADIX - 1
  BY VpnsIs, RadixIs DEF Vpns, PageAt
<1>2. ASSUME NEW a \in Index, NEW b \in Index, NEW c \in Index
      PROVE  <<a, b, c>> \in K <=> lo <= PageAt(a, b, c) /\ PageAt(a, b, c) < p
  <2>1. <<a, b, c>> \in Visited(lo, hi) <=> InLoops(lo, hi, a, b, c)
    BY DEF Visited, InLoops
  <2>2. InLoops(lo, hi, a, b, c) <=> lo <= PageAt(a, b, c) /\ PageAt(a, b, c) <= hi
    BY <1>1, LoopsAre
  <2>3. a \in Int /\ r \in Int /\ PageAt(a, b, c) \in Int
    BY RadixIs DEF PageAt
  <2>4. Before(<<a, b, c>>, <<r, f, s>>) <=> a < r \/ (a = r /\ (b < f \/ (b = f /\ c < s)))
    BY DEF Before
  <2>5. PageAt(r, f, s) <= PageAt(a, b, c) <=> r < a \/ (r = a /\ (f < b \/ (f = b /\ s <= c)))
    BY <2>3, PageOrder
  <2>6. Before(<<a, b, c>>, <<r, f, s>>) <=> ~ (p <= PageAt(a, b, c))
    BY <2>4, <2>5, RadixIs
  <2>7. <<a, b, c>> \in K <=> /\ <<a, b, c>> \in Visited(lo, hi)
                              /\ Before(<<a, b, c>>, <<r, f, s>>)
    OBVIOUS
  <2>8. PICK x \in Int : x = PageAt(a, b, c)
    BY <2>3
  <2> HIDE DEF p, K
  <2>9. p <= hi
    BY DEF p
  <2> QED BY <1>1, <2>1, <2>2, <2>6, <2>7, <2>8, <2>9
<1>3. ASSUME NEW k \in K PROVE \E a, b, c \in Index : k = <<a, b, c>>
  <2>0. PICK a \in RootRange(lo, hi) :
            \E b \in FirstRange(lo, hi, a) : \E c : c \in SecondRange(lo, hi, a, b) /\ k = <<a, b, c>>
    BY DEF K, Visited
  <2>1. PICK b \in FirstRange(lo, hi, a) : \E c : c \in SecondRange(lo, hi, a, b) /\ k = <<a, b, c>>
    BY <2>0
  <2>9. PICK c \in SecondRange(lo, hi, a, b) : k = <<a, b, c>>
    BY <2>1
  <2>2. PICK a1, b1, c1 \in Index : lo = PageAt(a1, b1, c1) /\ Vpn(lo) = <<c1, b1, a1>>
    BY VpnsHave
  <2>3. PICK a2, b2, c2 \in Index : hi = PageAt(a2, b2, c2) /\ Vpn(hi) = <<c2, b2, a2>>
    BY VpnsHave
  <2>4. a \in Index
    BY <2>2, <2>3, RadixIs DEF RootRange
  <2>5. b \in Index
    BY <2>2, <2>3, RadixIs DEF FirstRange
  <2>6. c \in Index
    BY <2>2, <2>3, RadixIs DEF SecondRange
  <2> QED BY <2>9, <2>4, <2>5, <2>6
<1>4. ASSUME NEW x \in lo .. p - 1
      PROVE  \E a, b, c \in Index : x = PageAt(a, b, c) /\ at[x] = <<a, b, c>>
  <2>1. x \in Vpns
    <3>1. PICK n \in Int : n = RADIX * RADIX * RADIX
      BY RadixIs
    <3> HIDE DEF p
    <3> QED BY <1>1, <3>1
  <2>2. PICK a, b, c \in Index : x = PageAt(a, b, c) /\ Vpn(x) = <<c, b, a>>
    BY <2>1, VpnsHave
  <2>3. at[x] = <<Vpn(x)[3], Vpn(x)[2], Vpn(x)[1]>>
    OBVIOUS
  <2> QED BY <2>2, <2>3
<1> HIDE DEF p, K, at
<1>5. ASSUME NEW x \in lo .. p - 1 PROVE at[x] \in K
  <2>1. PICK a, b, c \in Index : x = PageAt(a, b, c) /\ at[x] = <<a, b, c>>
    BY <1>4
  <2> QED BY <1>1, <1>2, <2>1
<1>6. at \in [lo .. p - 1 -> K]
  <2>1. at = [x \in lo .. p - 1 |-> at[x]]
    BY DEF at
  <2> QED BY <1>5, <2>1
<1>7. ASSUME NEW x \in lo .. p - 1, NEW y \in lo .. p - 1, at[x] = at[y] PROVE x = y
  <2>1. PICK a, b, c \in Index : x = PageAt(a, b, c) /\ at[x] = <<a, b, c>>
    BY <1>4
  <2>2. PICK a1, b1, c1 \in Index : y = PageAt(a1, b1, c1) /\ at[y] = <<a1, b1, c1>>
    BY <1>4
  <2> QED BY <1>7, <2>1, <2>2
<1>8. ASSUME NEW k \in K PROVE \E x \in lo .. p - 1 : at[x] = k
  <2>1. PICK a, b, c \in Index : k = <<a, b, c>>
    BY <1>3
  <2>2. PageAt(a, b, c) \in lo .. p - 1
    <3>1. PageAt(a, b, c) \in Int
      BY RadixIs DEF PageAt
    <3> QED BY <1>1, <1>2, <2>1, <3>1
  <2>3. PICK a1, b1, c1 \in Index : /\ PageAt(a, b, c) = PageAt(a1, b1, c1)
                                    /\ at[PageAt(a, b, c)] = <<a1, b1, c1>>
    BY <1>4, <2>2
  <2>4. <<c, b, a>> = <<c1, b1, a1>>
    <3>1. a \in Int /\ a1 \in Int
      BY RadixIs
    <3>2. Vpn(PageAt(a, b, c)) = <<c, b, a>>
      BY <3>1, VpnOf
    <3>3. Vpn(PageAt(a1, b1, c1)) = <<c1, b1, a1>>
      BY <3>1, VpnOf
    <3> QED BY <2>3, <3>2, <3>3
  <2> QED BY <2>1, <2>2, <2>3, <2>4
<1>9. at \in Bijection(lo .. p - 1, K)
  BY <1>6, <1>7, <1>8 DEF Bijection, Injection, Surjection, IsInjective
<1>10. IsFiniteSet(lo .. p - 1) /\ Cardinality(lo .. p - 1) = p - lo
  <2>1. lo <= p
    BY DEF p
  <2>2. Cardinality(lo .. p - 1) = (IF lo > p - 1 THEN 0 ELSE (p - 1) - lo + 1)
        /\ IsFiniteSet(lo .. p - 1)
    <3>1. p - 1 \in Int
      BY <1>1
    <3> QED BY <1>1, <3>1, FS_Interval
  <2> QED BY <1>1, <2>1, <2>2
<1>11. Cardinality(K) = Cardinality(lo .. p - 1)
  BY <1>9, <1>10, FS_Bijection DEF ExistsBijection
<1> QED BY <1>10, <1>11 DEF K, p

\* d is t with the pages lo .. hi mapped to the frames from ppn on.
Maps(d, t, lo, hi, ppn, perm) ==
    /\ d \in Tables /\ Tamer(d, t)
    /\ \A p \in Vpns : Pte(d, p) = IF lo <= p /\ p <= hi THEN [ppn |-> ppn + (p - lo), perm |-> perm]
                                   ELSE Pte(t, p)

\* d is t without the pages lo .. hi.
Clears(d, t, lo, hi) ==
    /\ d \in Tables /\ Tamer(d, t)
    /\ \A p \in Vpns : Pte(d, p) = IF lo <= p /\ p <= hi THEN None ELSE Pte(t, p)

\* create_mapping maps a range of pages to consecutive frames and changes no other.
LEMMA CreateIs ==
    ASSUME NEW t \in Tables, NEW va, NEW ppn \in Nat, NEW sz, NEW perm \in Perms,
           Low(va) \in Vpns, High(va, sz) \in Int, High(va, sz) < RADIX * RADIX * RADIX,
           ~MeetsWild(t, Low(va), High(va, sz))
    PROVE  Maps(create_mapping(t, va, ppn, sz, perm), t, Low(va), High(va, sz), ppn, perm)
<1>1. PICK lo \in Vpns, hi \in Int : lo = Low(va) /\ hi = High(va, sz)
  OBVIOUS
<1> DEFINE count(l) == Cardinality({k \in Visited(lo, hi) : Before(k, l)})
           in(r, f, s) == lo <= PageAt(r, f, s) /\ PageAt(r, f, s) <= hi
           leaf(l) == [ppn |-> ppn + count(l), perm |-> perm]
           at(l) == PageAt(l[1], l[2], l[3])
           leaf2(l) == IF lo <= at(l) /\ at(l) <= hi THEN leaf(l) ELSE None
           w == [l \in Index \X Index \X Index |-> leaf2(l)]
           c == create_mapping(t, va, ppn, sz, perm)
<1>2. lo \in Int /\ Vpns = 0 .. RADIX * RADIX * RADIX - 1 /\ RADIX * RADIX * RADIX \in Int
  BY RadixIs DEF Vpns
<1>3. ASSUME NEW r \in Index, NEW f \in Index, NEW s \in Index, in(r, f, s)
      PROVE  count(<<r, f, s>>) = PageAt(r, f, s) - lo
  <2>1. PageAt(r, f, s) \in Int
    BY RadixIs DEF PageAt
  <2>2. hi \in Vpns
    <3>1. PICK n \in Int : n = RADIX * RADIX * RADIX
      BY <1>2
    <3>2. PICK p \in Int : p = PageAt(r, f, s)
      BY <2>1
    <3> QED BY <1>1, <1>2, <1>3, <3>1, <3>2
  <2> QED BY <1>3, <2>2, CountIs
<1>4. ASSUME NEW r \in Index, NEW f \in Index, NEW s \in Index
      PROVE  /\ w[<<r, f, s>>] = IF in(r, f, s) THEN leaf(<<r, f, s>>) ELSE None
             /\ in(r, f, s) => leaf(<<r, f, s>>) = [ppn |-> ppn + (PageAt(r, f, s) - lo), perm |-> perm]
  <2>1. <<r, f, s>> \in Index \X Index \X Index /\ at(<<r, f, s>>) = PageAt(r, f, s)
    OBVIOUS
  <2>2. w[<<r, f, s>>] = leaf2(<<r, f, s>>)
    <3> HIDE DEF leaf2
    <3> QED BY <2>1
  <2>3. leaf2(<<r, f, s>>) = IF in(r, f, s) THEN leaf(<<r, f, s>>) ELSE None
    <3> HIDE DEF leaf
    <3> QED BY <2>1
  <2>4. in(r, f, s) => leaf(<<r, f, s>>) = [ppn |-> ppn + (PageAt(r, f, s) - lo), perm |-> perm]
    <3> HIDE DEF count, in
    <3> QED BY <1>3
  <2> HIDE DEF w, leaf2, leaf, in
  <2> QED BY <2>2, <2>3, <2>4
<1>5. w \in Leaves
  <2>1. ASSUME NEW l \in Index \X Index \X Index PROVE leaf2(l) \in Ptes
    <3>1. PICK r, f, s \in Index : l = <<r, f, s>>
      OBVIOUS
    <3>2. w[l] = leaf2(l)
      <4> HIDE DEF leaf2
      <4> QED OBVIOUS
    <3>3. in(r, f, s) => ppn + (PageAt(r, f, s) - lo) \in Nat
      <4>1. PageAt(r, f, s) \in Int
        BY RadixIs DEF PageAt
      <4> QED BY <1>2, <4>1
    <3>4. /\ w[l] = IF in(r, f, s) THEN leaf(l) ELSE None
          /\ in(r, f, s) => leaf(l) = [ppn |-> ppn + (PageAt(r, f, s) - lo), perm |-> perm]
      <4> HIDE DEF w, leaf, in
      <4> QED BY <1>4, <3>1
    <3> HIDE DEF w, leaf, leaf2, in
    <3> QED BY <3>2, <3>3, <3>4 DEF Ptes, Frames
  <2> HIDE DEF leaf2
  <2> QED BY <2>1 DEF Leaves
<1>6. c = Written(t, lo, hi, w)
  <2>1. c = [r \in Index |->
                IF r \notin RootRange(lo, hi) THEN t[r]
                ELSE [f \in Index |->
                    IF f \notin FirstRange(lo, hi, r) THEN Table(t[r])[f]
                    ELSE [s \in Index |->
                        IF s \in SecondRange(lo, hi, r, f) THEN leaf(<<r, f, s>>)
                        ELSE Table(Table(t[r])[f])[s]]]]
    BY <1>1, Zenon DEF create_mapping, ForLeaves
  <2>2. ASSUME NEW r \in Index, NEW f \in Index, NEW s \in Index,
               r \in RootRange(lo, hi), f \in FirstRange(lo, hi, r), s \in SecondRange(lo, hi, r, f)
        PROVE  leaf(<<r, f, s>>) = w[<<r, f, s>>]
    <3>1. in(r, f, s)
      BY <1>2, <2>2, LoopsAre DEF InLoops
    <3> HIDE DEF w, leaf, in
    <3> QED BY <1>4, <3>1
  <2> HIDE DEF c, w, leaf
  <2> QED BY <2>1, <2>2 DEF Written
<1> HIDE DEF w, c
<1>7. /\ c \in Tables /\ Tamer(c, t)
      /\ \A r, f, s \in Index : LET p == PageAt(r, f, s) IN
           Pte(c, p) = IF lo <= p /\ p <= hi THEN w[<<r, f, s>>] ELSE Pte(t, p)
  BY <1>1, <1>2, <1>5, <1>6, WrittenIs
<1>8. ASSUME NEW p \in Vpns
      PROVE  Pte(c, p) = IF lo <= p /\ p <= hi THEN [ppn |-> ppn + (p - lo), perm |-> perm]
                         ELSE Pte(t, p)
  <2>1. PICK r, f, s \in Index : p = PageAt(r, f, s)
    BY VpnsHave
  <2> HIDE DEF leaf
  <2> QED BY <1>4, <1>7, <2>1
<1> QED BY <1>1, <1>7, <1>8 DEF Maps, c

\* remove_mapping clears a range of pages and changes no other.
LEMMA RemoveIs ==
    ASSUME NEW t \in Tables, NEW va, NEW sz, Low(va) \in Int, High(va, sz) \in Int,
           ~MeetsWild(t, Low(va), High(va, sz))
    PROVE  Clears(remove_mapping(t, va, sz), t, Low(va), High(va, sz))
<1>1. PICK lo \in Int, hi \in Int : lo = Low(va) /\ hi = High(va, sz)
  OBVIOUS
<1> DEFINE w == [l \in Index \X Index \X Index |-> None]
           c == remove_mapping(t, va, sz)
<1>2. w \in Leaves /\ \A r, f, s \in Index : w[<<r, f, s>>] = None
  BY TableIs DEF Leaves
<1>3. c = Written(t, lo, hi, w)
  <2>1. c = [r \in Index |->
                IF r \notin RootRange(lo, hi) THEN t[r]
                ELSE [f \in Index |->
                    IF f \notin FirstRange(lo, hi, r) THEN Table(t[r])[f]
                    ELSE [s \in Index |->
                        IF s \in SecondRange(lo, hi, r, f) THEN None
                        ELSE Table(Table(t[r])[f])[s]]]]
    BY <1>1, Zenon DEF remove_mapping, ForLeaves
  <2> HIDE DEF c, w
  <2> QED BY <1>2, <2>1 DEF Written
<1> HIDE DEF w, c
<1>4. /\ c \in Tables /\ Tamer(c, t)
      /\ \A r, f, s \in Index : LET p == PageAt(r, f, s) IN
           Pte(c, p) = IF lo <= p /\ p <= hi THEN w[<<r, f, s>>] ELSE Pte(t, p)
  BY <1>1, <1>2, <1>3, WrittenIs
<1>5. ASSUME NEW p \in Vpns
      PROVE  Pte(c, p) = IF lo <= p /\ p <= hi THEN None ELSE Pte(t, p)
  <2>1. PICK r, f, s \in Index : p = PageAt(r, f, s)
    BY VpnsHave
  <2> QED BY <1>2, <1>4, <2>1
<1> QED BY <1>1, <1>4, <1>5 DEF Clears, c

\* The loops stay within the tables.
LEMMA LoopsWithin ==
    ASSUME NEW lo \in Vpns, NEW hi \in Int, hi < RADIX * RADIX * RADIX
    PROVE  RootRange(lo, hi) \subseteq Index /\ \A r : FirstRange(lo, hi, r) \subseteq Index
<1>1. PICK a, b, c \in Index : lo = PageAt(a, b, c) /\ Vpn(lo) = <<c, b, a>>
  BY VpnsHave
<1>2. PICK x \in Int, y \in Index, z \in Index : hi = PageAt(x, y, z) /\ Vpn(hi) = <<z, y, x>>
  BY VpnIs
<1> DEFINE n == RADIX - 1
<1>3. n \in Index /\ n \in Int
  BY RadixIs
<1>4. PageAt(n, n, n) = RADIX * RADIX * RADIX - 1
  BY RadixIs, Z3 DEF PageAt
<1>5. PageAt(x, y, z) <= PageAt(n, n, n) => x <= n
  BY <1>3, PageOrder, RadixIs
<1>6. x <= n
  <2>1. PICK m \in Int : m = RADIX * RADIX * RADIX
    BY RadixIs
  <2> HIDE DEF n
  <2> QED BY <1>2, <1>4, <1>5, <2>1
<1>7. RootRange(lo, hi) \subseteq Index
  BY <1>1, <1>2, <1>6, RadixIs DEF RootRange
<1>8. ASSUME NEW r PROVE FirstRange(lo, hi, r) \subseteq Index
  BY <1>1, <1>2, RadixIs DEF FirstRange
<1> QED BY <1>7, <1>8

\* A table all of whose entries have been written.
NoWild(t) == \A r \in Index : t[r] # Wild /\ (t[r] # None => \A f \in Index : t[r][f] # Wild)

\* The loops meet no entry that nobody has written where there is none.
LEMMA NoWildMet ==
    ASSUME NEW t \in Tables, NoWild(t), NEW lo \in Vpns, NEW hi \in Int, hi < RADIX * RADIX * RADIX
    PROVE  ~MeetsWild(t, lo, hi)
<1>1. RootRange(lo, hi) \subseteq Index /\ \A r : FirstRange(lo, hi, r) \subseteq Index
  BY LoopsWithin
<1> QED BY <1>1 DEF NoWild, MeetsWild

\* Where the loops over all pages meet none, there is none.
LEMMA AllMet ==
    ASSUME NEW t, ~MeetsWild(t, 0, RADIX * RADIX * RADIX - 1)
    PROVE  NoWild(t)
<1> DEFINE n == RADIX - 1
           top == RADIX * RADIX * RADIX - 1
<1>1. n \in Index /\ n \in Int /\ 0 \in Index /\ 0 \in Int /\ Index = 0 .. n
  BY RadixIs
<1>2. PageAt(0, 0, 0) = 0 /\ PageAt(n, n, n) = top
  BY RadixIs, Z3 DEF PageAt
<1> HIDE DEF n, top
<1>3. Vpn(0) = <<0, 0, 0>> /\ Vpn(top) = <<n, n, n>>
  BY <1>1, <1>2, VpnOf
<1>4. RootRange(0, top) = Index
  BY <1>1, <1>3 DEF RootRange
<1>5. n = RADIX - 1
  BY DEF n
<1>6. \A r \in Index : FirstRange(0, top, r) = Index
  BY <1>1, <1>3, <1>5 DEF FirstRange
<1>7. ~MeetsWild(t, 0, top)
  BY DEF top
<1> QED BY <1>4, <1>6, <1>7 DEF MeetsWild, NoWild

\* Mapping and unmapping adds no such entry.
LEMMA TamerMet ==
    ASSUME NEW t \in Tables, NEW d \in Tables, Tamer(d, t),
           NEW lo \in Vpns, NEW hi \in Int, hi < RADIX * RADIX * RADIX, ~MeetsWild(t, lo, hi)
    PROVE  ~MeetsWild(d, lo, hi)
<1>1. RootRange(lo, hi) \subseteq Index /\ \A r : FirstRange(lo, hi, r) \subseteq Index
  BY LoopsWithin
<1> SUFFICES ASSUME NEW r \in RootRange(lo, hi),
                    d[r] = Wild \/ (d[r] # None /\ \E f \in FirstRange(lo, hi, r) : d[r][f] = Wild)
             PROVE  FALSE
  BY DEF MeetsWild
<1>2. t[r] # Wild /\ (t[r] # None => \A f \in FirstRange(lo, hi, r) : t[r][f] # Wild)
  BY DEF MeetsWild
<1>3. r \in Index
  BY <1>1
<1>4. d[r] # Wild
  BY <1>2, <1>3 DEF Tamer
<1>5. PICK f \in FirstRange(lo, hi, r) : d[r] # None /\ d[r][f] = Wild
  BY <1>4
<1>6. f \in Index
  BY <1>1
<1>7. t[r] \notin {None, Wild} /\ t[r][f] = Wild
  BY <1>3, <1>4, <1>5, <1>6 DEF Tamer
<1> QED BY <1>2, <1>5, <1>7

\* A table without such an entry stays without one.
LEMMA TamerNoWild ==
    ASSUME NEW t, NEW d, Tamer(d, t), NoWild(t)
    PROVE  NoWild(d)
BY TableIs DEF Tamer, NoWild

\* A copy translates every page that the original maps as the original does, and
\* no other one to a frame.
LEMMA CopyIs ==
    ASSUME NEW t \in Tables, NoWild(t), NEW a \in {None, Wild}, NEW b \in {None, Wild}
    PROVE  LET d == copy_mapping(t, a, b) IN
           /\ d \in Tables
           /\ \A p \in Vpns : IF Pte(t, p) # None THEN Pte(d, p) = Pte(t, p)
                              ELSE Pte(d, p) \in {None, a, b}
<1> DEFINE sub(r) == [f \in Index |-> IF t[r][f] = None THEN b ELSE t[r][f]]
           d == copy_mapping(t, a, b)
<1>1. d = [r \in Index |-> IF t[r] = None THEN a ELSE sub(r)]
  BY DEF copy_mapping
<1>2. ASSUME NEW r \in Index, t[r] # None PROVE t[r] \in FirstTables /\ sub(r) \in FirstTables
  <2>1. t[r] \in FirstTables
    BY <1>2 DEF Tables, NoWild
  <2>2. \A f \in Index : (IF t[r][f] = None THEN b ELSE t[r][f]) \in SecondTables \cup {None, Wild}
    BY <2>1 DEF FirstTables
  <2> QED BY <2>1, <2>2 DEF FirstTables
<1> HIDE DEF d
<1>3. d \in Tables
  <2> HIDE DEF sub
  <2> QED BY <1>1, <1>2 DEF Tables
<1>4. ASSUME NEW p \in Vpns
      PROVE  IF Pte(t, p) # None THEN Pte(d, p) = Pte(t, p) ELSE Pte(d, p) \in {None, a, b}
  <2>1. PICK r, f, s \in Index : p = PageAt(r, f, s)
    BY VpnsHave
  <2>2. r \in Int
    BY RadixIs
  <2>3. Pte(d, p) = IF d[r] \in {None, Wild} THEN d[r]
                    ELSE IF d[r][f] \in {None, Wild} THEN d[r][f] ELSE d[r][f][s]
    BY <2>1, <2>2, PteAt DEF Walked
  <2>4. Pte(t, p) = IF t[r] \in {None, Wild} THEN t[r]
                    ELSE IF t[r][f] \in {None, Wild} THEN t[r][f] ELSE t[r][f][s]
    BY <2>1, <2>2, PteAt DEF Walked
  <2>5. t[r] # Wild /\ (t[r] # None => t[r][f] # Wild)
    BY DEF NoWild
  <2>6. CASE t[r] = None
    <3>1. d[r] = a
      BY <1>1, <2>6
    <3> QED BY <2>3, <2>4, <2>6, <3>1
  <2>7. CASE t[r] # None
    <3>1. d[r] = sub(r) /\ sub(r) \in FirstTables
      <4> HIDE DEF sub
      <4> QED BY <1>1, <1>2, <2>7
    <3>2. sub(r)[f] = IF t[r][f] = None THEN b ELSE t[r][f]
      OBVIOUS
    <3>3. d[r] \notin {None, Wild} /\ d[r][f] = IF t[r][f] = None THEN b ELSE t[r][f]
      <4> HIDE DEF sub
      <4> QED BY <3>1, <3>2, TableIs
    <3> HIDE DEF sub
    <3> QED BY <2>3, <2>4, <2>5, <2>7, <3>3
  <2> QED BY <2>6, <2>7
<1> QED BY <1>3, <1>4 DEF d

-----------------------------------------------------------------------------
(* Pages and addresses.                                                    *)

\* A page begins at or below an address if it is not behind that address's page.
LEMMA LowOrder ==
    ASSUME NEW a \in Int, NEW p \in Int
    PROVE  Low(a) \in Int /\ (p <= Low(a) <=> PGSIZE * p <= a)
<1>1. PGSIZE \in Nat \ {0}
  BY PageTableAssumption
<1>2. PICK q \in Int, r \in 0 .. PGSIZE - 1 : q = a \div PGSIZE /\ a = PGSIZE * q + r
  BY <1>1, DivMod
<1>3. 0 \in 0 .. PGSIZE - 1
  BY <1>1
<1>4. PGSIZE * p + 0 <= PGSIZE * q + r <=> p < q \/ (p = q /\ 0 <= r)
  BY <1>1, <1>3, DigitOrder
<1>5. PGSIZE * p + 0 = PGSIZE * p
  BY <1>1
<1> QED BY <1>2, <1>4, <1>5 DEF Low

\* The pages of the users.
LEMMA UserPages ==
    /\ Low(USER_END) \in Vpns /\ Low(USER_END) \in Nat /\ USER_END = PGSIZE * Low(USER_END)
    /\ Vpns \subseteq Nat /\ RADIX * RADIX * RADIX \in Nat
    /\ \A p \in Int : p \in Vpns <=> 0 <= p /\ p < RADIX * RADIX * RADIX
    /\ \A a \in 0 .. USER_END - 1 : Low(a) \in 0 .. Low(USER_END) - 1 /\ Low(a) \in Vpns
    /\ \A a \in Addresses : Low(a) \in 0 .. Low(USER_END) /\ Low(a) \in Vpns
    /\ \A p \in Nat : p < Low(USER_END) => p \in Vpns
<1>1. Low(USER_END) \in Vpns /\ USER_END \in Nat /\ USER_END % PGSIZE = 0 /\ PGSIZE \in Nat \ {0}
  BY VmaAssumption, PageTableAssumption
<1>2. RADIX * RADIX * RADIX \in Nat
  BY RadixIs
<1>3. PICK V \in Nat : V = RADIX * RADIX * RADIX
  BY <1>2
<1>4. Vpns = 0 .. V - 1
  BY <1>3 DEF Vpns
<1>5. PICK n \in Nat : n = Low(USER_END)
  BY <1>1, <1>4
<1>6. USER_END = PGSIZE * n
  <2>1. USER_END = PGSIZE * (USER_END \div PGSIZE) + (USER_END % PGSIZE)
    BY <1>1, DivMod
  <2> QED BY <1>1, <1>5, <2>1 DEF Low
<1>7. ASSUME NEW a \in Addresses
      PROVE  Low(a) \in 0 .. n /\ (a # USER_END => Low(a) # n)
  <2>1. a \in Int /\ a <= USER_END /\ 0 <= a
    BY <1>1, <1>7 DEF Addresses
  <2>2. Low(a) \in Int /\ (0 <= Low(a) <=> PGSIZE * 0 <= a)
    BY <2>1, LowOrder
  <2>3. n <= Low(a) <=> USER_END <= a
    BY <1>6, <2>1, LowOrder
  <2>4. n + 1 <= Low(a) <=> PGSIZE * (n + 1) <= a
    BY <2>1, LowOrder
  <2>5. PGSIZE * (n + 1) = PGSIZE * n + PGSIZE /\ PGSIZE * 0 = 0
    BY <1>1, Z3
  <2>6. PICK x \in Int : x = PGSIZE * n
    BY <1>1, <1>6
  <2> QED BY <1>1, <1>6, <2>1, <2>2, <2>3, <2>4, <2>5, <2>6
<1>8. \A a \in 0 .. USER_END - 1 : a \in Addresses /\ a # USER_END
  BY <1>1 DEF Addresses
<1>9. PICK pages : pages = Vpns
  OBVIOUS
<1>10. n \in pages /\ pages = 0 .. V - 1
  BY <1>1, <1>4, <1>5, <1>9
<1>11. /\ pages \subseteq Nat
       /\ \A p \in Int : p \in pages <=> 0 <= p /\ p < V
       /\ \A p \in Nat : p < n => p \in pages
  BY <1>10
<1>12. ASSUME NEW a \in Addresses
       PROVE  Low(a) \in 0 .. n /\ Low(a) \in pages /\ (a # USER_END => Low(a) \in 0 .. n - 1)
  <2>1. PICK low \in 0 .. n : low = Low(a) /\ (a # USER_END => low # n)
    BY <1>7
  <2>2. low \in pages /\ (low # n => low \in 0 .. n - 1)
    BY <1>10, <2>1
  <2> QED BY <2>1, <2>2
<1>13. \A a \in 0 .. USER_END - 1 : Low(a) \in 0 .. Low(USER_END) - 1 /\ Low(a) \in Vpns
  <2> SUFFICES ASSUME NEW a \in 0 .. USER_END - 1
               PROVE  Low(a) \in 0 .. n - 1 /\ Low(a) \in pages
    BY <1>5, <1>9
  <2> QED BY <1>8, <1>12
<1>14. \A a \in Addresses : Low(a) \in 0 .. Low(USER_END) /\ Low(a) \in Vpns
  <2> SUFFICES ASSUME NEW a \in Addresses
               PROVE  Low(a) \in 0 .. n /\ Low(a) \in pages
    BY <1>5, <1>9
  <2> QED BY <1>12
<1>15. /\ Vpns \subseteq Nat
       /\ \A p \in Int : p \in Vpns <=> 0 <= p /\ p < RADIX * RADIX * RADIX
       /\ \A p \in Nat : p < Low(USER_END) => p \in Vpns
  BY <1>3, <1>5, <1>9, <1>11
<1>16. Low(USER_END) \in Nat /\ USER_END = PGSIZE * Low(USER_END)
  BY <1>5, <1>6
<1> QED BY <1>1, <1>2, <1>13, <1>14, <1>15, <1>16, Zenon

\* Where the mapping of an area begins and ends.
LEMMA AreaPagesIn ==
    ASSUME NEW s \in Addresses, NEW e \in Addresses, s <= e, 0 < e
    PROVE  /\ Low(s) \in Vpns /\ High(s, e - s) = Low(e - 1)
           /\ Low(e - 1) \in 0 .. Low(USER_END) - 1 /\ Low(e - 1) \in Vpns
<1>1. s \in Int /\ e \in Int /\ e - 1 \in 0 .. USER_END - 1
  BY VmaAssumption DEF Addresses
<1>2. s + (e - s) - 1 = e - 1
  BY <1>1
<1>3. High(s, e - s) = Low(e - 1)
  BY <1>2 DEF High, Low
<1> QED BY <1>1, <1>3, UserPages

\* What a recursion that stays within V computes.
LEMMA StepwiseIn ==
    ASSUME NEW V, NEW first \in V, NEW n \in Nat, NEW step \in [(1 .. n) \X V -> V],
           NEW h, h[0] = first,
           \A k \in 1 .. n : h[k - 1] \in V => h[k] = step[<<k, h[k - 1]>>]
    PROVE  \A k \in 0 .. n : h[k] \in V
<1> DEFINE T == {k \in Nat : k \in 0 .. n => h[k] \in V}
<1>1. 0 \in T
  OBVIOUS
<1>2. ASSUME NEW k \in T PROVE k + 1 \in T
  <2> SUFFICES ASSUME k + 1 \in 0 .. n PROVE h[k + 1] \in V
    OBVIOUS
  <2>1. k \in 0 .. n /\ k + 1 \in 1 .. n /\ (k + 1) - 1 = k
    OBVIOUS
  <2>2. h[k] \in V
    BY <2>1
  <2>3. h[k + 1] = step[<<k + 1, h[k]>>]
    BY <2>1, <2>2
  <2> QED BY <2>1, <2>2, <2>3
<1>3. T = Nat
  <2>1. T \in SUBSET Nat
    OBVIOUS
  <2> HIDE DEF T
  <2> QED BY <1>1, <1>2, <2>1, NatByInduction
<1> QED BY <1>3

-----------------------------------------------------------------------------
(* The tables of the kernel.                                               *)

KernelTables == {t \in Tables : NoWild(t) /\ \A p \in Vpns : p < Low(USER_END) => Pte(t, p) = None}

\* What every walk of a cleared table finds.
LEMMA EmptyIs ==
    EmptyTable \in KernelTables /\ \A p \in Vpns : Pte(EmptyTable, p) = None
<1>1. EmptyTable \in Tables /\ None # Wild
  BY TableIs
<1>2. \A r \in Index : EmptyTable[r] = None
  BY DEF EmptyTable
<1>3. NoWild(EmptyTable)
  BY <1>1, <1>2 DEF NoWild
<1>4. ASSUME NEW p \in Vpns PROVE Pte(EmptyTable, p) = None
  <2>1. PICK r, f, s \in Index : p = PageAt(r, f, s)
    BY VpnsHave
  <2>2. r \in Int
    BY RadixIs
  <2> QED BY <1>2, <2>1, <2>2, PteAt DEF Walked
<1> QED BY <1>1, <1>3, <1>4 DEF KernelTables

\* A segment of the kernel is mapped above the users.
LEMMA SectionMaps ==
    ASSUME NEW t \in KernelTables, NEW k \in 1 .. Len(Sections)
    PROVE  LET x == Sections[k] IN create_mapping(t, x[1], x[2], x[3], x[4]) \in KernelTables
<1>1. t \in Tables /\ NoWild(t) /\ \A p \in Vpns : p < Low(USER_END) => Pte(t, p) = None
  BY DEF KernelTables
<1>2. Sections \in Seq(Nat \X Nat \X (Nat \ {0}) \X Perms)
  BY VmaAssumption
<1>3. PICK x \in Nat \X Nat \X (Nat \ {0}) \X Perms : x = Sections[k]
  BY <1>2, ElementOfSeq
<1>4. PICK va \in Nat, ppn \in Nat, sz \in Nat \ {0}, perm \in Perms :
          va = x[1] /\ ppn = x[2] /\ sz = x[3] /\ perm = x[4]
  BY <1>3
<1>5. USER_END <= va /\ High(va, sz) \in Vpns
  BY <1>3, <1>4, VmaAssumption
<1>6. va \in Int /\ USER_END \in Int /\ va + sz - 1 \in Int /\ va <= va + sz - 1
  BY VmaAssumption
<1>7. PICK n \in Nat : n = Low(USER_END)
  BY UserPages
<1>8. USER_END = PGSIZE * n
  BY <1>7, UserPages
<1>9. Low(va) \in Int /\ (n <= Low(va) <=> PGSIZE * n <= va)
  BY <1>6, <1>7, LowOrder
<1>10. n <= Low(va)
  BY <1>5, <1>8, <1>9
<1>11. Low(va) <= High(va, sz)
  <2>1. PICK l \in Int : l = Low(va)
    BY <1>9
  <2>2. PGSIZE * l <= va
    BY <1>6, <2>1, LowOrder
  <2>3. Low(va + sz - 1) \in Int /\ (l <= Low(va + sz - 1) <=> PGSIZE * l <= va + sz - 1)
    BY <1>6, LowOrder
  <2>4. High(va, sz) = Low(va + sz - 1)
    BY DEF High, Low
  <2>5. PGSIZE * l \in Int
    BY PageTableAssumption
  <2> QED BY <1>6, <2>1, <2>2, <2>3, <2>4, <2>5
<1>12. Low(va) \in Vpns /\ High(va, sz) \in Int /\ High(va, sz) < RADIX * RADIX * RADIX
  <2>1. PICK V \in Nat : V = RADIX * RADIX * RADIX
    BY UserPages
  <2>2. \A p \in Int : p \in Vpns <=> 0 <= p /\ p < V
    BY <2>1, UserPages
  <2>3. High(va, sz) \in Int
    <3>1. Vpns \subseteq Nat
      BY UserPages
    <3>2. \A y \in Nat : y \in Int
      OBVIOUS
    <3> QED BY <1>5, <3>1, <3>2, Zenon
  <2>4. 0 <= High(va, sz) /\ High(va, sz) < V
    BY <1>5, <2>2, <2>3
  <2>5. 0 <= Low(va) /\ Low(va) < V
    <3>1. PICK l \in Int, h \in Int : l = Low(va) /\ h = High(va, sz)
      BY <1>9, <2>3
    <3> QED BY <1>7, <1>10, <1>11, <2>4, <3>1
  <2>6. Low(va) \in Vpns
    BY <1>9, <2>2, <2>5
  <2> QED BY <2>1, <2>3, <2>4, <2>6
<1>13. ~MeetsWild(t, Low(va), High(va, sz))
  BY <1>1, <1>12, NoWildMet
<1>14. Maps(create_mapping(t, va, ppn, sz, perm), t, Low(va), High(va, sz), ppn, perm)
  BY <1>1, <1>12, <1>13, CreateIs
<1>15. PICK d : d = create_mapping(t, va, ppn, sz, perm)
  OBVIOUS
<1>16. /\ d \in Tables /\ Tamer(d, t)
       /\ \A p \in Vpns : Pte(d, p) = IF Low(va) <= p /\ p <= High(va, sz)
                                      THEN [ppn |-> ppn + (p - Low(va)), perm |-> perm]
                                      ELSE Pte(t, p)
  BY <1>14, <1>15 DEF Maps
<1>17. NoWild(d)
  BY <1>1, <1>16, TamerNoWild
<1>18. \A p \in Vpns : p < n => Pte(d, p) = None
  <2>1. \A p \in Vpns : p \in Int
    BY UserPages
  <2> QED BY <1>1, <1>7, <1>9, <1>10, <1>16, <2>1
<1>19. d \in KernelTables
  BY <1>7, <1>16, <1>17, <1>18 DEF KernelTables
<1> QED BY <1>3, <1>4, <1>15, <1>19

\* The kernel maps nothing among the users' pages.
LEMMA SwapperIs == swapper_pg_dir \in KernelTables
<1> DEFINE Map(t, x) == create_mapping(t, x[1], x[2], x[3], x[4])
           n == Len(Sections)
           C(k, t) == Map(t, Sections[k])
           Is(h) == h = [k \in 0 .. n |-> IF k = 0 THEN EmptyTable ELSE Map(h[k - 1], Sections[k])]
           mapped == CHOOSE h : Is(h)
           step == [y \in (1 .. n) \X KernelTables |-> C(y[1], y[2])]
<1>1. swapper_pg_dir = mapped[n]
  BY Zenon DEF swapper_pg_dir
<1>2. n \in Nat
  BY VmaAssumption, LenProperties
<1> HIDE DEF n
<1>3. \A k \in 1 .. n, t \in KernelTables : C(k, t) \in KernelTables
  BY SectionMaps DEF n
<1> HIDE DEF C
<1>4. step \in [(1 .. n) \X KernelTables -> KernelTables]
  BY <1>3
<1>5. EmptyTable \in KernelTables
  BY EmptyIs
<1>6. PICK f \in [0 .. n -> KernelTables] : Stepwise(f, n, EmptyTable, step)
  <2> HIDE DEF step
  <2> QED BY <1>2, <1>4, <1>5, StepwiseExists
<1>7. Is(f)
  <2>1. f[0] = EmptyTable /\ \A k \in 1 .. n : f[k] = step[<<k, f[k - 1]>>]
    BY <1>6 DEF Stepwise
  <2>2. \A k \in 1 .. n : k - 1 \in 0 .. n /\ f[k - 1] \in KernelTables
    BY <1>2, <1>6
  <2>3. \A k \in 1 .. n : f[k] = C(k, f[k - 1])
    BY <2>1, <2>2
  <2>4. \A k \in 0 .. n : k # 0 => k \in 1 .. n
    BY <1>2
  <2>5. f = [k \in 0 .. n |-> f[k]]
    BY <1>6
  <2>6. \A k \in 0 .. n : f[k] = IF k = 0 THEN EmptyTable ELSE C(k, f[k - 1])
    BY <2>1, <2>3, <2>4
  <2>7. f = [k \in 0 .. n |-> IF k = 0 THEN EmptyTable ELSE C(k, f[k - 1])]
    BY <2>5, <2>6
  <2> QED BY <2>7 DEF C
<1>8. Is(mapped)
  <2> HIDE DEF Is
  <2> QED BY <1>7
<1> HIDE DEF mapped
<1>9. /\ mapped[0] = EmptyTable
      /\ \A k \in 1 .. n : mapped[k] = C(k, mapped[k - 1])
  <2> DEFINE e(k) == IF k = 0 THEN EmptyTable ELSE C(k, mapped[k - 1])
  <2>1. mapped = [k \in 0 .. n |-> e(k)]
    BY <1>8 DEF C
  <2>2. \A k \in 0 .. n : mapped[k] = e(k)
    <3> HIDE DEF e
    <3> QED BY <2>1
  <2>3. 0 \in 0 .. n /\ \A k \in 1 .. n : k \in 0 .. n /\ k # 0
    BY <1>2
  <2> QED BY <2>2, <2>3
<1>10. \A k \in 1 .. n : mapped[k - 1] \in KernelTables => mapped[k] = step[<<k, mapped[k - 1]>>]
  BY <1>9
<1>11. \A k \in 0 .. n : mapped[k] \in KernelTables
  <2> HIDE DEF step
  <2> QED BY <1>2, <1>4, <1>5, <1>9, <1>10, StepwiseIn
<1> QED BY <1>1, <1>2, <1>11

-----------------------------------------------------------------------------
(* The tables of processes.                                                *)

\* Whole pages.
LEMMA WholePages ==
    ASSUME NEW lo \in Int, NEW hi \in Int
    PROVE  /\ Low(lo * PGSIZE) = lo
           /\ High(lo * PGSIZE, (hi - lo + 1) * PGSIZE) = hi
           /\ High(lo * PGSIZE, PGSIZE) = lo
<1>1. PGSIZE \in Nat \ {0} /\ 0 \in 0 .. PGSIZE - 1 /\ PGSIZE - 1 \in 0 .. PGSIZE - 1
  BY PageTableAssumption
<1>2. /\ lo * PGSIZE \in Int /\ lo * PGSIZE = PGSIZE * lo + 0
      /\ lo * PGSIZE + (hi - lo + 1) * PGSIZE - 1 \in Int
      /\ lo * PGSIZE + (hi - lo + 1) * PGSIZE - 1 = PGSIZE * hi + (PGSIZE - 1)
      /\ lo * PGSIZE + PGSIZE - 1 \in Int
      /\ lo * PGSIZE + PGSIZE - 1 = PGSIZE * lo + (PGSIZE - 1)
  BY <1>1, Z3
<1>3. (lo * PGSIZE) \div PGSIZE = lo
  BY <1>1, <1>2, DivUnique
<1>4. (lo * PGSIZE + (hi - lo + 1) * PGSIZE - 1) \div PGSIZE = hi
  BY <1>1, <1>2, DivUnique
<1>5. (lo * PGSIZE + PGSIZE - 1) \div PGSIZE = lo
  BY <1>1, <1>2, DivUnique
<1> QED BY <1>3, <1>4, <1>5 DEF Low, High

\* A page of a process is shared with its child: no other page changes.
LEMMA ShareIs ==
    ASSUME NEW t \in Tables, NEW page \in Vpns, ~MeetsWild(t, page, page)
    PROVE  LET d == Share(t, page) IN
           /\ d \in Tables /\ Tamer(d, t)
           /\ \A p \in Vpns : Pte(d, p) = IF p = page THEN [ppn |-> 0, perm |-> User]
                                          ELSE Pte(t, p)
<1>1. page \in Int /\ Vpns \subseteq Int /\ page < RADIX * RADIX * RADIX
  BY UserPages
<1>2. Low(page * PGSIZE) = page /\ High(page * PGSIZE, PGSIZE) = page
  BY <1>1, WholePages
<1>3. User \in Perms
  BY VmaAssumption
<1>4. PICK va, d : va = page * PGSIZE /\ d = create_mapping(t, va, 0, PGSIZE, User)
  OBVIOUS
<1>5. Maps(d, t, Low(va), High(va, PGSIZE), 0, User)
  BY <1>1, <1>2, <1>3, <1>4, CreateIs
<1>6. Maps(d, t, page, page, 0, User)
  BY <1>2, <1>4, <1>5
<1>7. ASSUME NEW p \in Vpns
      PROVE  Pte(d, p) = IF p = page THEN [ppn |-> 0, perm |-> User] ELSE Pte(t, p)
  <2>1. Pte(d, p) = IF page <= p /\ p <= page THEN [ppn |-> 0 + (p - page), perm |-> User]
                    ELSE Pte(t, p)
    BY <1>6 DEF Maps
  <2>2. p \in Int /\ (p = page <=> page <= p /\ p <= page) /\ (p = page => 0 + (p - page) = 0)
    BY <1>1
  <2> QED BY <2>1, <2>2
<1> QED BY <1>4, <1>6, <1>7 DEF Maps, Share

\* All pages that the child is given are shared, and no other page changes.
LEMMA ShareAllIs ==
    ASSUME NEW t \in Tables, NEW pages,
           \A p \in pages : p \in Nat /\ p < Low(USER_END) /\ ~MeetsWild(t, p, p)
    PROVE  LET d == ShareAll(t, pages) IN
           /\ d \in Tables
           /\ \A p \in Vpns : Pte(d, p) = IF p \in pages THEN [ppn |-> 0, perm |-> User]
                                          ELSE Pte(t, p)
<1> DEFINE n == Low(USER_END)
           V == {x \in Tables : \A p \in pages : ~MeetsWild(x, p, p)}
           C(k, x) == IF k - 1 \in pages THEN Share(x, k - 1) ELSE x
           Is(h) == h = [k \in 0 .. n |->
                            IF k = 0 THEN t
                            ELSE IF k - 1 \in pages THEN Share(h[k - 1], k - 1) ELSE h[k - 1]]
           shared == CHOOSE h : Is(h)
           step == [y \in (1 .. n) \X V |-> C(y[1], y[2])]
           new == [ppn |-> 0, perm |-> User]
<1>1. ShareAll(t, pages) = shared[n]
  BY Zenon DEF ShareAll
<1>2. n \in Nat /\ Vpns \subseteq Int
  BY UserPages
<1>3. \A p \in pages : p \in Nat /\ p < n /\ p \in Vpns /\ p \in Int /\ p < RADIX * RADIX * RADIX
  BY UserPages
<1> HIDE DEF n
<1>4. ASSUME NEW k \in 1 .. n, NEW x \in V
      PROVE  /\ C(k, x) \in V
             /\ \A p \in Vpns : Pte(C(k, x), p) = IF p = k - 1 /\ p \in pages THEN new ELSE Pte(x, p)
  <2>1. CASE k - 1 \notin pages
    BY <2>1
  <2>2. CASE k - 1 \in pages
    <3>1. PICK page \in Vpns : page = k - 1 /\ page \in pages
      BY <1>3, <2>2
    <3>2. x \in Tables /\ \A p \in pages : ~MeetsWild(x, p, p)
      OBVIOUS
    <3>3. PICK d : d = Share(x, page)
      OBVIOUS
    <3>4. /\ d \in Tables /\ Tamer(d, x)
          /\ \A p \in Vpns : Pte(d, p) = IF p = page THEN [ppn |-> 0, perm |-> User]
                                         ELSE Pte(x, p)
      BY <3>1, <3>2, <3>3, ShareIs
    <3>5. \A p \in pages : ~MeetsWild(d, p, p)
      BY <1>3, <3>2, <3>4, TamerMet
    <3>6. C(k, x) = d
      BY <3>1, <3>3
    <3> HIDE DEF C
    <3> QED BY <3>1, <3>4, <3>5, <3>6
  <2> QED BY <2>1, <2>2
<1>5. t \in V
  OBVIOUS
<1> HIDE DEF C, V, new
<1>6. step \in [(1 .. n) \X V -> V]
  BY <1>4
<1>7. PICK f \in [0 .. n -> V] : Stepwise(f, n, t, step)
  <2> HIDE DEF step
  <2> QED BY <1>2, <1>5, <1>6, StepwiseExists
<1>8. Is(f)
  <2>1. f[0] = t /\ \A k \in 1 .. n : f[k] = step[<<k, f[k - 1]>>]
    BY <1>7 DEF Stepwise
  <2>2. \A k \in 1 .. n : k - 1 \in 0 .. n /\ f[k - 1] \in V
    BY <1>2, <1>7
  <2>3. \A k \in 1 .. n : f[k] = C(k, f[k - 1])
    BY <2>1, <2>2
  <2>4. \A k \in 0 .. n : k # 0 => k \in 1 .. n
    BY <1>2
  <2>5. f = [k \in 0 .. n |-> f[k]]
    BY <1>7
  <2>6. \A k \in 0 .. n : f[k] = IF k = 0 THEN t ELSE C(k, f[k - 1])
    BY <2>1, <2>3, <2>4
  <2>7. f = [k \in 0 .. n |-> IF k = 0 THEN t ELSE C(k, f[k - 1])]
    BY <2>5, <2>6
  <2> QED BY <2>7 DEF C
<1>9. Is(shared)
  <2> HIDE DEF Is
  <2> QED BY <1>8
<1> HIDE DEF shared
<1>10. /\ shared[0] = t
       /\ \A k \in 1 .. n : shared[k] = C(k, shared[k - 1])
  <2> DEFINE e(k) == IF k = 0 THEN t ELSE C(k, shared[k - 1])
  <2>1. shared = [k \in 0 .. n |-> e(k)]
    BY <1>9 DEF C
  <2>2. \A k \in 0 .. n : shared[k] = e(k)
    <3> HIDE DEF e
    <3> QED BY <2>1
  <2>3. 0 \in 0 .. n /\ \A k \in 1 .. n : k \in 0 .. n /\ k # 0
    BY <1>2
  <2> QED BY <2>2, <2>3
<1> DEFINE Done(k) == shared[k] \in V /\ \A p \in Vpns :
               Pte(shared[k], p) = IF p < k /\ p \in pages THEN new ELSE Pte(t, p)
           T == {k \in Nat : k \in 0 .. n => Done(k)}
<1>11. 0 \in T
  <2>1. \A p \in pages : ~ (p < 0)
    BY <1>3
  <2> QED BY <1>5, <1>10, <2>1
<1>12. ASSUME NEW k \in T PROVE k + 1 \in T
  <2> SUFFICES ASSUME k + 1 \in 0 .. n PROVE Done(k + 1)
    OBVIOUS
  <2>1. k \in 0 .. n /\ k + 1 \in 1 .. n /\ (k + 1) - 1 = k
    BY <1>2
  <2>2. Done(k)
    BY <2>1
  <2>3. shared[k + 1] = C(k + 1, shared[k])
    BY <1>10, <2>1
  <2>4. /\ C(k + 1, shared[k]) \in V
        /\ \A p \in Vpns : Pte(C(k + 1, shared[k]), p) =
               IF p = (k + 1) - 1 /\ p \in pages THEN new ELSE Pte(shared[k], p)
    BY <1>4, <2>1, <2>2
  <2>5. \A p \in Vpns : p \in Int /\ (p < k + 1 <=> p < k \/ p = k)
    BY <1>2
  <2> QED BY <2>1, <2>2, <2>3, <2>4, <2>5
<1>13. T = Nat
  <2>1. T \in SUBSET Nat
    OBVIOUS
  <2> HIDE DEF T
  <2> QED BY <1>11, <1>12, <2>1, NatByInduction
<1>14. Done(n)
  BY <1>2, <1>13
<1> QED BY <1>1, <1>3, <1>14 DEF V, new

\* The page lies in the range that is unmapped for area s.
Over(m, s, p) == Low(m.start[s]) <= p /\ p <= High(m.start[s], Size(m, s))

\* The mapping of area s can be removed from table t.
Removable(t, m, s) ==
    /\ Low(m.start[s]) \in Vpns
    /\ High(m.start[s], Size(m, s)) \in Int
    /\ High(m.start[s], Size(m, s)) < RADIX * RADIX * RADIX
    /\ ~MeetsWild(t, Low(m.start[s]), High(m.start[s], Size(m, s)))

\* Removing the mapping of an area clears its pages and no other.
LEMMA UnmapIs ==
    ASSUME NEW t \in Tables, NEW m, NEW s, Removable(t, m, s)
    PROVE  LET d == remove_mapping(t, m.start[s], Size(m, s)) IN
           /\ d \in Tables /\ Tamer(d, t)
           /\ \A p \in Vpns : Pte(d, p) = IF Over(m, s, p) THEN None ELSE Pte(t, p)
<1>1. PICK va, sz : va = m.start[s] /\ sz = Size(m, s)
  OBVIOUS
<1>2. /\ Low(va) \in Vpns /\ High(va, sz) \in Int
      /\ ~MeetsWild(t, Low(va), High(va, sz))
  BY <1>1 DEF Removable
<1>3. Low(va) \in Int
  <2>1. Vpns \subseteq Int
    BY UserPages
  <2> QED BY <1>2, <2>1
<1>4. Clears(remove_mapping(t, va, sz), t, Low(va), High(va, sz))
  BY <1>2, <1>3, RemoveIs
<1>5. PICK d : d = remove_mapping(t, va, sz)
  OBVIOUS
<1>6. /\ d \in Tables /\ Tamer(d, t)
      /\ \A p \in Vpns : Pte(d, p) = IF Low(va) <= p /\ p <= High(va, sz) THEN None ELSE Pte(t, p)
  BY <1>4, <1>5 DEF Clears
<1>7. \A p : Over(m, s, p) <=> Low(va) <= p /\ p <= High(va, sz)
  BY <1>1 DEF Over
<1> QED BY <1>1, <1>5, <1>6, <1>7

\* Removing the mappings of some areas clears their pages and no other.
LEMMA UnmappedIs ==
    ASSUME NEW t \in Tables, NEW m, NEW areas, NEW n \in Nat, n = Len(areas),
           \A i \in 1 .. n : Removable(t, m, areas[i])
    PROVE  LET d == Unmapped(t, m, areas) IN
           /\ d \in Tables
           /\ \A p \in Vpns : Pte(d, p) = IF \E i \in 1 .. n : Over(m, areas[i], p) THEN None
                                          ELSE Pte(t, p)
<1> DEFINE V == {x \in Tables : \A i \in 1 .. n : Removable(x, m, areas[i])}
           C(k, x) == remove_mapping(x, m.start[areas[k]], Size(m, areas[k]))
           Is(h) == h = [k \in 0 .. n |->
                            IF k = 0 THEN t
                            ELSE remove_mapping(h[k - 1], m.start[areas[k]], Size(m, areas[k]))]
           cleared == CHOOSE h : Is(h)
           step == [y \in (1 .. n) \X V |-> C(y[1], y[2])]
<1>1. Unmapped(t, m, areas) = cleared[n]
  BY Zenon DEF Unmapped
<1>2. ASSUME NEW k \in 1 .. n, NEW x \in V
      PROVE  /\ C(k, x) \in V
             /\ \A p \in Vpns : Pte(C(k, x), p) = IF Over(m, areas[k], p) THEN None ELSE Pte(x, p)
  <2>1. x \in Tables /\ \A i \in 1 .. n : Removable(x, m, areas[i])
    OBVIOUS
  <2>2. PICK d, s : s = areas[k] /\ d = C(k, x)
    OBVIOUS
  <2>3. Removable(x, m, s)
    BY <2>1, <2>2
  <2>4. /\ d \in Tables /\ Tamer(d, x)
        /\ \A p \in Vpns : Pte(d, p) = IF Over(m, s, p) THEN None ELSE Pte(x, p)
    BY <2>1, <2>2, <2>3, UnmapIs
  <2>5. ASSUME NEW i \in 1 .. n PROVE Removable(d, m, areas[i])
    <3>1. PICK lo, hi : lo = Low(m.start[areas[i]]) /\ hi = High(m.start[areas[i]], Size(m, areas[i]))
      OBVIOUS
    <3>2. lo \in Vpns /\ hi \in Int /\ hi < RADIX * RADIX * RADIX /\ ~MeetsWild(x, lo, hi)
      BY <2>1, <3>1 DEF Removable
    <3>3. ~MeetsWild(d, lo, hi)
      BY <2>1, <2>4, <3>2, TamerMet
    <3> QED BY <3>1, <3>2, <3>3 DEF Removable
  <2> HIDE DEF C
  <2> QED BY <2>2, <2>4, <2>5
<1>3. t \in V
  OBVIOUS
<1> HIDE DEF C, V
<1>4. step \in [(1 .. n) \X V -> V]
  BY <1>2
<1>5. PICK f \in [0 .. n -> V] : Stepwise(f, n, t, step)
  <2> HIDE DEF step
  <2> QED BY <1>3, <1>4, StepwiseExists
<1>6. Is(f)
  <2>1. f[0] = t /\ \A k \in 1 .. n : f[k] = step[<<k, f[k - 1]>>]
    BY <1>5 DEF Stepwise
  <2>2. \A k \in 1 .. n : k - 1 \in 0 .. n /\ f[k - 1] \in V
    BY <1>5
  <2>3. \A k \in 1 .. n : f[k] = C(k, f[k - 1])
    BY <2>1, <2>2
  <2>4. \A k \in 0 .. n : k # 0 => k \in 1 .. n
    OBVIOUS
  <2>5. f = [k \in 0 .. n |-> f[k]]
    BY <1>5
  <2>6. \A k \in 0 .. n : f[k] = IF k = 0 THEN t ELSE C(k, f[k - 1])
    BY <2>1, <2>3, <2>4
  <2>7. f = [k \in 0 .. n |-> IF k = 0 THEN t ELSE C(k, f[k - 1])]
    BY <2>5, <2>6
  <2> QED BY <2>7 DEF C
<1>7. Is(cleared)
  <2> HIDE DEF Is
  <2> QED BY <1>6
<1> HIDE DEF cleared
<1>8. /\ cleared[0] = t
      /\ \A k \in 1 .. n : cleared[k] = C(k, cleared[k - 1])
  <2> DEFINE e(k) == IF k = 0 THEN t ELSE C(k, cleared[k - 1])
  <2>1. cleared = [k \in 0 .. n |-> e(k)]
    BY <1>7 DEF C
  <2>2. \A k \in 0 .. n : cleared[k] = e(k)
    <3> HIDE DEF e
    <3> QED BY <2>1
  <2> QED BY <2>2
<1> DEFINE Done(k) == cleared[k] \in V /\ \A p \in Vpns :
               Pte(cleared[k], p) = IF \E i \in 1 .. k : Over(m, areas[i], p) THEN None
                                    ELSE Pte(t, p)
           T == {k \in Nat : k \in 0 .. n => Done(k)}
<1>9. 0 \in T
  <2>1. ~ \E i \in 1 .. 0 : TRUE
    OBVIOUS
  <2> QED BY <1>3, <1>8, <2>1
<1>10. ASSUME NEW k \in T PROVE k + 1 \in T
  <2> SUFFICES ASSUME k + 1 \in 0 .. n PROVE Done(k + 1)
    OBVIOUS
  <2>1. k \in 0 .. n /\ k + 1 \in 1 .. n /\ (k + 1) - 1 = k
    OBVIOUS
  <2>2. Done(k)
    BY <2>1
  <2>3. cleared[k + 1] = C(k + 1, cleared[k])
    BY <1>8, <2>1
  <2>4. /\ C(k + 1, cleared[k]) \in V
        /\ \A p \in Vpns : Pte(C(k + 1, cleared[k]), p) =
               IF Over(m, areas[k + 1], p) THEN None ELSE Pte(cleared[k], p)
    BY <1>2, <2>1, <2>2
  <2>5. \A p : (\E i \in 1 .. k + 1 : Over(m, areas[i], p))
               <=> Over(m, areas[k + 1], p) \/ \E i \in 1 .. k : Over(m, areas[i], p)
    <3>1. \A i \in 1 .. k + 1 : i = k + 1 \/ i \in 1 .. k
      BY <2>1
    <3>2. k + 1 \in 1 .. k + 1 /\ \A i \in 1 .. k : i \in 1 .. k + 1
      BY <2>1
    <3> QED BY <3>1, <3>2
  <2> QED BY <2>2, <2>3, <2>4, <2>5
<1>11. T = Nat
  <2>1. T \in SUBSET Nat
    OBVIOUS
  <2> HIDE DEF T
  <2> QED BY <1>9, <1>10, <2>1, NatByInduction
<1>12. Done(n)
  BY <1>11
<1> QED BY <1>1, <1>12 DEF V

-----------------------------------------------------------------------------
(* Layers of areas.                                                        *)

\* The areas over an address, and their number.
At(m, a) == {s \in Used(m) : m.start[s] <= a /\ a < m.end[s]}
Layers(m, a) == Cardinality(At(m, a))

\* No area ends before it starts, or at address 0.
Neat(m) ==
    /\ m \in MM /\ Used(m) \subseteq Slots
    /\ \A s \in Used(m) : m.start[s] <= m.end[s] /\ 0 < m.end[s]

Inside(va, end, a) == va <= a /\ a < end
One(b) == IF b THEN 1 ELSE 0

\* There are finitely many areas over an address.
LEMMA LayersIs ==
    ASSUME NEW m, Used(m) \subseteq Slots, NEW a
    PROVE  IsFiniteSet(At(m, a)) /\ Layers(m, a) \in Nat
<1>1. NR_VMA_SLOTS - 1 \in Int /\ 0 \in Int
  BY VmaAssumption
<1>2. IsFiniteSet(Slots)
  BY <1>1, FS_Interval DEF Slots
<1>3. At(m, a) \subseteq Slots
  BY DEF At
<1>4. IsFiniteSet(At(m, a))
  BY <1>2, <1>3, FS_Subset
<1> QED BY <1>4, FS_CardinalityType DEF Layers

\* Fields of an mm_struct.
LEMMA FieldsIs ==
    ASSUME NEW m \in MM
    PROVE  /\ m.start \in [Slots -> Addresses] /\ m.end \in [Slots -> Addresses]
           /\ Addresses \subseteq Nat
BY VmaAssumption DEF MM, Addresses

\* One area more is one layer more over its range.
LEMMA AddedIs ==
    ASSUME NEW m, Neat(m), NEW d \in MM, NEW va \in Addresses, NEW end \in Addresses,
           va <= end, 0 < end, Added(m, d, va, end)
    PROVE  /\ Neat(d) /\ Same(m, d, Used(m))
           /\ \A a \in Int : Layers(d, a) = Layers(m, a) + One(Inside(va, end, a))
<1>1. PICK vma \in Slots :
          /\ vma \notin Used(m) /\ Used(d) = Used(m) \cup {vma}
          /\ d.start = [m.start EXCEPT ![vma] = va]
          /\ d.end = [m.end EXCEPT ![vma] = end]
  BY DEF Added
<1>2. m.start \in [Slots -> Addresses] /\ m.end \in [Slots -> Addresses]
  BY FieldsIs DEF Neat
<1>3. /\ d.start[vma] = va /\ d.end[vma] = end
      /\ \A s \in Slots : s # vma => d.start[s] = m.start[s] /\ d.end[s] = m.end[s]
  BY <1>1, <1>2
<1>4. Used(m) \subseteq Slots /\ \A s \in Used(m) : m.start[s] <= m.end[s] /\ 0 < m.end[s]
  BY DEF Neat
<1>5. Same(m, d, Used(m))
  BY <1>1, <1>3, <1>4 DEF Same
<1>6. Neat(d)
  BY <1>1, <1>3, <1>4 DEF Neat
<1>7. ASSUME NEW a \in Int
      PROVE  Layers(d, a) = Layers(m, a) + One(Inside(va, end, a))
  <2>1. At(d, a) = IF Inside(va, end, a) THEN At(m, a) \cup {vma} ELSE At(m, a)
    BY <1>1, <1>3, <1>4 DEF At, Inside
  <2>2. vma \notin At(m, a)
    BY <1>1 DEF At
  <2>3. IsFiniteSet(At(m, a)) /\ Layers(m, a) \in Nat
    BY <1>4, LayersIs
  <2>4. Cardinality(At(m, a) \cup {vma}) = Cardinality(At(m, a)) + 1
    BY <2>2, <2>3, FS_AddElement
  <2> QED BY <2>1, <2>3, <2>4 DEF Layers, One
<1> QED BY <1>5, <1>6, <1>7

\* One area less is one layer less over its range.
LEMMA RemovedIs ==
    ASSUME NEW m, Neat(m), NEW d \in MM, NEW vma \in Used(m), Removed(m, d, vma)
    PROVE  /\ Neat(d) /\ Same(m, d, Used(m) \ {vma})
           /\ \A a \in Int : Layers(d, a) = Layers(m, a) - One(Inside(m.start[vma], m.end[vma], a))
<1>1. /\ Used(d) = Used(m) \ {vma}
      /\ d.start = [m.start EXCEPT ![vma] = 0]
      /\ d.end = [m.end EXCEPT ![vma] = 0]
  BY DEF Removed
<1>2. m.start \in [Slots -> Addresses] /\ m.end \in [Slots -> Addresses]
  BY FieldsIs DEF Neat
<1>3. \A s \in Slots : s # vma => d.start[s] = m.start[s] /\ d.end[s] = m.end[s]
  BY <1>1, <1>2
<1>4. Used(m) \subseteq Slots /\ \A s \in Used(m) : m.start[s] <= m.end[s] /\ 0 < m.end[s]
  BY DEF Neat
<1>5. Same(m, d, Used(m) \ {vma})
  BY <1>1, <1>3, <1>4 DEF Same
<1>6. Neat(d)
  BY <1>1, <1>3, <1>4 DEF Neat
<1>7. ASSUME NEW a \in Int
      PROVE  Layers(d, a) = Layers(m, a) - One(Inside(m.start[vma], m.end[vma], a))
  <2>1. At(d, a) = At(m, a) \ {vma}
    BY <1>1, <1>3, <1>4 DEF At
  <2>2. vma \in At(m, a) <=> Inside(m.start[vma], m.end[vma], a)
    BY DEF At, Inside
  <2>3. IsFiniteSet(At(m, a)) /\ Layers(m, a) \in Nat
    BY <1>4, LayersIs
  <2>4. Cardinality(At(m, a) \ {vma}) = IF vma \in At(m, a) THEN Cardinality(At(m, a)) - 1
                                        ELSE Cardinality(At(m, a))
    BY <2>3, FS_RemoveElement
  <2> QED BY <2>1, <2>2, <2>3, <2>4 DEF Layers, One
<1> QED BY <1>5, <1>6, <1>7

\* The area of vma touches the range va .. end.
Meets(m, vma, va, end) ==
    /\ va <= end
    /\ m.start[vma] < va => va <= m.end[vma]
    /\ m.end[vma] > end => m.start[vma] <= end

\* d is m with one layer taken off what the range and the area have in common.
OneOff(m, d, vma, va, end) ==
    /\ Neat(d) /\ Same(m, d, Used(m) \ {vma})
    /\ \A a \in Int :
         Layers(d, a) = Layers(m, a) - One(Inside(va, end, a)
                                           /\ Inside(m.start[vma], m.end[vma], a))

\* An area that is cut takes its layer off the range that is cut out of it.
LEMMA CutOutIs ==
    ASSUME NEW m, Neat(m), NEW d \in MM, NEW vma \in Used(m),
           NEW va \in Addresses, NEW end \in Addresses, Meets(m, vma, va, end),
           CutOut(m, d, vma, va, end)
    PROVE  OneOff(m, d, vma, va, end)
<1>1. PICK r \in MM, b \in MM :
        /\ Removed(m, r, vma)
        /\ IF m.start[vma] < va THEN Added(r, b, m.start[vma], va) ELSE b = r
        /\ IF m.end[vma] > end THEN Added(b, d, end, m.end[vma]) ELSE d = b
  BY DEF CutOut
<1>2. PICK s, e : s = m.start[vma] /\ e = m.end[vma]
  OBVIOUS
<1>3. s \in Addresses /\ e \in Addresses /\ s <= e /\ 0 < e /\ Addresses \subseteq Nat
  BY <1>2, FieldsIs DEF Neat
<1>4. /\ Neat(r) /\ Same(m, r, Used(m) \ {vma})
      /\ \A a \in Int : Layers(r, a) = Layers(m, a) - One(Inside(s, e, a))
  BY <1>1, <1>2, RemovedIs
<1>5. /\ Neat(b) /\ Same(r, b, Used(r))
      /\ \A a \in Int : Layers(b, a) = Layers(r, a) + One(s < va /\ Inside(s, va, a))
  <2>1. CASE s < va
    <3>1. Added(r, b, s, va) /\ s <= va /\ 0 < va
      BY <1>1, <1>2, <1>3, <2>1
    <3> QED BY <1>3, <1>4, <2>1, <3>1, AddedIs DEF One
  <2>2. CASE ~ (s < va)
    <3>1. b = r
      BY <1>1, <1>2, <2>2
    <3>2. \A a \in Int : Layers(r, a) \in Nat
      BY <1>4, LayersIs DEF Neat
    <3> QED BY <1>4, <2>2, <3>1, <3>2 DEF Same, One
  <2> QED BY <2>1, <2>2
<1>6. /\ Neat(d) /\ Same(b, d, Used(b))
      /\ \A a \in Int : Layers(d, a) = Layers(b, a) + One(e > end /\ Inside(end, e, a))
  <2>1. CASE e > end
    <3>1. end \in Nat /\ e \in Nat
      BY <1>3
    <3>2. Added(b, d, end, e) /\ end <= e
      BY <1>1, <1>2, <2>1, <3>1
    <3> QED BY <1>3, <1>5, <2>1, <3>2, AddedIs DEF One
  <2>2. CASE ~ (e > end)
    <3>1. d = b
      BY <1>1, <1>2, <2>2
    <3>2. \A a \in Int : Layers(b, a) \in Nat
      BY <1>5, LayersIs DEF Neat
    <3> QED BY <1>5, <2>2, <3>1, <3>2 DEF Same, One
  <2> QED BY <2>1, <2>2
<1>7. Same(m, d, Used(m) \ {vma})
  BY <1>4, <1>5, <1>6 DEF Same
<1>8. ASSUME NEW a \in Int
      PROVE  Layers(d, a) = Layers(m, a) - One(Inside(va, end, a) /\ Inside(s, e, a))
  <2>1. Layers(m, a) \in Nat
    BY LayersIs DEF Neat
  <2>2. Layers(d, a) = Layers(m, a) - One(Inside(s, e, a)) + One(s < va /\ Inside(s, va, a))
                       + One(e > end /\ Inside(end, e, a))
    <3>1. Layers(r, a) = Layers(m, a) - One(Inside(s, e, a))
      BY <1>4
    <3>2. Layers(b, a) = Layers(r, a) + One(s < va /\ Inside(s, va, a))
      BY <1>5
    <3>3. Layers(d, a) = Layers(b, a) + One(e > end /\ Inside(end, e, a))
      BY <1>6
    <3> QED BY <3>1, <3>2, <3>3
  <2>3. s \in Int /\ e \in Int /\ va \in Int /\ end \in Int
    BY <1>3
  <2>4. va <= end /\ (s < va => va <= e) /\ (e > end => s <= end)
    BY <1>2 DEF Meets
  <2>5. One(Inside(s, e, a)) - One(s < va /\ Inside(s, va, a)) - One(e > end /\ Inside(end, e, a))
        = One(Inside(va, end, a) /\ Inside(s, e, a))
    BY <1>3, <2>3, <2>4 DEF One, Inside
  <2>6. \A x : One(x) \in Int
    BY DEF One
  <2>7. PICK x \in Int, y \in Int, z \in Int :
            /\ x = One(Inside(s, e, a)) /\ y = One(s < va /\ Inside(s, va, a))
            /\ z = One(e > end /\ Inside(end, e, a))
    BY <2>6
  <2> QED BY <2>1, <2>2, <2>5, <2>7
<1> QED BY <1>2, <1>6, <1>7, <1>8 DEF OneOff

\* munmap takes one layer off the whole range and off nothing else: the areas it
\* goes through cover every address of the range once.
LEMMA CutAllLayers ==
    ASSUME NEW m \in Good, m.fault = "no", Neat(m),
           NEW va \in Addresses, NEW end \in Addresses, va <= end,
           Affected(m, va, end) # <<>>,
           CutAll(m, Affected(m, va, end), va, end).fault = "no"
    PROVE  LET d == CutAll(m, Affected(m, va, end), va, end) IN
           Neat(d) /\ \A a \in Int : Layers(d, a) = Layers(m, a) - One(Inside(va, end, a))
<1>1. m \in MM /\ Holds(m)
  BY DEF Good
<1>2. PICK areas : areas = Affected(m, va, end)
  OBVIOUS
<1>3. Areas(m, areas) /\ Covering(m, areas, va, end)
  BY <1>1, <1>2, AffectedIs
<1>4. PICK n : n = Len(areas)
  OBVIOUS
<1>5. /\ n \in Nat /\ areas \in [1 .. n -> Slots] /\ areas \in Seq(Slots)
      /\ (\A i, j \in 1 .. n : areas[i] = areas[j] => i = j)
      /\ \A i \in 1 .. n : areas[i] \in Used(m)
  BY <1>3, <1>4, LenProperties DEF Areas
<1>6. n # 0
  BY <1>2, <1>4, <1>5, EmptySeq
<1>7. PICK g : /\ g[0] = m /\ CutAll(m, areas, va, end) = g[n]
               /\ \A k \in 1 .. n : g[k] = Cut(g[k - 1], areas[k], va, end)
               /\ \A k \in 0 .. n : Fit(g[k], k, areas, n)
  BY <1>5, CutAllIs
<1> DEFINE b(i) == m.start[areas[i]]
           e(i) == m.end[areas[i]]
           upto(k) == IF k = 0 THEN va ELSE e(k)
<1>8. \A i \in 1 .. n : b(i) \in Nat /\ e(i) \in Nat /\ b(i) <= e(i)
  BY <1>5, FieldsIs DEF Neat
<1>9. /\ va \in Nat /\ end \in Nat /\ b(1) <= va /\ va < e(1) /\ e(n) >= end
      /\ \A i \in 1 .. n - 1 : b(i + 1) = e(i) /\ e(i) < end
  <2>1. Addresses \subseteq Nat
    BY VmaAssumption DEF Addresses
  <2> QED BY <1>3, <1>4, <2>1 DEF Covering
<1> HIDE DEF b, e
<1> DEFINE Rest(k) == \A j \in k + 1 .. n : /\ areas[j] \in Used(g[k])
                                            /\ g[k].start[areas[j]] = b(j)
                                            /\ g[k].end[areas[j]] = e(j)
           Off(k) == \A a \in Int : Layers(g[k], a) =
                         Layers(m, a) - One(Inside(va, end, a) /\ a < upto(k))
           Done(k) == upto(k) \in Nat /\ va <= upto(k)
                      /\ (g[k].fault = "no" => Neat(g[k]) /\ Rest(k) /\ Off(k))
           T == {k \in Nat : k \in 0 .. n => Done(k)}
<1>10. 0 \in T
  <2>1. upto(0) = va
    OBVIOUS
  <2>2. Rest(0)
    BY <1>5, <1>7 DEF b, e
  <2>3. Off(0)
    <3> SUFFICES ASSUME NEW a \in Int
                 PROVE  Layers(g[0], a) = Layers(m, a) - One(Inside(va, end, a) /\ a < upto(0))
      OBVIOUS
    <3>1. ~ (Inside(va, end, a) /\ a < upto(0))
      BY <1>9, <2>1 DEF Inside
    <3>2. Layers(m, a) \in Nat
      BY LayersIs DEF Neat
    <3> HIDE DEF upto
    <3> QED BY <1>7, <3>1, <3>2 DEF One
  <2> HIDE DEF Rest, Off
  <2> QED BY <1>7, <1>9, <2>1, <2>2, <2>3
<1>11. ASSUME NEW k \in T PROVE k + 1 \in T
  <2> SUFFICES ASSUME k + 1 \in 0 .. n PROVE Done(k + 1)
    OBVIOUS
  <2>1. k \in 0 .. n /\ k + 1 \in 1 .. n /\ (k + 1) - 1 = k /\ k + 1 # 0
    BY <1>5
  <2>2. Done(k)
    BY <2>1
  <2>3. PICK x, d, vma : x = g[k] /\ d = g[k + 1] /\ vma = areas[k + 1]
    OBVIOUS
  <2>4. PICK s \in Nat, t \in Nat, o \in Nat : s = b(k + 1) /\ t = e(k + 1) /\ o = upto(k)
    BY <1>8, <2>1, <2>2
  <2>5. upto(k + 1) = t /\ va <= o /\ s <= t
    BY <1>8, <2>1, <2>2, <2>4
  <2>6. (k = 0 => s <= va /\ va < t /\ o = va) /\ (k # 0 => s = o /\ s < end)
    <3>1. CASE k = 0
      BY <1>9, <2>4, <3>1
    <3>2. CASE k # 0
      <4>1. k \in 1 .. n - 1
        BY <1>5, <2>1, <3>2
      <4> QED BY <1>9, <2>4, <3>2, <4>1
    <3> QED BY <3>1, <3>2
  <2>7. va <= t /\ (s < va => va <= t) /\ (t > end => s <= end) /\ o <= t
    BY <1>9, <2>5, <2>6
  <2>8. d = Cut(x, vma, va, end)
    BY <1>7, <2>1, <2>3
  <2>9. k + 1 \in k + 1 .. n
    BY <2>1
  <2>10. x \in Good /\ (x.fault = "no" => vma \in Used(x))
    BY <1>7, <2>1, <2>3, <2>9 DEF Fit
  <2>11. d \in Good /\ (d.fault = "no" => x.fault = "no" /\ CutOut(x, d, vma, va, end))
    BY <2>8, <2>10, CutGood DEF Keeps
  <2>12. ASSUME d.fault = "no" PROVE Neat(g[k + 1]) /\ Rest(k + 1) /\ Off(k + 1)
    <3>1. x.fault = "no" /\ CutOut(x, d, vma, va, end) /\ d \in MM /\ vma \in Used(x)
      BY <2>10, <2>11, <2>12 DEF Good
    <3>2. Neat(x) /\ Rest(k) /\ Off(k)
      BY <2>2, <2>3, <3>1
    <3>3. x.start[vma] = s /\ x.end[vma] = t
      BY <2>3, <2>4, <2>9, <3>2
    <3>4. /\ Neat(d) /\ Same(x, d, Used(x) \ {vma})
          /\ \A a \in Int :
                Layers(d, a) = Layers(x, a) - One(Inside(va, end, a)
                                                  /\ Inside(x.start[vma], x.end[vma], a))
      <4>1. Neat(x)
        BY <3>2
      <4>2. Meets(x, vma, va, end)
        BY <2>7, <3>3 DEF Meets
      <4>3. OneOff(x, d, vma, va, end)
        BY <3>1, <4>1, <4>2, CutOutIs
      <4> QED BY <4>3 DEF OneOff
    <3>5. Rest(k + 1)
      <4> SUFFICES ASSUME NEW j \in (k + 1) + 1 .. n
                   PROVE  /\ areas[j] \in Used(d) /\ d.start[areas[j]] = b(j)
                          /\ d.end[areas[j]] = e(j)
        BY <2>3
      <4>1. j \in k + 1 .. n /\ j \in 1 .. n /\ j # k + 1
        BY <2>1
      <4>2. areas[j] # vma
        BY <1>5, <2>1, <2>3, <4>1
      <4>3. areas[j] \in Used(x) /\ x.start[areas[j]] = b(j) /\ x.end[areas[j]] = e(j)
        BY <2>3, <3>2, <4>1
      <4> QED BY <3>4, <4>2, <4>3 DEF Same
    <3>6. Off(k + 1)
      <4> SUFFICES ASSUME NEW a \in Int
                   PROVE  Layers(d, a) = Layers(m, a) - One(Inside(va, end, a) /\ a < t)
        BY <2>3, <2>5
      <4>1. Layers(d, a) = Layers(x, a) - One(Inside(va, end, a) /\ Inside(s, t, a))
        BY <3>3, <3>4
      <4>2. Layers(x, a) = Layers(m, a) - One(Inside(va, end, a) /\ a < o)
        BY <2>3, <2>4, <3>2
      <4>3. Layers(m, a) \in Nat
        BY LayersIs DEF Neat
      <4>4. One(Inside(va, end, a) /\ a < o) + One(Inside(va, end, a) /\ Inside(s, t, a))
            = One(Inside(va, end, a) /\ a < t)
        BY <1>9, <2>5, <2>6, <2>7 DEF One, Inside
      <4>5. \A y : One(y) \in Int
        BY DEF One
      <4>6. PICK y \in Int, z \in Int : y = One(Inside(va, end, a) /\ a < o)
                                        /\ z = One(Inside(va, end, a) /\ Inside(s, t, a))
        BY <4>5
      <4> QED BY <4>1, <4>2, <4>3, <4>4, <4>6
    <3> HIDE DEF Rest, Off
    <3> QED BY <2>3, <3>4, <3>5, <3>6
  <2> HIDE DEF Rest, Off, upto
  <2> QED BY <2>3, <2>5, <2>7, <2>12
<1>12. T = Nat
  <2>1. T \in SUBSET Nat
    OBVIOUS
  <2> HIDE DEF T
  <2> QED BY <1>10, <1>11, <2>1, NatByInduction
<1>13. Done(n)
  BY <1>5, <1>12
<1>14. upto(n) >= end
  BY <1>6, <1>9
<1>15. g[n].fault = "no" /\ CutAll(m, Affected(m, va, end), va, end) = g[n]
  BY <1>2, <1>7
<1>16. ASSUME NEW a \in Int PROVE Layers(g[n], a) = Layers(m, a) - One(Inside(va, end, a))
  <2>1. Layers(g[n], a) = Layers(m, a) - One(Inside(va, end, a) /\ a < upto(n))
    BY <1>13, <1>15
  <2>2. Inside(va, end, a) => a < upto(n)
    <3>1. upto(n) \in Nat
      BY <1>13
    <3> HIDE DEF upto
    <3> QED BY <1>9, <1>14, <3>1 DEF Inside
  <2> HIDE DEF upto
  <2> QED BY <2>1, <2>2 DEF One
<1>17. Neat(g[n])
  BY <1>13, <1>15
<1> QED BY <1>15, <1>16, <1>17

-----------------------------------------------------------------------------
(* Areas that end behind where they start.                                 *)

Tidy == {m \in Good : m.fault = "no" => Neat(m)}

\* The slots of the areas of a sound mm_struct.
LEMMA UsedIn ==
    ASSUME NEW m, Holds(m)
    PROVE  Used(m) \subseteq Slots
<1>1. PICK L, n, F, f, e : Shape(m, L, n, F, f, e)
  BY DEF Holds
<1> QED BY <1>1, ShapeIs

\* The areas are the same, and so are the layers.
LEMMA SameLayers ==
    ASSUME NEW m, NEW d, Used(d) = Used(m), Same(m, d, Used(m))
    PROVE  \A a : Layers(d, a) = Layers(m, a)
BY DEF Same, Layers, At

\* An mm_struct without areas.
LEMMA FreshTidy == FreshMM \in Tidy /\ FreshMM.fault = "no" /\ \A a : Layers(FreshMM, a) = 0
<1>1. FreshMM \in MM /\ FreshMM.fault = "no" /\ Holds(FreshMM) /\ FreshMM.mmap = Nil
  BY FreshGood DEF Good, FreshMM
<1>2. Used(FreshMM) = {}
  BY <1>1, NoneUsed
<1>3. FreshMM \in Tidy
  BY <1>1, <1>2, FreshGood DEF Tidy, Neat
<1>4. \A a : At(FreshMM, a) = {}
  BY <1>2 DEF At
<1>5. Cardinality({}) = 0
  BY FS_EmptySet
<1> QED BY <1>1, <1>3, <1>4, <1>5 DEF Layers

\* d has one layer more over va .. end than m.
OneOn(m, d, va, end) == \A a \in Int : Layers(d, a) = Layers(m, a) + One(Inside(va, end, a))

\* do_mmap lays one area over the range.
LEMMA MmapTidy ==
    ASSUME NEW m \in Tidy, NEW va \in Addresses, NEW end \in Addresses, va <= end, 0 < end
    PROVE  LET d == do_mmap(m, va, end) IN
           d \in Tidy /\ (d.fault = "no" => m.fault = "no" /\ OneOn(m, d, va, end))
<1>1. m \in Good /\ (m.fault = "no" => Neat(m))
  BY DEF Tidy
<1>2. PICK d : d = do_mmap(m, va, end)
  OBVIOUS
<1>3. d \in Good /\ (d.fault = "no" => m.fault = "no" /\ Added(m, d, va, end))
  BY <1>1, <1>2, MmapGood
<1>4. ASSUME d.fault = "no" PROVE Neat(d) /\ m.fault = "no" /\ OneOn(m, d, va, end)
  <2>1. d \in MM
    BY <1>3 DEF Good
  <2> QED BY <1>1, <1>3, <1>4, <2>1, AddedIs DEF OneOn
<1> QED BY <1>2, <1>3, <1>4 DEF Tidy

\* The mm_struct of a child has the areas of its parent's.
LEMMA CopyTidy ==
    ASSUME NEW m \in Tidy, m.fault = "no"
    PROVE  /\ copy_mm(m) \in Tidy /\ copy_mm(m).fault = "no"
           /\ \A a : Layers(copy_mm(m), a) = Layers(m, a)
<1>1. m \in Good /\ Neat(m)
  BY DEF Tidy
<1>2. PICK d : d = copy_mm(m)
  OBVIOUS
<1>3. d \in Good /\ d.fault = "no" /\ Used(d) = Used(m) /\ Same(m, d, Used(m))
  BY <1>1, <1>2, CopyGood
<1>4. Neat(d)
  BY <1>1, <1>3 DEF Neat, Same, Good
<1> QED BY <1>2, <1>3, <1>4, SameLayers DEF Tidy

\* munmap takes one layer off.
LEMMA MunmapTidy ==
    ASSUME NEW m \in Tidy, m.fault = "no", NEW va \in Addresses, NEW end \in Addresses,
           va <= end, Affected(m, va, end) # <<>>
    PROVE  LET d == CutAll(m, Affected(m, va, end), va, end) IN
           /\ d \in Tidy
           /\ d.fault = "no" =>
                \A a \in Int : Layers(d, a) = Layers(m, a) - One(Inside(va, end, a))
<1>1. m \in Good /\ Neat(m)
  BY DEF Tidy
<1>2. PICK d : d = CutAll(m, Affected(m, va, end), va, end)
  OBVIOUS
<1>3. d \in Good
  BY <1>1, <1>2, MunmapGood
<1>4. d.fault = "no" => Neat(d) /\ \A a \in Int : Layers(d, a) = Layers(m, a) - One(Inside(va, end, a))
  BY <1>1, <1>2, CutAllLayers
<1> QED BY <1>2, <1>3, <1>4 DEF Tidy
\* A program with its stack, however many areas it has.
LEMMA LoadTidy ==
    ASSUME NEW image \in Images
    PROVE  LoadProgram(image) \in Tidy
<1>1. PICK P : P = {x \in Addresses \X Addresses : x[1] <= x[2] /\ 0 < x[2]}
  OBVIOUS
<1>2. image \in Seq(P)
  BY <1>1, VmaAssumption
<1>15. PICK n : n = Len(image)
  OBVIOUS
<1>3. n \in Nat /\ image \in [1 .. n -> P]
  BY <1>2, <1>15, LenProperties
<1>4. \A k \in 1 .. n : /\ image[k][1] \in Addresses /\ image[k][2] \in Addresses
                        /\ image[k][1] <= image[k][2] /\ 0 < image[k][2]
  <2> TAKE k \in 1 .. n
  <2>1. image[k] \in P
    BY <1>3
  <2>2. /\ image[k] \in Addresses \X Addresses
        /\ image[k][1] <= image[k][2] /\ 0 < image[k][2]
    BY <1>1, <2>1
  <2> QED BY <2>2
<1> DEFINE C(k, x) == do_mmap(x, image[k][1], image[k][2])
           Is(h) == h = [k \in 0 .. n |-> IF k = 0 THEN FreshMM
                                          ELSE do_mmap(h[k - 1], image[k][1], image[k][2])]
           loaded == CHOOSE h : Is(h)
           step == [y \in (1 .. n) \X Tidy |-> C(y[1], y[2])]
<1>5. LoadProgram(image) = do_mmap(loaded[n], USER_END - PGSIZE, USER_END)
  BY <1>15, Zenon DEF LoadProgram
<1>6. \A k \in 1 .. n, x \in Tidy : C(k, x) \in Tidy
  BY <1>4, MmapTidy
<1> HIDE DEF C
<1>7. step \in [(1 .. n) \X Tidy -> Tidy]
  BY <1>6
<1>8. FreshMM \in Tidy
  BY FreshTidy
<1>9. PICK f \in [0 .. n -> Tidy] : Stepwise(f, n, FreshMM, step)
  <2> HIDE DEF step
  <2> QED BY <1>3, <1>7, <1>8, StepwiseExists
<1>10. Is(f)
  <2>1. f[0] = FreshMM /\ \A k \in 1 .. n : f[k] = step[<<k, f[k - 1]>>]
    BY <1>9 DEF Stepwise
  <2>2. \A k \in 1 .. n : k - 1 \in 0 .. n /\ f[k - 1] \in Tidy
    BY <1>3, <1>9
  <2>3. \A k \in 1 .. n : f[k] = C(k, f[k - 1])
    BY <2>1, <2>2
  <2>4. \A k \in 0 .. n : k # 0 => k \in 1 .. n
    BY <1>3
  <2>5. f = [k \in 0 .. n |-> f[k]]
    BY <1>9
  <2>6. \A k \in 0 .. n : f[k] = IF k = 0 THEN FreshMM ELSE C(k, f[k - 1])
    BY <2>1, <2>3, <2>4
  <2>7. f = [k \in 0 .. n |-> IF k = 0 THEN FreshMM ELSE C(k, f[k - 1])]
    BY <2>5, <2>6
  <2> QED BY <2>7 DEF C
<1>11. Is(loaded)
  <2> HIDE DEF Is
  <2> QED BY <1>10
<1> HIDE DEF loaded
<1>12. ASSUME NEW h, Is(h) PROVE \A k \in 0 .. n : h[k] \in Tidy
  <2> DEFINE e(k) == IF k = 0 THEN FreshMM ELSE C(k, h[k - 1])
             T == {k \in Nat : k \in 0 .. n => h[k] \in Tidy}
  <2>1. PICK g : g = [k \in 0 .. n |-> e(k)]
    OBVIOUS
  <2>2. h = g
    BY <1>12, <2>1 DEF C
  <2> HIDE DEF e
  <2>3. \A k \in 0 .. n : h[k] = e(k)
    BY <2>1, <2>2
  <2> USE DEF e
  <2>4. 0 \in T
    BY <1>3, <1>8, <2>3
  <2>5. ASSUME NEW k \in T PROVE k + 1 \in T
    <3> SUFFICES ASSUME k + 1 \in 0 .. n PROVE h[k + 1] \in Tidy
      OBVIOUS
    <3>1. k \in 0 .. n /\ k + 1 \in 1 .. n /\ (k + 1) - 1 = k /\ k + 1 # 0
      BY <1>3
    <3>2. h[k] \in Tidy
      BY <3>1
    <3>3. h[k + 1] = C(k + 1, h[k])
      BY <2>3, <3>1
    <3> QED BY <1>6, <3>1, <3>2, <3>3
  <2>6. T = Nat
    <3>1. T \in SUBSET Nat
      OBVIOUS
    <3> HIDE DEF T
    <3> QED BY <2>4, <2>5, <3>1, NatByInduction
  <2> QED BY <2>6
<1>13. \A k \in 0 .. n : loaded[k] \in Tidy
  <2> HIDE DEF Is
  <2> QED BY <1>11, <1>12
<1>14. loaded[n] \in Tidy
  BY <1>3, <1>13
<1>16. /\ USER_END - PGSIZE \in Addresses /\ USER_END \in Addresses
       /\ USER_END - PGSIZE <= USER_END /\ 0 < USER_END
  BY VmaAssumption, PageTableAssumption DEF Addresses
<1> QED BY <1>5, <1>14, <1>16, MmapTidy

-----------------------------------------------------------------------------
(* What becomes of the table of a process.                                 *)

\* A page that has an address under an area.
Under(m, p) == \E a \in 0 .. USER_END - 1 : Low(a) = p /\ Layers(m, a) > 0

\* Only such pages of the users are backed by a frame.
Backs(m, t) ==
    \A p \in Nat : p < Low(USER_END) /\ Pte(t, p) \notin {None, Wild} => Under(m, p)

\* What the kernel maps for itself, t maps as well.
Kernel(t) ==
    \A p \in Vpns : is_valid_pte(Pte(swapper_pg_dir, p)) => Pte(t, p) = Pte(swapper_pg_dir, p)

\* The kernel maps pages above the users only.
LEMMA KernelAbove ==
    ASSUME NEW t, NEW d, Kernel(t),
           \A p \in Vpns : ~ (p < Low(USER_END)) => Pte(d, p) = Pte(t, p)
    PROVE  Kernel(d)
<1>1. \A p \in Vpns : p < Low(USER_END) => Pte(swapper_pg_dir, p) = None
  BY SwapperIs DEF KernelTables
<1> QED BY <1>1 DEF Kernel, is_valid_pte

\* An address of a user is an integer and lies on a page of the users.
LEMMA AddrIs ==
    ASSUME NEW a \in 0 .. USER_END - 1
    PROVE  a \in Int /\ a \in Nat /\ a \in Addresses /\ Low(a) \in Nat /\ Low(a) < Low(USER_END)
<1>1. a \in Int /\ a \in Nat /\ a \in Addresses
  BY VmaAssumption DEF Addresses
<1>2. Low(a) \in 0 .. Low(USER_END) - 1 /\ Low(USER_END) \in Nat
  BY UserPages
<1> QED BY <1>1, <1>2

\* munmap clears the pages of the addresses of the range and no other.
LEMMA RangeCleared ==
    ASSUME NEW t \in Tables, NEW va \in Nat, NEW len \in Nat,
           va + len <= USER_END, va % PGSIZE = 0, len % PGSIZE = 0,
           ~MeetsWild(t, Low(va), High(va, len))
    PROVE  LET d == remove_mapping(t, va, len) IN
           /\ d \in Tables
           /\ \A p \in Vpns : Pte(d, p) =
                IF \E a \in 0 .. USER_END - 1 : Low(a) = p /\ Inside(va, va + len, a)
                THEN None ELSE Pte(t, p)
<1>1. PGSIZE \in Nat \ {0} /\ USER_END \in Nat
  BY PageTableAssumption, VmaAssumption
<1>2. PICK x \in Int : x = va \div PGSIZE /\ va = PGSIZE * x
  <2>1. va \div PGSIZE \in Int /\ va = PGSIZE * (va \div PGSIZE) + (va % PGSIZE)
    BY <1>1, DivMod
  <2> QED BY <1>1, <2>1
<1>3. PICK y \in Int : y = len \div PGSIZE /\ len = PGSIZE * y
  <2>1. len \div PGSIZE \in Int /\ len = PGSIZE * (len \div PGSIZE) + (len % PGSIZE)
    BY <1>1, DivMod
  <2> QED BY <1>1, <2>1
<1>4. PICK h \in Int : h = x + y - 1
  OBVIOUS
<1>5. va = x * PGSIZE /\ len = (h - x + 1) * PGSIZE
  BY <1>1, <1>2, <1>3, <1>4
<1>6. Low(va) = x /\ High(va, len) = h
  BY <1>5, WholePages
<1>7. PICK d : d = remove_mapping(t, va, len)
  OBVIOUS
<1>8. Clears(d, t, x, h)
  BY <1>6, <1>7, RemoveIs
<1>9. ASSUME NEW p \in Vpns
      PROVE  x <= p /\ p <= h
             <=> \E a \in 0 .. USER_END - 1 : Low(a) = p /\ Inside(va, va + len, a)
  <2>1. p \in Int /\ p \in Nat /\ x + y \in Int
    BY UserPages
  <2>2. va + len = PGSIZE * (x + y)
    BY <1>1, <1>2, <1>3
  <2>3. ASSUME x <= p, p <= h
        PROVE  \E a \in 0 .. USER_END - 1 : Low(a) = p /\ Inside(va, va + len, a)
    <3>1. PICK a \in Int : a = p * PGSIZE
      BY <1>1, <2>1
    <3>2. Low(a) = p
      BY <2>1, <3>1, WholePages
    <3>3. ~ (x + y <= p) /\ x <= p
      BY <1>4, <2>1, <2>3
    <3>4. va <= a /\ ~ (va + len <= a)
      BY <1>2, <2>1, <2>2, <3>1, <3>2, <3>3, LowOrder
    <3>5. a \in 0 .. USER_END - 1
      BY <1>1, <3>4
    <3> QED BY <3>1, <3>2, <3>4, <3>5 DEF Inside
  <2>4. ASSUME NEW a \in 0 .. USER_END - 1, Low(a) = p, Inside(va, va + len, a)
        PROVE  x <= p /\ p <= h
    <3>1. a \in Int /\ va <= a /\ ~ (va + len <= a)
      BY <1>1, <2>4 DEF Inside
    <3>2. x <= p /\ ~ (x + y <= p)
      BY <1>2, <2>1, <2>2, <2>4, <3>1, LowOrder
    <3> QED BY <1>4, <2>1, <3>2
  <2> QED BY <2>3, <2>4
<1> QED BY <1>7, <1>8, <1>9 DEF Clears

\* execve and exit leave no user page behind, and keep what the kernel maps.
LEMMA AllCleared ==
    ASSUME NEW t \in Tables, NEW m, Neat(m), Holds(m), Backs(m, t),
           \A s \in Used(m) : ~MeetsWild(t, Low(m.start[s]), High(m.start[s], Size(m, s)))
    PROVE  LET d == Unmapped(t, m, AreaList(m)) IN
           /\ d \in Tables
           /\ \A p \in Vpns : IF p < Low(USER_END) THEN Pte(d, p) \in {None, Wild}
                              ELSE Pte(d, p) = Pte(t, p)
<1>1. PICK L, n, F, f, e : Shape(m, L, n, F, f, e)
  BY DEF Holds
<1>2. n \in Nat /\ L \in [1 .. n -> Slots] /\ AreaList(m) = L /\ Len(L) = n
      /\ Used(m) = {L[i] : i \in 1 .. n}
  BY <1>1, ShapeIs
<1>3. ASSUME NEW s \in Used(m)
      PROVE  /\ m.start[s] \in Addresses /\ m.end[s] \in Addresses
             /\ High(m.start[s], Size(m, s)) = Low(m.end[s] - 1)
             /\ Low(m.end[s] - 1) \in 0 .. Low(USER_END) - 1
             /\ Removable(t, m, s)
  <2>1. PICK b, c : b = m.start[s] /\ c = m.end[s]
    OBVIOUS
  <2>2. m.start \in [Slots -> Addresses] /\ m.end \in [Slots -> Addresses]
    BY FieldsIs DEF Neat
  <2>3. b \in Addresses /\ c \in Addresses /\ b <= c /\ 0 < c
    BY <2>1, <2>2 DEF Neat
  <2>4. /\ Low(b) \in Vpns /\ High(b, c - b) = Low(c - 1)
        /\ Low(c - 1) \in 0 .. Low(USER_END) - 1 /\ Low(c - 1) \in Vpns
    BY <2>3, AreaPagesIn
  <2>5. Low(c - 1) \in Int /\ Low(c - 1) < RADIX * RADIX * RADIX
    BY <2>4, UserPages
  <2>6. ~MeetsWild(t, Low(b), High(b, c - b))
    BY <2>1 DEF Size
  <2> QED BY <2>1, <2>3, <2>4, <2>5, <2>6 DEF Removable, Size
<1>4. PICK d : d = Unmapped(t, m, L)
  OBVIOUS
<1>5. /\ d \in Tables
      /\ \A p \in Vpns : Pte(d, p) = IF \E i \in 1 .. n : Over(m, L[i], p) THEN None ELSE Pte(t, p)
  <2>1. \A i \in 1 .. n : Removable(t, m, L[i])
    BY <1>2, <1>3
  <2> QED BY <1>2, <1>4, <2>1, UnmappedIs
<1>6. ASSUME NEW p \in Vpns, p < Low(USER_END) PROVE Pte(d, p) \in {None, Wild}
  <2>1. CASE Pte(t, p) \in {None, Wild}
    BY <1>5, <2>1
  <2>2. CASE Pte(t, p) \notin {None, Wild}
    <3>1. p \in Nat /\ p \in Int
      BY UserPages
    <3>2. PICK a \in 0 .. USER_END - 1 : Low(a) = p /\ Layers(m, a) > 0
      BY <1>6, <2>2, <3>1 DEF Backs, Under
    <3>3. PICK s \in Used(m) : m.start[s] <= a /\ a < m.end[s]
      <4>1. At(m, a) # {}
        BY <3>2, FS_EmptySet DEF Layers
      <4> QED BY <4>1 DEF At
    <3>4. PICK b \in Int, c \in Int : b = m.start[s] /\ c = m.end[s]
      <4>1. Addresses \subseteq Int
        BY VmaAssumption DEF Addresses
      <4> QED BY <1>3, <4>1
    <3>5. a \in Int /\ b <= a /\ a <= c - 1
      BY <3>3, <3>4, AddrIs
    <3>6. Low(b) <= p
      <4>1. PICK l \in Int : l = Low(b)
        BY <3>4, LowOrder
      <4>2. PGSIZE * l <= b /\ PGSIZE * l \in Int
        BY <3>4, <4>1, LowOrder, PageTableAssumption
      <4>3. PGSIZE * l <= a
        BY <3>4, <3>5, <4>2
      <4> QED BY <3>2, <3>5, <4>1, <4>3, LowOrder
    <3>7. p <= Low(c - 1)
      <4>1. PGSIZE * p <= a /\ PGSIZE * p \in Int
        BY <3>1, <3>2, <3>5, LowOrder, PageTableAssumption
      <4>2. PGSIZE * p <= c - 1
        BY <3>4, <3>5, <4>1
      <4> QED BY <3>1, <3>4, <4>2, LowOrder
    <3>8. Over(m, s, p)
      BY <1>3, <3>4, <3>6, <3>7 DEF Over
    <3>9. PICK i \in 1 .. n : L[i] = s
      BY <1>2
    <3> QED BY <1>5, <3>8, <3>9
  <2> QED BY <2>1, <2>2
<1>7. ASSUME NEW p \in Vpns, ~ (p < Low(USER_END)) PROVE Pte(d, p) = Pte(t, p)
  <2> SUFFICES ASSUME NEW i \in 1 .. n, Over(m, L[i], p) PROVE FALSE
    BY <1>5
  <2>1. L[i] \in Used(m)
    BY <1>2
  <2>2. p <= Low(m.end[L[i]] - 1) /\ Low(m.end[L[i]] - 1) \in 0 .. Low(USER_END) - 1
    BY <1>3, <2>1 DEF Over
  <2>3. p \in Int /\ Low(USER_END) \in Nat
    BY UserPages
  <2> QED BY <1>7, <2>2, <2>3
<1> QED BY <1>2, <1>4, <1>5, <1>6, <1>7

\* A page fault backs one page with a frame.
LEMMA PageBacked ==
    ASSUME NEW t \in Tables, NEW page \in Vpns, Pte(t, page) = None
    PROVE  LET d == create_mapping(t, page * PGSIZE, 0, PGSIZE, User) IN
           /\ d \in Tables
           /\ \A p \in Vpns : Pte(d, p) = IF p = page THEN [ppn |-> 0, perm |-> User]
                                          ELSE Pte(t, p)
<1>1. ~MeetsWild(t, page, page)
  <2> SUFFICES ASSUME MeetsWild(t, page, page) PROVE FALSE
    OBVIOUS
  <2>1. PICK r, f, s \in Index : page = PageAt(r, f, s) /\ Vpn(page) = <<s, f, r>>
    BY VpnsHave
  <2>2. r \in Int /\ f \in Int
    BY RadixIs
  <2>3. PICK v : v = Vpn(page)
    OBVIOUS
  <2>4. v[1] = s /\ v[2] = f /\ v[3] = r
    BY <2>1, <2>3
  <2>5. RootRange(page, page) = {r}
    BY <2>2, <2>3, <2>4 DEF RootRange
  <2>6. FirstRange(page, page, r) = {f}
    BY <2>2, <2>3, <2>4 DEF FirstRange
  <2>7. t[r] = Wild \/ (t[r] # None /\ t[r][f] = Wild)
    BY <2>5, <2>6 DEF MeetsWild
  <2>8. Pte(t, page) = IF t[r] \in {None, Wild} THEN t[r]
                       ELSE IF t[r][f] \in {None, Wild} THEN t[r][f] ELSE t[r][f][s]
    BY <2>1, <2>2, PteAt DEF Walked
  <2>9. None # Wild
    BY TableIs
  <2> QED BY <2>7, <2>8, <2>9
<1> QED BY <1>1, ShareIs DEF Share

\* The pages that a process has a frame for.
Framed(t, p) == Pte(t, p) \notin {None, Wild}

\* The page of an address under an area is one of the area's pages, and those are
\* pages of the users.
LEMMA AreaPagesAre ==
    ASSUME NEW m, Neat(m)
    PROVE  /\ \A p \in AreaPages(m) : p \in Nat /\ p < Low(USER_END)
           /\ \A p \in Nat : Under(m, p) => p \in AreaPages(m)
<1>1. m.start \in [Slots -> Addresses] /\ m.end \in [Slots -> Addresses]
  BY FieldsIs DEF Neat
<1>2. \A s \in Used(m) : m.start[s] \in Addresses /\ m.end[s] \in Addresses /\ 0 < m.end[s]
  BY <1>1 DEF Neat
<1>3. PGSIZE \in Nat \ {0} /\ USER_END \in Nat
  BY PageTableAssumption, VmaAssumption
<1>4. AreaPages(m) = UNION {PagesOf(m, s) : s \in Used(m)}
  BY DEF AreaPages, Used
<1>5. ASSUME NEW b \in Addresses, NEW c \in Addresses
      PROVE  /\ b \in Int /\ c \in Int /\ c + PGSIZE - 1 \in Int /\ 0 <= b /\ c <= USER_END
             /\ Low(b) \in 0 .. Low(USER_END) /\ Low(c + PGSIZE - 1) \in Int
  <2>1. b \in Int /\ c \in Int /\ c + PGSIZE - 1 \in Int /\ 0 <= b /\ c <= USER_END
    BY <1>3 DEF Addresses
  <2> QED BY <2>1, LowOrder, UserPages
<1>6. ASSUME NEW p \in AreaPages(m) PROVE p \in Nat /\ p < Low(USER_END)
  <2>1. PICK s \in Used(m) : p \in PagesOf(m, s)
    BY <1>4
  <2>2. PICK b \in Addresses, c \in Addresses : b = m.start[s] /\ c = m.end[s]
    BY <1>2
  <2>3. p \in Low(b) .. Low(c + PGSIZE - 1) - 1
    BY <2>1, <2>2 DEF PagesOf
  <2>4. PICK l \in Int, h \in Int, n \in Nat : l = Low(b) /\ h = Low(c + PGSIZE - 1) /\ n = Low(USER_END)
    BY <1>5, UserPages
  <2>5. p \in Nat /\ p + 1 <= h
    BY <1>5, <2>3, <2>4
  <2>6. PGSIZE * (p + 1) <= c + PGSIZE - 1
    BY <1>5, <2>4, <2>5, LowOrder
  <2>7. PGSIZE * (p + 1) = PGSIZE * p + PGSIZE /\ PGSIZE * p \in Int
    BY <1>3, <2>5, Z3
  <2>8. USER_END = PGSIZE * n /\ ~ (USER_END <= PGSIZE * p)
    <3>1. USER_END = PGSIZE * n
      BY <2>4, UserPages
    <3> QED BY <1>3, <1>5, <2>6, <2>7, <3>1
  <2>9. ~ (n <= p)
    BY <1>3, <2>5, <2>8, Z3
  <2> QED BY <2>4, <2>5, <2>9
<1>7. ASSUME NEW p \in Nat, Under(m, p) PROVE p \in AreaPages(m)
  <2>1. PICK a \in 0 .. USER_END - 1 : Low(a) = p /\ Layers(m, a) > 0
    BY <1>7 DEF Under
  <2>2. PICK s \in Used(m) : m.start[s] <= a /\ a < m.end[s]
    <3>1. At(m, a) # {}
      BY <2>1, FS_EmptySet DEF Layers
    <3> QED BY <3>1 DEF At
  <2>3. PICK b \in Addresses, c \in Addresses : b = m.start[s] /\ c = m.end[s]
    BY <1>2
  <2>4. PICK l \in Int, h \in Int : l = Low(b) /\ h = Low(c + PGSIZE - 1)
    BY <1>5
  <2>5. a \in Int /\ b <= a /\ a + PGSIZE <= c + PGSIZE - 1
    BY <1>3, <1>5, <2>2, <2>3, AddrIs
  <2>6. l <= p
    <3>1. PGSIZE * l <= b /\ PGSIZE * l \in Int
      BY <1>3, <1>5, <2>4, LowOrder
    <3>2. PGSIZE * l <= a
      BY <1>5, <2>5, <3>1
    <3> QED BY <2>1, <2>4, <2>5, <3>2, LowOrder
  <2>7. p + 1 <= h
    <3>1. PGSIZE * p <= a /\ PGSIZE * p \in Int
      BY <1>3, <2>1, <2>5, LowOrder
    <3>2. PGSIZE * (p + 1) = PGSIZE * p + PGSIZE
      BY <1>3, Z3
    <3>3. PGSIZE * (p + 1) <= c + PGSIZE - 1
      BY <1>3, <1>5, <2>5, <3>1, <3>2
    <3> QED BY <1>5, <2>4, <3>3, LowOrder
  <2>8. p \in l .. h - 1
    BY <2>6, <2>7
  <2>9. p \in PagesOf(m, s)
    BY <2>3, <2>4, <2>8 DEF PagesOf
  <2> QED BY <1>4, <2>9
<1> QED BY <1>6, <1>7

\* The table of a child has a frame for the same pages of the users and maps what
\* the kernel maps, whatever its pages held before.
LEMMA ForkTable ==
    ASSUME NEW t \in Tables, NEW m, Neat(m), Backs(m, t), NEW junk \in {None, Wild},
           NEW valid, valid = {p \in AreaPages(m) : is_valid_pte(Pte(t, p))},
           \A p \in AreaPages(m) : Pte(t, p) # Wild,
           \A p \in valid : ~MeetsWild(copy_mapping(swapper_pg_dir, junk, junk), p, p)
    PROVE  LET d == ShareAll(copy_mapping(swapper_pg_dir, junk, junk), valid) IN
           /\ d \in Tables /\ Kernel(d)
           /\ \A p \in Nat : p < Low(USER_END) => (Framed(d, p) <=> Framed(t, p))
<1>1. PICK c : c = copy_mapping(swapper_pg_dir, junk, junk)
  OBVIOUS
<1>2. swapper_pg_dir \in KernelTables
  BY SwapperIs
<1>3. PICK k \in KernelTables : k = swapper_pg_dir
  BY <1>2
<1>4. k \in Tables /\ NoWild(k) /\ \A p \in Vpns : p < Low(USER_END) => Pte(k, p) = None
  BY DEF KernelTables
<1>5. /\ c \in Tables
      /\ \A p \in Vpns : IF Pte(k, p) # None THEN Pte(c, p) = Pte(k, p) ELSE Pte(c, p) \in {None, junk}
  BY <1>1, <1>3, <1>4, CopyIs
<1>6. PICK d : d = ShareAll(c, valid)
  OBVIOUS
<1>7. \A p \in valid : p \in Nat /\ p < Low(USER_END)
  BY AreaPagesAre
<1>8. /\ d \in Tables
      /\ \A p \in Vpns : Pte(d, p) = IF p \in valid THEN [ppn |-> 0, perm |-> User] ELSE Pte(c, p)
  BY <1>1, <1>5, <1>6, <1>7, ShareAllIs
<1>9. Kernel(d)
  BY <1>3, <1>4, <1>5, <1>7, <1>8 DEF Kernel, is_valid_pte
<1>10. ASSUME NEW p \in Nat, p < Low(USER_END) PROVE Framed(d, p) <=> Framed(t, p)
  <2>1. p \in Vpns
    BY <1>10, UserPages
  <2>2. [ppn |-> 0, perm |-> User] \notin {None, Wild}
    <3>1. [ppn |-> 0, perm |-> User] \in Frames
      BY VmaAssumption DEF Frames
    <3> QED BY <3>1, TableIs
  <2>3. Framed(d, p) <=> p \in valid
    BY <1>4, <1>5, <1>8, <1>10, <2>1, <2>2 DEF Framed
  <2>4. Framed(t, p) => p \in valid
    <3>1. Framed(t, p) => Under(m, p)
      BY <1>10 DEF Backs, Framed
    <3>2. Under(m, p) => p \in AreaPages(m)
      BY AreaPagesAre
    <3> QED BY <3>1, <3>2 DEF Framed, is_valid_pte
  <2>5. p \in valid => Framed(t, p)
    BY DEF Framed, is_valid_pte
  <2> QED BY <2>3, <2>4, <2>5
<1> QED BY <1>1, <1>6, <1>8, <1>9, <1>10

-----------------------------------------------------------------------------
(* The invariant.                                                          *)

IInv ==
    /\ TypeOK
    /\ mm \in Tidy /\ pgd \in Tables
    /\ alive # "reaped" => Kernel(pgd)
    /\ mm.fault = "no" => Backs(mm, pgd)
    /\ mm.fault = "no" /\ alive # "yes" => mm = FreshMM

\* What AddressSpace sees.
LEMMA CoverIs == \A m : Cover(m) = [a \in 0 .. USER_END - 1 |-> Layers(m, a)]
BY DEF Cover, Layers, At, Used

\* The pages that are backed, before and after a step.
LEMMA BackedIs ==
    /\ Backed = {p \in 0 .. Low(USER_END) - 1 : Framed(pgd, p)}
    /\ Backed' = {p \in 0 .. Low(USER_END) - 1 : Framed(pgd', p)}
BY DEF Backed, Framed, is_valid_pte

\* A step into a fault is a crash.
LEMMA Crashing ==
    ASSUME mm.fault = "no", mm'.fault # "no"
    PROVE  Space!Next
BY DEF Space!Next, Space!Crash

\* Pages that stay as they are stay backed.
LEMMA SameBacked ==
    ASSUME \A p \in Nat : p < Low(USER_END) => (Framed(pgd', p) <=> Framed(pgd, p))
    PROVE  Backed' = Backed
<1>1. \A p \in 0 .. Low(USER_END) - 1 : p \in Nat /\ p < Low(USER_END)
  BY UserPages
<1> QED BY <1>1, BackedIs

\* d has i layers more than m over va .. end.
Raised(m, d, va, end, i) ==
    \A a \in Int : Layers(d, a) = IF Inside(va, end, a) THEN Layers(m, a) + i ELSE Layers(m, a)

\* A layer more over a range, or one less, changes the layers of just that range.
LEMMA ChangedIs ==
    ASSUME NEW m, NEW d, NEW va \in Nat, NEW end \in Nat, end <= USER_END,
           Used(m) \subseteq Slots, NEW i \in Int, i # 0, Raised(m, d, va, end, i)
    PROVE  {a \in 0 .. USER_END - 1 : Cover(d)[a] # Cover(m)[a]} = va .. end - 1
<1>1. ASSUME NEW a \in 0 .. USER_END - 1
      PROVE  Cover(d)[a] # Cover(m)[a] <=> a \in va .. end - 1
  <2>1. a \in Int
    BY AddrIs
  <2>2. Cover(d)[a] = Layers(d, a) /\ Cover(m)[a] = Layers(m, a)
    BY CoverIs
  <2>3. Layers(m, a) \in Nat
    BY LayersIs
  <2> QED BY <2>1, <2>2, <2>3 DEF Inside, Raised
<1>2. va .. end - 1 \subseteq 0 .. USER_END - 1
  BY VmaAssumption
<1> QED BY <1>1, <1>2

\* mmap lays a layer over a range.
LEMMA Mapping ==
    ASSUME Neat(mm), mm.fault = "no", mm'.fault = "no", Backed' = Backed,
           NEW va \in Nat, NEW end \in Nat, end <= USER_END, OneOn(mm, mm', va, end)
    PROVE  Space!Next
<1>1. \A a \in Int : Layers(mm, a) \in Nat
  BY LayersIs DEF Neat
<1>2. Raised(mm, mm', va, end, 1)
  BY <1>1 DEF OneOn, One, Raised
<1>3. Used(mm) \subseteq Slots
  BY DEF Neat
<1>4. Space!Changed = va .. end - 1
  <2>1. {a \in 0 .. USER_END - 1 : Cover(mm')[a] # Cover(mm)[a]} = va .. end - 1
    BY <1>2, <1>3, ChangedIs
  <2> QED BY <2>1 DEF Space!Changed, Space!Addr
<1>5. \A a \in va .. end - 1 : Cover(mm')[a] = Cover(mm)[a] + 1
  <2> TAKE a \in va .. end - 1
  <2>1. a \in 0 .. USER_END - 1 /\ a \in Int /\ Inside(va, end, a)
    BY VmaAssumption DEF Inside
  <2> QED BY <1>2, <2>1, CoverIs DEF Raised
<1>6. \A a, b \in va .. end - 1 : a .. b \subseteq va .. end - 1
  OBVIOUS
<1>7. Space!Layer(1, va .. end - 1)
  BY <1>5, <1>6 DEF Space!Layer
<1>8. Space!Map
  BY <1>4, <1>7 DEF Space!Map
<1> QED BY <1>8 DEF Space!Next

\* d has one layer less over va .. end than m.
OneDown(m, d, va, end) == \A a \in Int : Layers(d, a) = Layers(m, a) - One(Inside(va, end, a))

\* The pages of the users that d has a frame for are those of t without the range's.
Unframed(t, d, va, end) ==
    \A p \in Nat : p < Low(USER_END) =>
        (Framed(d, p) <=> Framed(t, p) /\ ~ \E a \in 0 .. USER_END - 1 :
                              Low(a) = p /\ Inside(va, end, a))

\* munmap takes a layer off a range, and the frames under it.
LEMMA Unmapping ==
    ASSUME Neat(mm), mm.fault = "no", mm'.fault = "no",
           NEW va \in Nat, NEW end \in Nat, end <= USER_END,
           OneDown(mm, mm', va, end), Unframed(pgd, pgd', va, end)
    PROVE  Space!Next
<1>1. \A a \in Int : Layers(mm, a) \in Nat
  BY LayersIs DEF Neat
<1>2. \A a \in Int : Layers(mm', a) = IF Inside(va, end, a) THEN Layers(mm, a) + (-1)
                                      ELSE Layers(mm, a)
  BY <1>1 DEF One, OneDown
<1>3. Used(mm) \subseteq Slots
  BY DEF Neat
<1>4. Space!Changed = va .. end - 1
  <2>1. {a \in 0 .. USER_END - 1 : Cover(mm')[a] # Cover(mm)[a]} = va .. end - 1
    <3>1. PICK i \in Int : i = -1
      OBVIOUS
    <3>2. Raised(mm, mm', va, end, i)
      BY <1>2, <3>1 DEF Raised
    <3>3. i # 0
      BY <3>1
    <3> QED BY <1>3, <3>2, <3>3, ChangedIs
  <2> QED BY <2>1 DEF Space!Changed, Space!Addr
<1>5. \A a \in va .. end - 1 : Cover(mm')[a] = Cover(mm)[a] + (-1)
  <2> TAKE a \in va .. end - 1
  <2>1. a \in 0 .. USER_END - 1 /\ a \in Int /\ Inside(va, end, a)
    BY VmaAssumption DEF Inside
  <2> QED BY <1>2, <2>1, CoverIs
<1>6. \A a, b \in va .. end - 1 : a .. b \subseteq va .. end - 1
  OBVIOUS
<1>7. Space!Layer(-1, va .. end - 1)
  BY <1>5, <1>6 DEF Space!Layer
<1>8. Backed' = Backed \ {a \div PGSIZE : a \in va .. end - 1}
  <2>1. \A p \in 0 .. Low(USER_END) - 1 : p \in Nat /\ p < Low(USER_END)
    BY UserPages
  <2>2. \A p : p \in {a \div PGSIZE : a \in va .. end - 1}
               <=> \E a \in 0 .. USER_END - 1 : Low(a) = p /\ Inside(va, end, a)
    <3>1. \A a : a \in va .. end - 1 <=> a \in 0 .. USER_END - 1 /\ Inside(va, end, a)
      BY VmaAssumption DEF Inside
    <3> QED BY <3>1 DEF Low
  <2> QED BY <2>1, <2>2, BackedIs DEF Unframed
<1>9. Space!Unmap
  BY <1>4, <1>7, <1>8 DEF Space!Unmap
<1> QED BY <1>9 DEF Space!Next

\* Another program, or none, starts without a frame.
LEMMA Replacing ==
    ASSUME mm.fault = "no", mm'.fault = "no", Cover(mm') \in ProgramCovers,
           \A p \in Nat : p < Low(USER_END) => ~Framed(pgd', p)
    PROVE  Space!Next
<1>1. Backed' = {}
  <2>1. \A p \in 0 .. Low(USER_END) - 1 : p \in Nat /\ p < Low(USER_END)
    BY UserPages
  <2> QED BY <2>1, BackedIs
<1>2. Space!Replace
  BY <1>1 DEF Space!Replace
<1> QED BY <1>2 DEF Space!Next

\* A page fault backs a page under an area.
LEMMA Touching ==
    ASSUME mm.fault = "no", mm' = mm, NEW a \in 0 .. USER_END - 1, Layers(mm, a) > 0,
           \A p \in Nat : p < Low(USER_END) => (Framed(pgd', p) <=> Framed(pgd, p) \/ p = Low(a))
    PROVE  Space!Next
<1>1. Low(a) \in 0 .. Low(USER_END) - 1
  BY UserPages
<1>2. \A p \in 0 .. Low(USER_END) - 1 : p \in Nat /\ p < Low(USER_END)
  BY UserPages
<1>3. Backed' = Backed \cup {a \div PGSIZE}
  BY <1>1, <1>2, BackedIs DEF Low
<1>4. Cover(mm)[a] > 0
  BY CoverIs
<1>5. Space!Touch(a)
  BY <1>3, <1>4 DEF Space!Touch
<1> QED BY <1>5 DEF Space!Next, Space!Addr

\* A step that keeps the invariant and is a step of AddressSpace, or none.
Kept == IInv' /\ (Space!Next \/ UNCHANGED Space!asvars)

\* The kernel stops.
LEMMA LostKept ==
    ASSUME IInv, mm.fault = "no", mm' = Lost(mm, "wild"), UNCHANGED <<alive, pgd>>
    PROVE  Kept
<1>1. mm' \in MM /\ mm'.fault = "wild" /\ mm' \in Good
  BY LostIs, LostGood DEF IInv, TypeOK, Faults
<1>2. IInv'
  BY <1>1 DEF IInv, TypeOK, Tidy
<1>3. Space!Next
  BY <1>1, Crashing
<1> QED BY <1>2, <1>3 DEF Kept

\* The invariant after a step that leaves the mm_struct without a fault or not.
LEMMA KeptIs ==
    ASSUME IInv, mm' \in Tidy, pgd' \in Tables, alive' \in {"yes", "zombie", "reaped"},
           alive' # "reaped" => Kernel(pgd'),
           mm'.fault = "no" => Backs(mm', pgd') /\ (alive' # "yes" => mm' = FreshMM)
    PROVE  IInv'
<1>1. mm' \in MM
  BY DEF Tidy, Good
<1> QED BY <1>1 DEF IInv, TypeOK

\* mmap.
LEMMA MmapKept ==
    ASSUME IInv, NEW va \in Addresses, NEW len \in Nat, 0 < va + len, va + len <= USER_END,
           Mmap(va, len)
    PROVE  Kept
<1>1. PICK end : end = va + len
  OBVIOUS
<1>2. va \in Nat /\ end \in Nat /\ end \in Addresses /\ va <= end /\ 0 < end /\ end <= USER_END
  BY <1>1, VmaAssumption DEF Addresses
<1>3. /\ mm.fault = "no" /\ alive = "yes" /\ mm \in Tidy /\ pgd \in Tables /\ Kernel(pgd)
      /\ Backs(mm, pgd) /\ Neat(mm)
  BY DEF Mmap, Running, IInv, Tidy
<1>4. mm' = do_mmap(mm, va, end) /\ alive' = alive /\ pgd' = pgd
  BY <1>1 DEF Mmap
<1>5. mm' \in Tidy /\ (mm'.fault = "no" => OneOn(mm, mm', va, end))
  BY <1>2, <1>3, <1>4, MmapTidy
<1>6. ASSUME mm'.fault = "no" PROVE Backs(mm', pgd')
  <2> SUFFICES ASSUME NEW p \in Nat, p < Low(USER_END), Pte(pgd, p) \notin {None, Wild}
               PROVE  Under(mm', p)
    BY <1>4 DEF Backs
  <2>1. PICK a \in 0 .. USER_END - 1 : Low(a) = p /\ Layers(mm, a) > 0
    BY <1>3 DEF Backs, Under
  <2>2. a \in Int /\ Layers(mm, a) \in Nat
    BY <1>3, LayersIs, AddrIs DEF Neat
  <2>3. Layers(mm', a) = Layers(mm, a) + One(Inside(va, end, a))
    BY <1>5, <1>6, <2>2 DEF OneOn
  <2>4. Layers(mm', a) > 0
    BY <2>1, <2>2, <2>3 DEF One
  <2> QED BY <2>1, <2>4 DEF Under
<1>7. IInv'
  BY <1>3, <1>4, <1>5, <1>6, KeptIs
<1>8. CASE mm'.fault = "no"
  <2>1. Backed' = Backed
    BY <1>4, SameBacked
  <2> QED BY <1>2, <1>3, <1>5, <1>7, <1>8, <2>1, Mapping DEF Kept
<1>9. CASE mm'.fault # "no"
  BY <1>3, <1>7, <1>9, Crashing DEF Kept
<1> QED BY <1>8, <1>9

\* munmap.
LEMMA MunmapKept ==
    ASSUME IInv, NEW va \in Addresses, NEW len \in Nat, 0 < va + len, va + len <= USER_END,
           Munmap(va, len)
    PROVE  Kept
<1>1. PICK end : end = va + len
  OBVIOUS
<1>2. va \in Nat /\ end \in Nat /\ end \in Addresses /\ va <= end /\ end <= USER_END
  BY <1>1, VmaAssumption DEF Addresses
<1>3. /\ mm.fault = "no" /\ alive = "yes" /\ mm \in Tidy /\ pgd \in Tables /\ Kernel(pgd)
      /\ Backs(mm, pgd) /\ Neat(mm)
  BY DEF Munmap, Running, IInv, Tidy
<1>4. CASE MeetsWild(pgd, Low(va), High(va, len))
  <2>1. mm' = Lost(mm, "wild") /\ UNCHANGED <<alive, pgd>>
    BY <1>4 DEF Munmap
  <2> QED BY <1>3, <2>1, LostKept
<1>5. CASE ~MeetsWild(pgd, Low(va), High(va, len))
  <2>1. /\ va % PGSIZE = 0 /\ len % PGSIZE = 0 /\ Affected(mm, va, end) # <<>> /\ alive' = alive
        /\ pgd' = remove_mapping(pgd, va, len)
        /\ mm' = CutAll(mm, Affected(mm, va, end), va, end)
    BY <1>1, <1>5 DEF Munmap
  <2>2. /\ mm' \in Tidy
        /\ mm'.fault = "no" =>
             \A a \in Int : Layers(mm', a) = Layers(mm, a) - One(Inside(va, end, a))
    BY <1>2, <1>3, <2>1, MunmapTidy
  <2>3. /\ pgd' \in Tables
        /\ \A p \in Vpns : Pte(pgd', p) =
             IF \E a \in 0 .. USER_END - 1 : Low(a) = p /\ Inside(va, va + len, a)
             THEN None ELSE Pte(pgd, p)
    BY <1>2, <1>3, <1>5, <2>1, RangeCleared
  <2>4. Kernel(pgd')
    <3>1. ASSUME NEW p \in Vpns, ~ (p < Low(USER_END)) PROVE Pte(pgd', p) = Pte(pgd, p)
      BY <2>3, <3>1, AddrIs
    <3> QED BY <1>3, <3>1, KernelAbove
  <2>5. ASSUME NEW p \in Nat, p < Low(USER_END)
        PROVE  Framed(pgd', p) <=> Framed(pgd, p) /\ ~ \E a \in 0 .. USER_END - 1 :
                                        Low(a) = p /\ Inside(va, end, a)
    <3>1. p \in Vpns
      BY <2>5, UserPages
    <3> QED BY <1>1, <2>3, <3>1 DEF Framed
  <2>6. ASSUME mm'.fault = "no" PROVE Backs(mm', pgd')
    <3> SUFFICES ASSUME NEW p \in Nat, p < Low(USER_END), Pte(pgd', p) \notin {None, Wild}
                 PROVE  Under(mm', p)
      BY DEF Backs
    <3>1. /\ Framed(pgd, p)
          /\ ~ \E a \in 0 .. USER_END - 1 : Low(a) = p /\ Inside(va, end, a)
      BY <2>5 DEF Framed
    <3>2. PICK a \in 0 .. USER_END - 1 : Low(a) = p /\ Layers(mm, a) > 0
      BY <1>3, <3>1 DEF Backs, Under, Framed
    <3>3. a \in Int /\ Layers(mm, a) \in Nat
      BY <1>3, LayersIs, AddrIs DEF Neat
    <3>4. Layers(mm', a) = Layers(mm, a)
      BY <2>2, <2>6, <3>1, <3>2, <3>3 DEF One
    <3> QED BY <3>2, <3>4 DEF Under
  <2>7. IInv'
    BY <1>3, <2>1, <2>2, <2>3, <2>4, <2>6, KeptIs
  <2>8. CASE mm'.fault = "no"
    <3>1. OneDown(mm, mm', va, end) /\ Unframed(pgd, pgd', va, end)
      BY <2>2, <2>5, <2>8 DEF OneDown, Unframed
    <3> QED BY <1>2, <1>3, <2>7, <2>8, <3>1, Unmapping DEF Kept
  <2>9. CASE mm'.fault # "no"
    BY <1>3, <2>7, <2>9, Crashing DEF Kept
  <2> QED BY <2>8, <2>9
<1> QED BY <1>4, <1>5

\* A page fault.
LEMMA FaultKept ==
    ASSUME IInv, NEW va \in 0 .. USER_END - 1, PageFault(va)
    PROVE  Kept
<1>1. PICK page : page = Low(va)
  OBVIOUS
<1>2. /\ mm.fault = "no" /\ alive = "yes" /\ mm \in Tidy /\ pgd \in Tables /\ Kernel(pgd)
      /\ Backs(mm, pgd) /\ Neat(mm) /\ alive' = alive /\ find_vma(mm, va) # Nil
      /\ mm \in MM /\ Holds(mm)
  BY DEF PageFault, Running, IInv, Tidy, Good
<1>3. CASE Pte(pgd, page) = Wild /\ mm' = Lost(mm, "wild") /\ UNCHANGED pgd
  BY <1>2, <1>3, LostKept
<1>4. CASE /\ ~is_valid_pte(Pte(pgd, page)) /\ mm' = mm
           /\ pgd' = create_mapping(pgd, page * PGSIZE, 0, PGSIZE, User)
  <2>1. va \in Int /\ va \in Addresses /\ page \in Nat /\ page < Low(USER_END) /\ page \in Vpns
    BY <1>1, AddrIs, UserPages
  <2>2. /\ pgd' \in Tables
        /\ \A p \in Vpns : Pte(pgd', p) = IF p = page THEN [ppn |-> 0, perm |-> User]
                                          ELSE Pte(pgd, p)
    <3>1. Pte(pgd, page) = None
      BY <1>4 DEF is_valid_pte
    <3> QED BY <1>2, <1>4, <2>1, <3>1, PageBacked
  <2>3. Kernel(pgd')
    <3>1. \A p \in Vpns : ~ (p < Low(USER_END)) => Pte(pgd', p) = Pte(pgd, p)
      BY <2>1, <2>2
    <3> QED BY <1>2, <3>1, KernelAbove
  <2>4. [ppn |-> 0, perm |-> User] \notin {None, Wild}
    <3>1. [ppn |-> 0, perm |-> User] \in Frames
      BY VmaAssumption DEF Frames
    <3> QED BY <3>1, TableIs
  <2>5. ASSUME NEW p \in Nat, p < Low(USER_END)
        PROVE  Framed(pgd', p) <=> Framed(pgd, p) \/ p = Low(va)
    <3>1. p \in Vpns
      BY <2>5, UserPages
    <3> QED BY <1>1, <2>2, <2>4, <3>1 DEF Framed
  <2>6. Layers(mm, va) > 0
    <3>1. Found(mm, va, find_vma(mm, va))
      BY <1>2, <2>1, FindIs
    <3>2. At(mm, va) # {}
      BY <1>2, <3>1 DEF Found, At
    <3>3. IsFiniteSet(At(mm, va)) /\ Layers(mm, va) \in Nat
      BY <1>2, LayersIs DEF Neat
    <3>4. Cardinality(At(mm, va)) # 0
      BY <3>2, <3>3, FS_EmptySet
    <3> QED BY <3>3, <3>4 DEF Layers
  <2>7. Backs(mm', pgd')
    BY <1>2, <1>4, <2>5, <2>6 DEF Backs, Under, Framed
  <2>8. IInv'
    BY <1>2, <1>4, <2>2, <2>3, <2>7, KeptIs
  <2> QED BY <1>2, <1>4, <2>5, <2>6, <2>8, Touching DEF Kept
<1> QED BY <1>1, <1>3, <1>4 DEF PageFault

\* fork.
LEMMA ForkKept ==
    ASSUME IInv, NEW junk \in {None, Wild}, Fork(junk)
    PROVE  Kept
<1>1. PICK table, valid :
        /\ table = copy_mapping(swapper_pg_dir, junk, junk)
        /\ valid = {p \in AreaPages(mm) : is_valid_pte(Pte(pgd, p))}
  OBVIOUS
<1>2. /\ mm.fault = "no" /\ alive = "yes" /\ mm \in Tidy /\ pgd \in Tables
      /\ Backs(mm, pgd) /\ Neat(mm) /\ alive' = alive
  BY DEF Fork, Running, IInv, Tidy
<1>3. IF \/ \E p \in AreaPages(mm) : Pte(pgd, p) = Wild
         \/ \E p \in valid : MeetsWild(table, p, p)
      THEN mm' = Lost(mm, "wild") /\ UNCHANGED pgd
      ELSE mm' = copy_mm(mm) /\ pgd' = ShareAll(table, valid)
  BY <1>1 DEF Fork
<1>4. CASE mm' = Lost(mm, "wild") /\ UNCHANGED pgd
  BY <1>2, <1>4, LostKept
<1>5. CASE /\ \A p \in AreaPages(mm) : Pte(pgd, p) # Wild
           /\ \A p \in valid : ~MeetsWild(table, p, p)
           /\ mm' = copy_mm(mm) /\ pgd' = ShareAll(table, valid)
  <2>1. /\ pgd' \in Tables /\ Kernel(pgd')
        /\ \A p \in Nat : p < Low(USER_END) => (Framed(pgd', p) <=> Framed(pgd, p))
    BY <1>1, <1>2, <1>5, ForkTable
  <2>2. mm' \in Tidy /\ mm'.fault = "no" /\ \A a : Layers(mm', a) = Layers(mm, a)
    BY <1>2, <1>5, CopyTidy
  <2>3. Backs(mm', pgd')
    BY <1>2, <2>1, <2>2 DEF Backs, Under, Framed
  <2>4. IInv'
    BY <1>2, <2>1, <2>2, <2>3, KeptIs
  <2>5. Backed' = Backed
    BY <2>1, SameBacked
  <2>6. Cover(mm') = Cover(mm)
    BY <2>2, CoverIs
  <2>7. UNCHANGED Space!asvars
    BY <1>2, <2>2, <2>5, <2>6 DEF Space!asvars
  <2> QED BY <2>4, <2>7 DEF Kept
<1> QED BY <1>3, <1>4, <1>5

\* The mappings of all areas go, unless an entry leads astray.
Cleared ==
    /\ pgd' \in Tables
    /\ Kernel(pgd) => Kernel(pgd')
    /\ \A p \in Nat : p < Low(USER_END) => ~Framed(pgd', p)

\* Which execve and exit bring about.
LEMMA UnmapAllIs ==
    ASSUME IInv, mm.fault = "no", pgd' = Unmapped(pgd, mm, AreaList(mm)),
           ~ \E s \in Range(AreaList(mm)) :
               MeetsWild(pgd, Low(mm.start[s]), High(mm.start[s], Size(mm, s)))
    PROVE  Cleared
<1>1. Neat(mm) /\ Holds(mm) /\ Backs(mm, pgd) /\ pgd \in Tables
  BY DEF IInv, Tidy, Good
<1>2. \A s \in Used(mm) : ~MeetsWild(pgd, Low(mm.start[s]), High(mm.start[s], Size(mm, s)))
  BY DEF Used
<1>3. /\ pgd' \in Tables
      /\ \A p \in Vpns : IF p < Low(USER_END) THEN Pte(pgd', p) \in {None, Wild}
                         ELSE Pte(pgd', p) = Pte(pgd, p)
  BY <1>1, <1>2, AllCleared
<1>4. Kernel(pgd) => Kernel(pgd')
  BY <1>3, KernelAbove
<1>5. \A p \in Nat : p < Low(USER_END) => ~Framed(pgd', p)
  BY <1>3, UserPages DEF Framed
<1> QED BY <1>3, <1>4, <1>5 DEF Cleared

\* What execve and exit have in common.
LEMMA ReplacedKept ==
    ASSUME IInv, mm.fault = "no", mm' \in Tidy, Cleared, alive' \in {"yes", "zombie", "reaped"},
           alive' # "reaped" => Kernel(pgd'), Cover(mm') \in ProgramCovers,
           mm'.fault = "no" /\ alive' # "yes" => mm' = FreshMM
    PROVE  Kept
<1>1. Backs(mm', pgd')
  BY DEF Cleared, Backs, Framed
<1>2. IInv'
  BY <1>1, KeptIs DEF Cleared
<1>3. CASE mm'.fault = "no"
  BY <1>2, <1>3, Replacing DEF Cleared, Kept
<1>4. CASE mm'.fault # "no"
  BY <1>2, <1>4, Crashing DEF Kept
<1> QED BY <1>3, <1>4

\* execve.
LEMMA ExecveKept ==
    ASSUME IInv, NEW image \in Images, Execve(image)
    PROVE  Kept
<1>1. mm.fault = "no" /\ alive = "yes" /\ Kernel(pgd)
  BY DEF Execve, Running, IInv
<1>2. CASE mm' = Lost(mm, "wild") /\ UNCHANGED <<alive, pgd>>
  BY <1>1, <1>2, LostKept
<1>3. CASE /\ ~ \E s \in Range(AreaList(mm)) :
                  MeetsWild(pgd, Low(mm.start[s]), High(mm.start[s], Size(mm, s)))
           /\ pgd' = Unmapped(pgd, mm, AreaList(mm)) /\ mm' = LoadProgram(image) /\ alive' = alive
  <2>1. Cleared
    BY <1>1, <1>3, UnmapAllIs
  <2>2. mm' \in Tidy
    BY <1>3, LoadTidy
  <2>3. Cover(mm') \in ProgramCovers
    BY <1>3 DEF ProgramCovers
  <2> QED BY <1>1, <1>3, <2>1, <2>2, <2>3, ReplacedKept DEF Cleared
<1> QED BY <1>2, <1>3, Zenon DEF Execve, UnmapAll

\* exit.
LEMMA ExitKept ==
    ASSUME IInv, Exit
    PROVE  Kept
<1>1. mm.fault = "no" /\ alive = "yes" /\ Kernel(pgd)
  BY DEF Exit, Running, IInv
<1>2. CASE mm' = Lost(mm, "wild") /\ UNCHANGED <<alive, pgd>>
  BY <1>1, <1>2, LostKept
<1>3. CASE /\ ~ \E s \in Range(AreaList(mm)) :
                  MeetsWild(pgd, Low(mm.start[s]), High(mm.start[s], Size(mm, s)))
           /\ pgd' = Unmapped(pgd, mm, AreaList(mm)) /\ mm' = FreshMM /\ alive' = "zombie"
  <2>1. Cleared
    BY <1>1, <1>3, UnmapAllIs
  <2>2. Cover(mm') \in ProgramCovers
    BY <1>3 DEF ProgramCovers
  <2> QED BY <1>1, <1>3, <2>1, <2>2, FreshTidy, ReplacedKept DEF Cleared
<1> QED BY <1>2, <1>3, Zenon DEF Exit, UnmapAll

\* The father empties the tables of a child that has ended.
LEMMA ReapKept ==
    ASSUME IInv, Reap
    PROVE  Kept
<1>1. mm.fault = "no" /\ alive = "zombie" /\ mm = FreshMM
  BY DEF Reap, IInv
<1>2. CASE mm' = Lost(mm, "wild") /\ UNCHANGED <<alive, pgd>>
  BY <1>1, <1>2, LostKept
<1>3. CASE pgd' = delete_mapping(pgd) /\ alive' = "reaped" /\ UNCHANGED mm
  <2>1. pgd' = EmptyTable
    BY <1>3 DEF delete_mapping
  <2>2. pgd' \in Tables /\ \A p \in Vpns : Pte(pgd', p) = None
    BY <2>1, EmptyIs DEF KernelTables
  <2>3. \A p \in Nat : p < Low(USER_END) => ~Framed(pgd', p)
    BY <2>2, UserPages DEF Framed
  <2>4. Backs(mm', pgd')
    BY <2>3 DEF Backs, Framed
  <2>5. mm \in Tidy
    BY DEF IInv
  <2>6. IInv'
    BY <1>1, <1>3, <2>2, <2>4, <2>5, KeptIs
  <2>7. Cover(mm') \in ProgramCovers
    BY <1>1, <1>3 DEF ProgramCovers
  <2> QED BY <1>1, <1>3, <2>3, <2>6, <2>7, Replacing DEF Kept
<1> QED BY <1>2, <1>3 DEF Reap

\* The first program.
LEMMA InitIs ==
    ASSUME Init
    PROVE  IInv /\ Space!Init
<1>1. PICK image \in Images : mm = LoadProgram(image)
  BY DEF Init
<1>2. alive = "yes" /\ mm.fault = "no" /\ pgd = copy_mapping(swapper_pg_dir, None, None)
  BY DEF Init
<1>3. mm \in Tidy /\ mm \in MM
  BY <1>1, LoadTidy DEF Tidy, Good
<1>4. PICK k \in KernelTables : k = swapper_pg_dir
  BY SwapperIs
<1>5. k \in Tables /\ NoWild(k) /\ \A p \in Vpns : p < Low(USER_END) => Pte(k, p) = None
  BY DEF KernelTables
<1>6. /\ pgd \in Tables
      /\ \A p \in Vpns : IF Pte(k, p) # None THEN Pte(pgd, p) = Pte(k, p)
                         ELSE Pte(pgd, p) \in {None, None, None}
  BY <1>2, <1>4, <1>5, CopyIs
<1>7. Kernel(pgd)
  BY <1>4, <1>6 DEF Kernel, is_valid_pte
<1>8. \A p \in Nat : p < Low(USER_END) => ~Framed(pgd, p)
  BY <1>5, <1>6, UserPages DEF Framed
<1>9. IInv
  BY <1>2, <1>3, <1>6, <1>7, <1>8 DEF IInv, TypeOK, Backs, Framed
<1>10. Backed = {}
  <2>1. \A p \in 0 .. Low(USER_END) - 1 : p \in Nat /\ p < Low(USER_END)
    BY UserPages
  <2> QED BY <1>8, <2>1, BackedIs
<1>11. Cover(mm) \in ProgramCovers
  BY <1>1 DEF ProgramCovers
<1>12. Space!Init
  BY <1>2, <1>10, <1>11 DEF Space!Init
<1> QED BY <1>9, <1>12

\* Every step keeps the invariant and is one that AddressSpace allows.
LEMMA NextKept ==
    ASSUME IInv, Next
    PROVE  Kept
<1>1. ASSUME NEW va \in 0 .. USER_END - 1, NEW len \in Lens, 0 < va + len, va + len <= USER_END,
             Mmap(va, len) \/ Munmap(va, len)
      PROVE  Kept
  <2>1. va \in Addresses /\ len \in Nat
    BY VmaAssumption, AddrIs
  <2> QED BY <1>1, <2>1, MmapKept, MunmapKept
<1> QED BY <1>1, FaultKept, ForkKept, ExecveKept, ExitKept, ReapKept DEF Next

\* The lists of areas, the tables and what the two have to do with each other stay
\* sound.
THEOREM Invariance == Spec => []IInv
<1>1. Init => IInv
  BY InitIs
<1>2. IInv /\ [Next]_vars => IInv'
  <2>1. IInv /\ Next => IInv'
    BY NextKept DEF Kept
  <2>2. IInv /\ UNCHANGED vars => IInv'
    BY DEF vars, IInv, TypeOK
  <2> QED BY <2>1, <2>2
<1> QED BY <1>1, <1>2, PTL DEF Spec

\* The mm_struct keeps its types: links are slots, NULL or garbage, the count
\* stays a natural number and areas lie among the user addresses.
THEOREM TypeCorrect == Spec => []TypeOK
<1>1. IInv => TypeOK
  BY DEF IInv
<1> QED BY <1>1, Invariance, PTL

\* Whatever has been mapped, cut, copied and loaded, the areas form one sorted
\* list with agreeing links, apart from the free slots, and no slot is lost.
THEOREM ListsSound == Spec => []ListsAgree
<1>1. ASSUME IInv PROVE ListsAgree
  <2> SUFFICES ASSUME Running
               PROVE  LET list == AreaList(mm)  free == FreeList(mm) IN
                      /\ Len(list) = mm.num_vmas
                      /\ \A k \in 1 .. Len(list) :
                           /\ mm.prev[list[k]] = (IF k = 1 THEN Nil ELSE list[k - 1])
                           /\ mm.next[list[k]] = (IF k = Len(list) THEN Nil ELSE list[k + 1])
                           /\ k > 1 => mm.start[list[k - 1]] <= mm.start[list[k]]
                      /\ IsInjective(list) /\ IsInjective(free)
                      /\ list # <<>> => Range(list) \cap Range(free) = {}
                      /\ list # <<>> /\ Garbage \notin Range(Walk(mm.next, mm.free_vma_list))
                         => Range(list) \cup Range(free) = Slots
    BY Zenon DEF ListsAgree
  <2>1. Holds(mm)
    BY <1>1 DEF IInv, Tidy, Good, Running
  <2>2. PICK L, n, F, f, e : Shape(mm, L, n, F, f, e)
    BY <2>1 DEF Holds
  <2>3. /\ n \in Nat /\ L \in [1 .. n -> Slots] /\ f \in Nat /\ F \in [1 .. f -> Slots]
        /\ AreaList(mm) = L /\ Len(L) = n /\ FreeList(mm) = F /\ Len(F) = f
        /\ Garbage \notin Range(Walk(mm.next, mm.free_vma_list)) <=> e = Nil
    BY <2>2, ShapeIs
  <2>4. /\ \A i, j \in 1 .. n : L[i] = L[j] => i = j
        /\ \A k \in 1 .. n : mm.next[L[k]] = IF k = n THEN Nil ELSE L[k + 1]
        /\ \A k \in 1 .. n : mm.prev[L[k]] = IF k = 1 THEN Nil ELSE L[k - 1]
        /\ \A i, k \in 1 .. n : i <= k => mm.start[L[i]] <= mm.start[L[k]]
        /\ \A i, j \in 1 .. f : F[i] = F[j] => i = j
        /\ mm.num_vmas = n
    BY <2>2 DEF Shape, Chained, Backward, Sorted
  <2>5. L # <<>> => n # 0
    <3>1. L \in Seq(Slots)
      BY <2>2, ShapeIs
    <3> QED BY <2>3, <3>1, EmptySeq
  <2>6. Range(L) = {L[i] : i \in 1 .. n} /\ Range(F) = {F[i] : i \in 1 .. f}
    BY <2>3 DEF Range
  <2>7. \A k \in 1 .. n : k > 1 => mm.start[L[k - 1]] <= mm.start[L[k]]
    <3> SUFFICES ASSUME NEW k \in 1 .. n, k > 1
                 PROVE  mm.start[L[k - 1]] <= mm.start[L[k]]
      OBVIOUS
    <3>1. k - 1 \in 1 .. n /\ k - 1 <= k
      BY <2>3
    <3> QED BY <2>4, <3>1
  <2>8. IsInjective(L) /\ IsInjective(F)
    BY <2>3, <2>4 DEF IsInjective
  <2>9. L # <<>> => Range(L) \cap Range(F) = {}
    <3>1. n # 0 => \A i \in 1 .. n, k \in 1 .. f : L[i] # F[k]
      BY <2>2 DEF Shape
    <3> QED BY <2>5, <2>6, <3>1
  <2>10. L # <<>> /\ e = Nil => Range(L) \cup Range(F) = Slots
    <3>1. n # 0 /\ e = Nil => \A s \in Slots : (\E i \in 1 .. n : L[i] = s)
                                               \/ (\E k \in 1 .. f : F[k] = s)
      BY <2>2 DEF Shape
    <3>2. Range(L) \cup Range(F) \subseteq Slots
      BY <2>3, <2>6
    <3> QED BY <2>5, <2>6, <3>1, <3>2
  <2> QED BY <2>3, <2>4, <2>7, <2>8, <2>9, <2>10
<1> QED BY <1>1, Invariance, PTL

\* find_vma, which gives up at the first area beyond the address, finds an area
\* over every address that has one.
THEOREM FindsEvery == Spec => []FindsWhatCovers
<1>1. ASSUME IInv PROVE FindsWhatCovers
  <2> SUFFICES ASSUME Running, NEW a \in Addresses
               PROVE  (find_vma(mm, a) # Nil)
                      <=> \E s \in Used(mm) : mm.start[s] <= a /\ a < mm.end[s]
    BY Zenon DEF FindsWhatCovers, Used
  <2>1. mm \in MM /\ Holds(mm)
    BY <1>1 DEF IInv, Tidy, Good, Running
  <2>2. Found(mm, a, find_vma(mm, a))
    BY <2>1, FindIs
  <2>3. Nil \notin Used(mm)
    <3>1. PICK L, n, F, f, e : Shape(mm, L, n, F, f, e)
      BY <2>1 DEF Holds
    <3>2. L \in [1 .. n -> Slots] /\ Used(mm) = {L[i] : i \in 1 .. n}
      BY <3>1, ShapeIs
    <3> QED BY <3>2, LinkFacts
  <2> QED BY <2>2, <2>3 DEF Found
<1> QED BY <1>1, Invariance, PTL

\* Whatever is mapped, unmapped, copied or loaded, every process maps what the
\* kernel maps for itself, until its father has reaped it.
THEOREM KernelStays == Spec => []KernelMapped
<1>1. IInv => KernelMapped
  BY DEF IInv, KernelMapped, Kernel
<1> QED BY <1>1, Invariance, PTL

\* In every reachable table that has no entry nobody has written, mapping or
\* unmapping any range of pages changes the translations of just that range.
THEOREM EveryRangeExact == Spec => [](Sound => RangesExact)
<1>1. ASSUME IInv PROVE Sound => RangesExact
  <2> SUFFICES ASSUME Sound, NEW lo \in Vpns, NEW hi \in Vpns, lo <= hi, NEW p \in Vpns
               PROVE  LET sz == (hi - lo + 1) * PGSIZE
                          made == create_mapping(pgd, lo * PGSIZE, 7, sz, User)
                          gone == remove_mapping(pgd, lo * PGSIZE, sz) IN
                      IF lo <= p /\ p <= hi
                      THEN Pte(made, p) = [ppn |-> 7 + p - lo, perm |-> User] /\ Pte(gone, p) = None
                      ELSE Pte(made, p) = Pte(pgd, p) /\ Pte(gone, p) = Pte(pgd, p)
    BY Zenon DEF RangesExact
  <2>1. PICK va, sz : va = lo * PGSIZE /\ sz = (hi - lo + 1) * PGSIZE
    OBVIOUS
  <2>2. lo \in Int /\ hi \in Int /\ p \in Int /\ hi < RADIX * RADIX * RADIX
    BY UserPages
  <2>3. Low(va) = lo /\ High(va, sz) = hi
    BY <2>1, <2>2, WholePages
  <2>4. pgd \in Tables /\ NoWild(pgd)
    <3>1. ~MeetsWild(pgd, 0, RADIX * RADIX * RADIX - 1) /\ pgd \in Tables
      BY <1>1 DEF Sound, IInv
    <3> QED BY <3>1, AllMet
  <2>5. ~MeetsWild(pgd, lo, hi)
    BY <2>2, <2>4, NoWildMet
  <2>6. User \in Perms /\ 7 \in Nat
    BY VmaAssumption
  <2>7. PICK made, gone : /\ made = create_mapping(pgd, va, 7, sz, User)
                          /\ gone = remove_mapping(pgd, va, sz)
    OBVIOUS
  <2>8. Maps(made, pgd, Low(va), High(va, sz), 7, User)
    BY <2>2, <2>3, <2>4, <2>5, <2>6, <2>7, CreateIs
  <2>9. Clears(gone, pgd, Low(va), High(va, sz))
    BY <2>2, <2>3, <2>4, <2>5, <2>7, RemoveIs
  <2>10. 7 + (p - lo) = 7 + p - lo
    BY <2>2
  <2>11. IF lo <= p /\ p <= hi
         THEN Pte(made, p) = [ppn |-> 7 + p - lo, perm |-> User] /\ Pte(gone, p) = None
         ELSE Pte(made, p) = Pte(pgd, p) /\ Pte(gone, p) = Pte(pgd, p)
    BY <2>3, <2>8, <2>9, <2>10 DEF Maps, Clears
  <2> QED BY <2>1, <2>7, <2>11
<1> QED BY <1>1, Invariance, PTL

\* The tables that are met when the process has one area are among them.
THEOREM MappingsExact == Spec => []MappingsAreExact
<1>1. (Sound => RangesExact) => MappingsAreExact
  BY DEF MappingsAreExact
<1> QED BY <1>1, EveryRangeExact, PTL

\* Slots, lists and tables implement layers of areas: mmap lays a layer over a
\* range, munmap takes one layer off its whole range and the frames under it, or
\* changes nothing, and only pages under an area are backed by a frame.
THEOREM ImplementsLayers == Spec => AddressSpaceSpec
<1>1. Init => Space!Init
  BY InitIs
<1>2. IInv /\ [Next]_vars => [Space!Next]_(Space!asvars)
  <2>1. IInv /\ Next => Space!Next \/ UNCHANGED Space!asvars
    BY NextKept DEF Kept
  <2>2. UNCHANGED vars => UNCHANGED Space!asvars
    <3> SUFFICES ASSUME UNCHANGED vars PROVE UNCHANGED Space!asvars
      OBVIOUS
    <3>1. mm' = mm /\ pgd' = pgd
      BY DEF vars
    <3>2. Backed' = Backed
      BY <3>1 DEF Backed
    <3> QED BY <3>1, <3>2 DEF Space!asvars
  <2> QED BY <2>1, <2>2
<1> QED BY <1>1, <1>2, Invariance, PTL DEF Spec, AddressSpaceSpec, Space!Spec
=============================================================================
