---------------------------- MODULE MallocProofs ----------------------------
(***************************************************************************)
(* Proofs about Malloc: which class serves a size, and for the sizes whose *)
(* class free_block finds again (SizesAgree) that counts never promise a   *)
(* block that is not there, that a slab without blocks has one in use, and *)
(* that blocks are their owners' alone.                                    *)
(***************************************************************************)
EXTENDS Malloc, FiniteSetTheorems, WellFoundedInduction, TLAPS, SequenceTheorems

-----------------------------------------------------------------------------
(* Numbers and powers of two.                                              *)

\* A non-empty set of natural numbers has a least element.
LEMMA NatMin ==
    ASSUME NEW S \in SUBSET Nat, S # {}
    PROVE  \E i \in S : \A j \in S : i <= j
<1>1. IsWellFoundedOn(OpToRel(<, Nat), Nat)
  BY NatLessThanWellFounded
<1>2. PICK x \in S : \A y \in S : ~ (<<y, x>> \in OpToRel(<, Nat))
  BY <1>1, WFMin
<1>3. \A y \in S : ~ (y < x)
  BY <1>2 DEF OpToRel
<1> QED BY <1>3

\* The powers of two that occur, as a table: the provers have no exponents.
Pow == [k \in 0 .. 30 |-> 2 ^ k]

\* The table is the power function.
LEMMA PowIs == \A k \in 0 .. 30 : 2 ^ k = Pow[k]
BY DEF Pow

\* Its values.
LEMMA PowTable ==
    /\ Pow[0] = 1 /\ Pow[1] = 2 /\ Pow[2] = 4 /\ Pow[3] = 8 /\ Pow[4] = 16
    /\ Pow[5] = 32 /\ Pow[6] = 64 /\ Pow[7] = 128 /\ Pow[8] = 256
    /\ Pow[9] = 512 /\ Pow[10] = 1024 /\ Pow[11] = 2048 /\ Pow[12] = 4096
    /\ Pow[13] = 8192 /\ Pow[14] = 16384 /\ Pow[15] = 32768
    /\ Pow[16] = 65536 /\ Pow[17] = 131072 /\ Pow[18] = 262144
    /\ Pow[19] = 524288 /\ Pow[20] = 1048576 /\ Pow[21] = 2097152
    /\ Pow[22] = 4194304 /\ Pow[23] = 8388608 /\ Pow[24] = 16777216
    /\ Pow[25] = 33554432 /\ Pow[26] = 67108864 /\ Pow[27] = 134217728
    /\ Pow[28] = 268435456 /\ Pow[29] = 536870912 /\ Pow[30] = 1073741824
BY DEF Pow

\* It doubles.
LEMMA PowRises ==
    /\ \A k \in 0 .. 30 : Pow[k] \in Nat \ {0}
    /\ \A k \in 0 .. 29 : Pow[k + 1] = 2 * Pow[k]
BY PowTable

\* It is strictly monotonic.
LEMMA PowOrder == \A j, k \in 0 .. 30 : j < k => Pow[j] < Pow[k]
BY PowTable

\* The power at or above a size is the least one.
LEMMA PowUnique ==
    ASSUME NEW size \in Nat, NEW j \in 0 .. 30, NEW k \in 0 .. 30,
           Pow[j] >= size, j = 0 \/ Pow[j - 1] < size,
           Pow[k] >= size, k = 0 \/ Pow[k - 1] < size
    PROVE  j = k
<1>1. ASSUME NEW x \in 0 .. 30, NEW y \in 0 .. 30, x < y,
             Pow[x] >= size, y = 0 \/ Pow[y - 1] < size
      PROVE  FALSE
  <2>1. x = y - 1 \/ x < y - 1
    BY <1>1
  <2>2. y - 1 \in 0 .. 30 /\ Pow[y - 1] \in Nat /\ Pow[x] \in Nat
    BY <1>1, PowRises
  <2>3. Pow[x] <= Pow[y - 1]
    BY <2>1, <2>2, PowOrder
  <2> QED BY <1>1, <2>2, <2>3
<1> QED BY <1>1

\* Every size has a power at or above it.
LEMMA PowAbove ==
    ASSUME NEW m \in 0 .. 30, NEW size \in Nat \ {0}, size <= Pow[m]
    PROVE  \E k \in 0 .. m : size <= Pow[k] /\ (k = 0 \/ Pow[k - 1] < size)
<1> DEFINE S == {k \in 0 .. m : size <= Pow[k]}
<1>1. PICK k \in S : \A j \in S : k <= j
  <2>1. S \in SUBSET Nat /\ m \in S
    OBVIOUS
  <2> HIDE DEF S
  <2> QED BY <2>1, NatMin
<1>2. CASE k # 0
  <2>1. k - 1 \in 0 .. m /\ k - 1 \in 0 .. 30 /\ k - 1 \notin S
    BY <1>1, <1>2
  <2>2. Pow[k - 1] \in Nat
    BY <2>1, PowRises
  <2> QED BY <1>1, <2>1, <2>2
<1> QED BY <1>1, <1>2

-----------------------------------------------------------------------------
(* Powers of two and classes.                                              *)

\* fixsize rounds up to a power of two.
LEMMA FixSize ==
    ASSUME NEW size \in Nat \ {0}, NEW k \in 0 .. 30,
           size <= Pow[k], k = 0 \/ Pow[k - 1] < size
    PROVE  fixsize(size) = Pow[k]
<1> DEFINE P(j) == 2 ^ j >= size /\ (j = 0 \/ 2 ^ (j - 1) < size)
<1>1. Pow[k] \in Nat /\ Pow[k] >= size
  BY PowRises
<1>2. \A j \in 0 .. 30 : P(j) <=> Pow[j] >= size /\ (j = 0 \/ Pow[j - 1] < size)
  <2> SUFFICES ASSUME NEW j \in 0 .. 30
               PROVE  P(j) <=> Pow[j] >= size /\ (j = 0 \/ Pow[j - 1] < size)
    OBVIOUS
  <2>1. 2 ^ j = Pow[j]
    BY PowIs
  <2>2. CASE j = 0
    BY <2>1, <2>2
  <2>3. CASE j # 0
    <3>1. j - 1 \in 0 .. 30
      BY <2>3
    <3>2. 2 ^ (j - 1) = Pow[j - 1]
      BY <3>1, PowIs
    <3> QED BY <2>1, <3>2
  <2> QED BY <2>2, <2>3
<1>3. P(k)
  BY <1>1, <1>2
<1>4. \A j \in 0 .. 30 : P(j) => j = k
  BY <1>1, <1>2, PowUnique
<1>5. (CHOOSE j \in 0 .. 30 : P(j)) = k
  <2> HIDE DEF P
  <2> QED BY <1>3, <1>4
<1>6. size \in 1 .. 2 ^ 30
  <2>1. 30 \in 0 .. 30 /\ Pow[30] \in Nat /\ 2 ^ 30 = Pow[30] /\ Pow[k] <= Pow[30]
    BY PowIs, PowRises, PowOrder
  <2>2. size \in 1 .. Pow[30]
    BY <1>1, <2>1
  <2> QED BY <2>1, <2>2, Zenon
<1>7. fixsize(size) = 2 ^ k
  <2> HIDE DEF P
  <2>1. fixsize(size) = 2 ^ (CHOOSE j \in 0 .. 30 : 2 ^ j >= size /\ (j = 0 \/ 2 ^ (j - 1) < size))
    BY <1>6, Zenon DEF fixsize
  <2> QED BY <1>5, <2>1, Zenon DEF P
<1> QED BY <1>7, PowIs

\* The shifts that bring 2^k to 0.
LEMMA ShiftsIs == \A k \in 0 .. 30 : Shifts(Pow[k]) = k + 1
<1> SUFFICES ASSUME NEW k \in 0 .. 30 PROVE Shifts(Pow[k]) = k + 1
  OBVIOUS
<1>1. \A j \in 0 .. 30 : 2 ^ j = Pow[k] <=> j = k
  <2> SUFFICES ASSUME NEW j \in 0 .. 30 PROVE 2 ^ j = Pow[k] <=> j = k
    OBVIOUS
  <2>1. 2 ^ j = Pow[j]
    BY PowIs
  <2>2. Pow[j] \in Nat /\ Pow[k] \in Nat /\ (j < k => Pow[j] < Pow[k]) /\ (k < j => Pow[k] < Pow[j])
    BY PowRises, PowOrder
  <2> QED BY <2>1, <2>2
<1> DEFINE c == CHOOSE j \in 0 .. 30 : 2 ^ j = Pow[k]
<1>2. c = k
  BY <1>1
<1>3. Pow[k] # 0
  BY PowRises
<1>4. Shifts(Pow[k]) = 1 + c
  BY <1>3 DEF Shifts
<1> HIDE DEF c
<1> QED BY <1>2, <1>4

-----------------------------------------------------------------------------
(* What a class makes of the sizes that belong to it.                      *)

\* From one block of a slab to the next.
Stride(idx) == UNIT_SIZE_SLAB(idx) + WORD

\* Slabs of the class can hold blocks of that size: blocks end before the next word
\* or inside the pages.
Serves(idx, size) ==
    /\ idx \in Classes /\ UNIT_SIZE_SLAB(idx) \in Nat
    /\ slab_max_count(idx) \in Nat \ {0} /\ slab_num_page(idx) \in 1 .. PGSIZE
    /\ HEADER + (slab_max_count(idx) - 1) * Stride(idx) + WORD + size
            <= slab_num_page(idx) * PGSIZE
    /\ slab_max_count(idx) > 1 => size <= UNIT_SIZE_SLAB(idx)

\* The class that free_block finds from the size of the blocks.
Again(idx) == IF idx \in 8 .. 10 THEN idx + 8 ELSE idx

Found(idx, size) == Serves(idx, size) /\ get_block_idx(UNIT_SIZE_SLAB(idx)) = Again(idx)

\* The blocks of a page of small ones fit behind the header.
LEMMA DivFits ==
    ASSUME NEW k \in 0 .. 11
    PROVE  /\ 4048 \div (Pow[k] + 8) \in Nat \ {0}
           /\ (4048 \div (Pow[k] + 8)) * (Pow[k] + 8) <= 4048
<1>1. Pow[k] \in {1, 2, 4, 8, 16, 32, 64, 128, 256, 512, 1024, 2048}
  BY PowTable
<1>2. \A x \in {1, 2, 4, 8, 16, 32, 64, 128, 256, 512, 1024, 2048} :
        /\ 4048 \div (x + 8) \in Nat \ {0}
        /\ (4048 \div (x + 8)) * (x + 8) <= 4048
  OBVIOUS
<1> QED BY <1>1, <1>2

\* Sizes up to half a page.
LEMMA SmallServed ==
    ASSUME NEW size \in Nat \ {0}, size <= PGSIZE \div 2
    PROVE  Found(get_used_slab_idx(size), size)
<1>1. PICK k \in 0 .. 11 : size <= Pow[k] /\ (k = 0 \/ Pow[k - 1] < size)
  <2>1. 11 \in 0 .. 30 /\ size <= Pow[11]
    BY PowTable, LayoutAssumption
  <2> QED BY <2>1, PowAbove
<1>2. k \in 0 .. 30
  OBVIOUS
<1>3. fixsize(size) = Pow[k] /\ Shifts(Pow[k]) = k + 1 /\ 2 ^ k = Pow[k]
  BY <1>1, <1>2, FixSize, ShiftsIs, PowIs, Zenon
<1>4. Pow[k] \in Nat \ {0} /\ Pow[k] < PGSIZE /\ fixsize(Pow[k]) = Pow[k]
  <2>1. Pow[k] \in Nat \ {0} /\ Pow[k] >= Pow[k] /\ (k = 0 \/ Pow[k - 1] < Pow[k])
    BY <1>2, PowRises, PowOrder, SMTT(30)
  <2>2. Pow[k] < PGSIZE
    BY PowTable, LayoutAssumption
  <2> QED BY <1>2, <2>1, <2>2, FixSize
<1>5. PICK idx \in 12 .. 23 : idx = 12 + k
  OBVIOUS
<1>6. idx - 12 = k /\ k % 32 = k /\ (12 + (k + 1)) - 1 = idx
  BY <1>5
<1>7. get_used_slab_idx(size) = idx
  <2>1. get_used_slab_idx(size) = 12 + (k + 1) - 1
    BY <1>3, Zenon DEF get_used_slab_idx
  <2> QED BY <1>6, <2>1
<1>8. UNIT_SIZE_SLAB(idx) = Pow[k] /\ slab_num_page(idx) = 1
  <2>1. 2 ^ ((idx - 12) % 32) = Pow[k]
    BY <1>3, <1>6, Zenon
  <2>2. ~ (idx < 8) /\ ~ (idx < 12) /\ idx # 11
    OBVIOUS
  <2> QED BY <2>1, <2>2, Zenon DEF UNIT_SIZE_SLAB, slab_num_page
<1>9. get_block_idx(Pow[k]) = idx
  <2>1. get_block_idx(Pow[k]) = 12 + (k + 1) - 1
    BY <1>3, <1>4, Zenon DEF get_block_idx
  <2> QED BY <1>6, <2>1
<1>10. slab_max_count(idx) = (PGSIZE - HEADER) \div (Pow[k] + WORD)
  <2>1. 2 ^ (idx - 12) = Pow[k]
    BY <1>3, <1>6, Zenon
  <2>2. ~ (idx < 12)
    OBVIOUS
  <2> QED BY <2>1, <2>2, Zenon DEF slab_max_count
<1>11. slab_max_count(idx) = 4048 \div (Pow[k] + 8)
  BY <1>10, LayoutAssumption
<1> DEFINE m == 4048 \div (Pow[k] + 8)
<1>12. m \in Nat \ {0} /\ m * (Pow[k] + 8) <= 4048
  BY DivFits
<1> HIDE DEF m
<1>13. PICK d \in Nat : d = Pow[k] + 8
  BY <1>4
<1>14. 48 + (m - 1) * d + 8 + size <= 1 * 4096
  <2>1. m * d <= 4048 /\ (m - 1) * d = m * d - d /\ m * d \in Nat
    BY <1>12, <1>13
  <2> QED BY <1>1, <1>4, <1>13, <2>1
<1>15. slab_max_count(idx) = m /\ Stride(idx) = d
  BY <1>8, <1>11, <1>13, LayoutAssumption DEF Stride, m
<1>16. Again(idx) = idx
  BY DEF Again
<1>17. Serves(idx, size)
  BY <1>1, <1>4, <1>8, <1>12, <1>14, <1>15, LayoutAssumption DEF Serves, Classes
<1> QED BY <1>7, <1>8, <1>9, <1>16, <1>17 DEF Found

\* Whole pages divide without a rest.
LEMMA PageDiv == \A x \in Nat : (x * PGSIZE) \div PGSIZE = x
BY LayoutAssumption, SMT

\* What free_block finds for a power of two from a page on.
LEMMA BlockClass ==
    ASSUME NEW k \in 12 .. 30
    PROVE  get_block_idx(Pow[k]) = k - 12
<1>1. k \in 0 .. 30 /\ k - 12 \in 0 .. 30 /\ ((k - 12) + 1) - 1 = k - 12
  OBVIOUS
<1>2. Pow[k] = Pow[k - 12] * PGSIZE /\ ~ (Pow[k] < PGSIZE)
  <2>1. k \in {12, 13, 14, 15, 16, 17, 18, 19, 20, 21, 22, 23, 24, 25, 26, 27, 28, 29, 30}
    OBVIOUS
  <2> QED BY <2>1, PowTable, LayoutAssumption, SMT
<1>3. Pow[k - 12] \in Nat /\ Shifts(Pow[k - 12]) = (k - 12) + 1
  BY <1>1, PowRises, ShiftsIs
<1>4. Pow[k] \div PGSIZE = Pow[k - 12]
  BY <1>2, <1>3, PageDiv, Zenon
<1>5. fixsize(Pow[k]) = Pow[k]
  <2>1. Pow[k] \in Nat \ {0} /\ Pow[k] >= Pow[k] /\ (k = 0 \/ Pow[k - 1] < Pow[k])
    BY <1>1, PowRises, PowOrder
  <2> QED BY <1>1, <2>1, FixSize
<1>6. get_block_idx(Pow[k]) = Shifts(Pow[k] \div PGSIZE) - 1
  BY <1>2, <1>5, Zenon DEF get_block_idx
<1> QED BY <1>1, <1>3, <1>4, <1>6

\* Class 11, whose block size wraps around.
LEMMA LastClass == UNIT_SIZE_SLAB(11) \in Nat /\ get_block_idx(UNIT_SIZE_SLAB(11)) = 11
<1> DEFINE u == SignExtended
<1>1. u \in Nat /\ u > Pow[30]
  <2>1. PICK a \in Nat : a = 65536 * 65536 /\ a = 4 * 1073741824
    BY SMT
  <2>2. PICK c \in Nat : c = a * 65536 /\ c >= a
    BY <2>1, SMT
  <2>3. PICK d \in Nat : d = c * 65536 /\ d >= c
    BY <2>2, SMT
  <2>4. d = 65536 * 65536 * 65536 * 65536
    BY <2>1, <2>2, <2>3, SMT
  <2>5. PICK e \in Nat : e = 65536 * 32768 /\ e = 2 * 1073741824
    BY SMT
  <2>6. u = d - e
    BY <2>4, <2>5, SMT DEF SignExtended
  <2>7. Pow[30] = 1073741824
    BY PowTable, SMT
  <2> QED BY <2>1, <2>2, <2>3, <2>5, <2>6, <2>7, SMT
<1>2. UNIT_SIZE_SLAB(11) = u
  <2>1. ~ (11 < 8)
    OBVIOUS
  <2> QED BY <2>1, Zenon DEF UNIT_SIZE_SLAB
<1> HIDE DEF u
<1>3. fixsize(u) = 0
  <2>1. 2 ^ 30 = Pow[30] /\ Pow[30] \in Nat
    <3>1. 30 \in 0 .. 30
      OBVIOUS
    <3> QED BY <3>1, PowIs, PowRises
  <2>2. u \notin 1 .. Pow[30]
    BY <1>1, <2>1
  <2>3. u \notin 1 .. 2 ^ 30
    BY <2>1, <2>2, Zenon
  <2> QED BY <2>3, Zenon DEF fixsize
<1>4. 0 < PGSIZE /\ (12 + 0) - 1 = 11
  BY LayoutAssumption
<1>5. Shifts(0) = 0
  BY DEF Shifts
<1>6. get_block_idx(u) = (12 + 0) - 1
  <2>1. PICK z : z = 0
    OBVIOUS
  <2>2. fixsize(u) = z /\ z < PGSIZE /\ Shifts(z) = z
    BY <1>3, <1>4, <1>5, <2>1
  <2>3. fixsize(u) < PGSIZE
    BY <2>2
  <2>4. get_block_idx(u) = 12 + Shifts(fixsize(u)) - 1
    BY <2>3, Zenon DEF get_block_idx
  <2> QED BY <2>1, <2>2, <2>4
<1> QED BY <1>1, <1>2, <1>4, <1>6

\* The block size of a large class, and what free_block makes of it.
LEMMA LargeClass ==
    ASSUME NEW idx \in 0 .. 11
    PROVE  UNIT_SIZE_SLAB(idx) \in Nat /\ get_block_idx(UNIT_SIZE_SLAB(idx)) = Again(idx)
<1>1. CASE idx < 8
  <2>1. idx \in 0 .. 30 /\ idx + 12 \in 12 .. 30 /\ idx + 12 \in 0 .. 30 /\ (idx + 12) - 12 = idx
    BY <1>1
  <2>2. 2 ^ idx = Pow[idx]
    BY <2>1, PowIs
  <2>3. Pow[idx] * PGSIZE = Pow[idx + 12]
    <3>1. idx \in {0, 1, 2, 3, 4, 5, 6, 7}
      BY <1>1
    <3> QED BY <3>1, PowTable, LayoutAssumption, SMT
  <2>4. UNIT_SIZE_SLAB(idx) = Pow[idx + 12]
    BY <1>1, <2>2, <2>3, Zenon DEF UNIT_SIZE_SLAB
  <2>5. Again(idx) = idx
    BY <1>1 DEF Again
  <2>6. Pow[idx + 12] \in Nat
    BY <2>1, PowRises
  <2>7. get_block_idx(Pow[idx + 12]) = idx
    <3>1. PICK k \in 12 .. 30 : k = idx + 12 /\ k - 12 = idx
      BY <2>1
    <3> QED BY <3>1, BlockClass, Zenon
  <2> QED BY <2>4, <2>5, <2>6, <2>7, Zenon
<1>2. CASE idx \in 8 .. 10
  <2>1. PICK k \in 12 .. 30 : k = idx + 20 /\ k - 12 = idx + 8
    BY <1>2
  <2>2. (idx - 12) % 32 = k
    BY <1>2, <2>1
  <2>3. ~ (idx < 8) /\ idx # 11 /\ k \in 0 .. 30
    BY <1>2
  <2>4. UNIT_SIZE_SLAB(idx) = Pow[k]
    <3>1. 2 ^ k = Pow[k]
      BY <2>3, PowIs
    <3> QED BY <2>2, <2>3, <3>1, Zenon DEF UNIT_SIZE_SLAB
  <2>5. Again(idx) = idx + 8
    BY <1>2 DEF Again
  <2>6. Pow[k] \in Nat
    BY <2>3, PowRises
  <2> QED BY <2>1, <2>4, <2>5, <2>6, BlockClass, Zenon
<1>3. CASE idx = 11
  BY <1>3, LastClass DEF Again
<1> QED BY <1>1, <1>2, <1>3

\* Larger sizes, which get a slab of their own.
LEMMA LargeServed ==
    ASSUME NEW size \in Nat, size > PGSIZE \div 2, size + HEADER + WORD <= Pow[23]
    PROVE  Found(get_used_slab_idx(size), size)
<1> DEFINE all == size + HEADER + WORD
<1>1. all \in Nat \ {0} /\ all > 2048 /\ all <= Pow[23]
  BY LayoutAssumption, SMT
<1>0. ~ (size <= PGSIZE \div 2)
  BY LayoutAssumption, SMT
<1> HIDE DEF all
<1>2. PICK k \in 0 .. 23 : all <= Pow[k] /\ (k = 0 \/ Pow[k - 1] < all)
  <2>1. 23 \in 0 .. 30
    OBVIOUS
  <2> QED BY <1>1, <2>1, PowAbove
<1>3. k \in 0 .. 30 /\ k \in 12 .. 23
  BY <1>1, <1>2, PowTable, SMT
<1>4. PICK idx \in 0 .. 11 : idx = k - 12
  BY <1>3
<1>5. idx \in 0 .. 30 /\ idx < 12 /\ (idx + 1) - 1 = idx
  OBVIOUS
<1>6. fixsize(all) = Pow[k]
  BY <1>1, <1>2, <1>3, FixSize
<1>7. Shifts(Pow[idx]) = idx + 1 /\ 2 ^ idx = Pow[idx]
  BY <1>5, ShiftsIs, PowIs, Zenon
<1>8. Pow[k] = Pow[idx] * PGSIZE
  BY <1>3, <1>4, PowTable, LayoutAssumption, SMT
<1>9. Pow[idx] \in 1 .. PGSIZE
  BY PowTable, LayoutAssumption, SMT
<1>10. Pow[k] \in Nat /\ ~ (Pow[k] < PGSIZE)
  BY <1>3, PowTable, LayoutAssumption, SMT
<1>11. Pow[k] \div PGSIZE = Pow[idx]
  <2>1. Pow[idx] \in Nat
    BY <1>5, PowRises
  <2> QED BY <1>8, <2>1, PageDiv, Zenon
<1>12. get_used_slab_idx(size) = idx
  <2>1. get_used_slab_idx(size) = Shifts(fixsize(all) \div PGSIZE) - 1
    BY <1>0, Zenon DEF get_used_slab_idx, all
  <2>2. Shifts(fixsize(all) \div PGSIZE) = idx + 1
    BY <1>6, <1>7, <1>11, Zenon
  <2> QED BY <1>5, <2>1, <2>2
<1>13. slab_num_page(idx) = Pow[idx] /\ slab_max_count(idx) = 1
  BY <1>5, <1>7, Zenon DEF slab_num_page, slab_max_count
<1>14. UNIT_SIZE_SLAB(idx) \in Nat /\ get_block_idx(UNIT_SIZE_SLAB(idx)) = Again(idx)
  BY LargeClass
<1>16. HEADER + (1 - 1) * Stride(idx) + WORD + size <= Pow[idx] * PGSIZE
  <2>1. Stride(idx) \in Nat
    BY <1>14, LayoutAssumption, SMT DEF Stride
  <2>2. (1 - 1) * Stride(idx) = 0
    BY <2>1
  <2>3. all <= Pow[k]
    BY <1>2
  <2>4. size + HEADER + WORD <= Pow[k]
    BY <2>3, Zenon DEF all
  <2> QED BY <1>8, <1>10, <2>2, <2>4, LayoutAssumption, SMT
<1>17. Serves(idx, size)
  BY <1>9, <1>13, <1>14, <1>16 DEF Serves, Classes
<1> QED BY <1>12, <1>14, <1>17 DEF Found

\* The class found for a size serves it, for every size that malloc supports: a
\* block holds it.  get_block_idx finds the class again from the blocks, but for
\* classes 8 to 10, the slabs of 1, 2 and 4 MiB: it takes theirs for blocks of 16,
\* 32 and 64 bytes (UNIT_SIZE_SLAB and get_block_idx).
THEOREM SizesServed ==
    \A size \in Sizes :
      LET idx == get_used_slab_idx(size) IN
        /\ Serves(idx, size)
        /\ get_block_idx(UNIT_SIZE_SLAB(idx)) = IF idx \in 8 .. 10 THEN idx + 8 ELSE idx
<1> SUFFICES ASSUME NEW size \in Sizes PROVE Found(get_used_slab_idx(size), size)
  BY DEF Found, Again
<1>1. Pow[23] = 8388608
  BY PowTable, SMT
<1>2. size \in Nat \ {0} /\ size + HEADER + WORD <= Pow[23]
  <2>1. 2048 * PGSIZE - HEADER - WORD = 8388552
    BY LayoutAssumption, SMT
  <2>2. size \in 1 .. 2048 * PGSIZE - HEADER - WORD
    BY SizesAssumption
  <2>3. size \in Nat \ {0} /\ size <= 8388552
    BY <2>1, <2>2, SMT
  <2> QED BY <1>1, <2>3, LayoutAssumption, SMT
<1>3. CASE size <= PGSIZE \div 2
  BY <1>2, <1>3, SmallServed
<1>4. CASE size > PGSIZE \div 2
  BY <1>2, <1>4, LargeServed
<1>5. PGSIZE \div 2 = 2048
  BY LayoutAssumption, SMT
<1> QED BY <1>2, <1>3, <1>4, <1>5

-----------------------------------------------------------------------------
(* Lists of slabs.                                                         *)

\* Both lists of every class.
AllLists == Classes \X {"avail", "used"}

\* Whoever follows p leaves every set of slabs: p has no ring.
NoRing(ids, p) == \A S \in SUBSET ids : S # {} => \E s \in S : p[s] \notin S

\* The slabs ids with links p and n make up lists that begin at heads; list[s] is
\* the one of slab s.
Chained(ids, list, heads, p, n) ==
    /\ \A s \in ids : n[s] # Nil => n[s] \in ids /\ list[n[s]] = list[s] /\ p[n[s]] = s
    /\ \A s \in ids : p[s] # Nil => p[s] \in ids /\ list[p[s]] = list[s] /\ n[p[s]] = s
    /\ \A s \in ids : p[s] = Nil => heads[list[s]] = s
    /\ \A l \in AllLists : heads[l] # Nil =>
            heads[l] \in ids /\ list[heads[l]] = l /\ p[heads[l]] = Nil
    /\ NoRing(ids, p)

\* A slab that goes from its list to the head of another.
Moved(ids, list, heads, n, s, to, list2, heads2) ==
    /\ s \in ids /\ to \in AllLists /\ to # list[s]
    /\ list2 \in [ids -> AllLists] /\ list2[s] = to
    /\ \A x \in ids \ {s} : list2[x] = list[x]
    /\ heads2 \in [AllLists -> Nat] /\ heads2[to] = s
    /\ heads2[list[s]] = IF heads[list[s]] = s THEN n[s] ELSE heads[list[s]]
    /\ \A l \in AllLists \ {to, list[s]} : heads2[l] = heads[l]

\* alloc_block and free_block move a slab: the lists stay lists.
LEMMA MoveChained ==
    ASSUME NEW ids \in SUBSET (Nat \ {0}), NEW list \in [ids -> AllLists],
           NEW heads \in [AllLists -> Nat], NEW p \in [ids -> Nat], NEW n \in [ids -> Nat],
           Chained(ids, list, heads, p, n), NEW s, NEW to, NEW list2, NEW heads2,
           Moved(ids, list, heads, n, s, to, list2, heads2)
    PROVE  /\ Chained(ids, list2, heads2, MovedPrev(s, heads[to], p, n), MovedNext(s, heads[to], p, n))
           /\ MovedPrev(s, heads[to], p, n) \in [ids -> Nat]
           /\ MovedNext(s, heads[to], p, n) \in [ids -> Nat]
<1>0. /\ s \in ids /\ to \in AllLists /\ to # list[s]
      /\ list2 \in [ids -> AllLists] /\ list2[s] = to
      /\ \A x \in ids \ {s} : list2[x] = list[x]
      /\ heads2 \in [AllLists -> Nat] /\ heads2[to] = s
      /\ heads2[list[s]] = IF heads[list[s]] = s THEN n[s] ELSE heads[list[s]]
      /\ \A l \in AllLists \ {to, list[s]} : heads2[l] = heads[l]
  BY DEF Moved
<1> USE <1>0
<1> DEFINE first == heads[to]
           p2 == MovedPrev(s, first, p, n)
           n2 == MovedNext(s, first, p, n)
<1>1. /\ p2 \in [ids -> Nat] /\ n2 \in [ids -> Nat]
      /\ \A x \in ids : p2[x] = IF x = s THEN Nil ELSE IF x = first THEN s
                                ELSE IF x = n[s] THEN p[s] ELSE p[x]
      /\ \A x \in ids : n2[x] = IF x = s THEN first ELSE IF x = p[s] THEN n[s] ELSE n[x]
  <2>1. /\ p2 = [x \in ids |-> IF x = s THEN Nil ELSE IF x = first THEN s
                                ELSE IF x = n[s] THEN p[s] ELSE p[x]]
        /\ n2 = [x \in ids |-> IF x = s THEN first ELSE IF x = p[s] THEN n[s] ELSE n[x]]
    BY DEF MovedPrev, MovedNext
  <2>2. Nil \in Nat /\ s \in Nat /\ first \in Nat /\ p[s] \in Nat /\ n[s] \in Nat
    BY DEF Nil
  <2> HIDE DEF p2, n2, first
  <2> QED BY <2>1, <2>2
<1> HIDE DEF p2, n2
<1>2. /\ list[s] \in AllLists /\ first \in Nat /\ first # s
      /\ first # Nil => first \in ids /\ list[first] = to /\ p[first] = Nil
      /\ first # Nil => first # n[s] /\ first # p[s]
      /\ Nil \notin ids
  BY DEF Chained, Nil
<1>3. ASSUME NEW x \in ids, n2[x] # Nil
      PROVE  n2[x] \in ids /\ list2[n2[x]] = list2[x] /\ p2[n2[x]] = x
  <2>1. CASE x = s
    BY <1>1, <1>2, <1>3, <2>1
  <2>2. CASE x # s /\ x = p[s]
    <3>1. n2[x] = n[s] /\ n[s] \in ids /\ list[n[s]] = list[s] /\ p[n[s]] = s /\ list[x] = list[s]
      BY <1>1, <1>2, <1>3, <2>2 DEF Chained
    <3>2. p2[n[s]] = p[s]
      BY <1>1, <1>2, <3>1 DEF Chained
    <3> QED BY <1>2, <2>2, <3>1, <3>2
  <2>3. CASE x # s /\ x # p[s]
    <3>1. n2[x] = n[x] /\ n[x] \in ids /\ list[n[x]] = list[x] /\ p[n[x]] = x
      BY <1>1, <1>2, <1>3, <2>3 DEF Chained
    <3>2. n[x] # s /\ n[x] # n[s]
      BY <1>2, <2>3, <3>1 DEF Chained, Nil
    <3>3. n[x] # first
      BY <1>2, <3>1 DEF Nil
    <3> QED BY <1>1, <1>2, <2>3, <3>1, <3>2, <3>3
  <2> QED BY <2>1, <2>2, <2>3
<1>4. ASSUME NEW x \in ids, p2[x] # Nil
      PROVE  p2[x] \in ids /\ list2[p2[x]] = list2[x] /\ n2[p2[x]] = x
  <2>1. CASE x = s
    BY <1>1, <1>4, <2>1
  <2>2. CASE x # s /\ x = first
    BY <1>1, <1>2, <2>2 DEF Nil
  <2>3. CASE x # s /\ x # first /\ x = n[s]
    <3>1. p2[x] = p[s] /\ p[s] \in ids /\ list[p[s]] = list[s] /\ list[x] = list[s]
      BY <1>1, <1>2, <1>4, <2>3 DEF Chained
    <3>2. p[s] # s /\ n2[p[s]] = n[s]
      BY <1>1, <1>4, <2>3, <3>1 DEF Chained, Nil
    <3> QED BY <1>2, <2>3, <3>1, <3>2
  <2>4. CASE x # s /\ x # first /\ x # n[s]
    <3>1. p2[x] = p[x] /\ p[x] \in ids /\ list[p[x]] = list[x] /\ n[p[x]] = x
      BY <1>1, <1>2, <1>4, <2>4 DEF Chained
    <3>2. p[x] # s /\ p[x] # p[s]
      BY <1>2, <2>4, <3>1 DEF Chained, Nil
    <3> QED BY <1>1, <1>2, <2>4, <3>1, <3>2
  <2> QED BY <2>1, <2>2, <2>3, <2>4
<1>5. ASSUME NEW x \in ids, p2[x] = Nil
      PROVE  heads2[list2[x]] = x
  <2>1. CASE x # s
    <3>1. x # first /\ list2[x] = list[x]
      BY <1>1, <1>2, <1>5, <2>1 DEF Nil
    <3>2. CASE x = n[s]
      <4>1. p[s] = Nil /\ list[x] = list[s]
        BY <1>1, <1>2, <1>5, <2>1, <3>1, <3>2 DEF Chained, Nil
      <4> QED BY <3>1, <3>2, <4>1 DEF Chained
    <3>3. CASE x # n[s]
      <4>1. p[x] = Nil /\ heads[list[x]] = x
        BY <1>1, <1>5, <2>1, <3>1, <3>3 DEF Chained
      <4> QED BY <1>2, <2>1, <3>1, <4>1
    <3> QED BY <3>2, <3>3
  <2> QED BY <2>1
<1>6. ASSUME NEW l \in AllLists, heads2[l] # Nil
      PROVE  heads2[l] \in ids /\ list2[heads2[l]] = l /\ p2[heads2[l]] = Nil
  <2>1. CASE l = to
    BY <1>1, <2>1
  <2>2. CASE l = list[s] /\ heads[l] = s
    <3>1. heads2[l] = n[s] /\ n[s] \in ids /\ list[n[s]] = l /\ p[s] = Nil
      BY <1>6, <2>2 DEF Chained
    <3>2. n[s] # s
      BY <2>2, <3>1 DEF Chained, Nil
    <3> QED BY <1>1, <1>2, <3>1, <3>2
  <2>3. CASE l # to /\ ~(l = list[s] /\ heads[l] = s)
    <3>1. heads2[l] = heads[l] /\ heads[l] \in ids /\ list[heads[l]] = l /\ p[heads[l]] = Nil
      BY <1>6, <2>3 DEF Chained
    <3>2. heads[l] # s /\ heads[l] # first /\ heads[l] # n[s]
      BY <1>2, <2>3, <3>1 DEF Chained, Nil
    <3> QED BY <1>1, <3>1, <3>2
  <2> QED BY <2>1, <2>2, <2>3
<1>7. NoRing(ids, p2)
  <2> SUFFICES ASSUME NEW S \in SUBSET ids, S # {}, \A x \in S : p2[x] \in S
               PROVE  FALSE
    BY DEF NoRing
  <2>1. s \notin S /\ first \notin S
    BY <1>1, <1>2
  <2>2. ASSUME NEW T \in SUBSET ids, T # {}, \A x \in T : p[x] \in T PROVE FALSE
    BY <2>2 DEF Chained, NoRing
  <2>3. CASE n[s] \notin S
    <3>1. \A x \in S : p[x] \in S
      BY <1>1, <2>1, <2>3
    <3> QED BY <2>2, <3>1
  <2>4. CASE n[s] \in S
    <3>1. p[n[s]] = s /\ p[s] \in S
      BY <1>1, <1>2, <2>1, <2>4 DEF Chained
    <3>2. \A x \in S \cup {s} : p[x] \in S \cup {s}
      BY <1>1, <2>1, <3>1
    <3>3. S \cup {s} \in SUBSET ids /\ S \cup {s} # {}
      OBVIOUS
    <3>4. PICK T : T = S \cup {s}
      OBVIOUS
    <3> QED BY <2>2, <3>2, <3>3, <3>4
  <2> QED BY <2>3, <2>4
<1>8. Chained(ids, list2, heads2, p2, n2)
  BY <1>3, <1>4, <1>5, <1>6, <1>7 DEF Chained
<1> QED BY <1>1, <1>8 DEF p2, n2

\* A new slab on a list that was empty.
Extended(ids, list, p, n, s, list2, p2, n2) ==
    /\ p2[s] = Nil /\ n2[s] = Nil
    /\ \A x \in ids : list2[x] = list[x] /\ p2[x] = p[x] /\ n2[x] = n[x]

\* get_avail_slab makes a new slab the only one of its list.
LEMMA NewChained ==
    ASSUME NEW ids \in SUBSET (Nat \ {0}), NEW list \in [ids -> AllLists],
           NEW heads \in [AllLists -> Nat], NEW p \in [ids -> Nat], NEW n \in [ids -> Nat],
           Chained(ids, list, heads, p, n),
           NEW s \in Nat \ {0}, s \notin ids,
           NEW list2 \in [ids \cup {s} -> AllLists], heads[list2[s]] = Nil,
           NEW p2 \in [ids \cup {s} -> Nat], NEW n2 \in [ids \cup {s} -> Nat],
           Extended(ids, list, p, n, s, list2, p2, n2)
    PROVE  Chained(ids \cup {s}, list2, [heads EXCEPT ![list2[s]] = s], p2, n2)
<1> DEFINE heads2 == [heads EXCEPT ![list2[s]] = s]
<1>1. \A l \in AllLists : heads2[l] = IF l = list2[s] THEN s ELSE heads[l]
  OBVIOUS
<1> HIDE DEF heads2
<1>2. /\ \A x \in ids : list2[x] = list[x] /\ p2[x] = p[x] /\ n2[x] = n[x] /\ x # s
      /\ p2[s] = Nil /\ n2[s] = Nil /\ list2[s] \in AllLists
  BY DEF Extended
<1>3. \A x \in ids : list[x] # list2[s] \/ p[x] # Nil
  BY DEF Chained, Nil
<1>4. \A x \in ids \cup {s} : n2[x] # Nil =>
        n2[x] \in ids \cup {s} /\ list2[n2[x]] = list2[x] /\ p2[n2[x]] = x
  BY <1>2 DEF Chained
<1>5. \A x \in ids \cup {s} : p2[x] # Nil =>
        p2[x] \in ids \cup {s} /\ list2[p2[x]] = list2[x] /\ n2[p2[x]] = x
  BY <1>2 DEF Chained
<1>6. \A x \in ids \cup {s} : p2[x] = Nil => heads2[list2[x]] = x
  BY <1>1, <1>2, <1>3 DEF Chained
<1>7. \A l \in AllLists : heads2[l] # Nil =>
        heads2[l] \in ids \cup {s} /\ list2[heads2[l]] = l /\ p2[heads2[l]] = Nil
  BY <1>1, <1>2 DEF Chained
<1>8. NoRing(ids \cup {s}, p2)
  <2> SUFFICES ASSUME NEW S \in SUBSET (ids \cup {s}), S # {}, \A x \in S : p2[x] \in S
               PROVE  FALSE
    BY DEF NoRing
  <2>1. s \notin S
    BY <1>2 DEF Nil
  <2>2. S \in SUBSET ids /\ \A x \in S : p[x] \in S
    BY <1>2, <2>1
  <2> QED BY <2>2 DEF Chained, NoRing
<1> QED BY <1>4, <1>5, <1>6, <1>7, <1>8 DEF Chained, heads2

-----------------------------------------------------------------------------
(* The inductive invariant.                                                *)

\* The classes that are ever used.
Served == {get_used_slab_idx(size) : size \in Sizes}

\* The free blocks of a slab are different blocks of it, at least as many as it
\* counts.
WellMade(x) ==
    /\ x \in Slab /\ x.idx \in Served /\ x.unit_size = UNIT_SIZE_SLAB(x.idx)
    /\ x.unit_count <= Len(x.bfreelist)
    /\ \A k \in 1 .. Len(x.bfreelist) : x.bfreelist[k] < slab_max_count(x.idx)
    /\ \A j, k \in 1 .. Len(x.bfreelist) : x.bfreelist[j] = x.bfreelist[k] => j = k

PageEnd(x) == x.page + slab_num_page(x.idx)

\* The slabs sl lie one behind the other, up to page uf.
Placed(sl, uf) ==
    /\ \A s \in 1 .. Len(sl) : PageEnd(sl[s]) <= uf
    /\ \A s, t \in 1 .. Len(sl) : s < t => PageEnd(sl[s]) <= sl[t].page

\* A block is in a slab of the class of its size, and not free; h is held.
InSlab(sl, h, b) ==
    /\ b[1] \in 1 .. Len(sl) /\ b[2] \in Nat /\ b = <<b[1], b[2]>>
    /\ b[2] < slab_max_count(sl[b[1]].idx)
    /\ h[b] \in Sizes /\ get_used_slab_idx(h[b]) = sl[b[1]].idx

Sound(sl, uf, h) ==
    /\ sl \in Seq(Slab) /\ \A s \in 1 .. Len(sl) : WellMade(sl[s])
    /\ Placed(sl, uf)
    /\ \A b \in DOMAIN h : InSlab(sl, h, b)
    /\ \A s \in 1 .. Len(sl) : \A k \in 1 .. Len(sl[s].bfreelist) :
         <<s, sl[s].bfreelist[k]>> \notin DOMAIN h
    /\ \A s \in 1 .. Len(sl) : sl[s].unit_count = 0 => \E b \in DOMAIN h : b[1] = s

\* Slabs with blocks to give are on one list, those without on the other.
ListOf(x) == <<x.idx, IF x.unit_count > 0 THEN "avail" ELSE "used">>

ListsOf(sl) == [s \in 1 .. Len(sl) |-> ListOf(sl[s])]

Heads == [l \in AllLists |-> IF l[2] = "avail" THEN avail_slab[l[1]] ELSE used_slab[l[1]]]

Links ==
    /\ avail_slab \in [Classes -> Nat] /\ used_slab \in [Classes -> Nat]
    /\ prev \in [1 .. Len(slabs) -> Nat] /\ next \in [1 .. Len(slabs) -> Nat]
    /\ Chained(1 .. Len(slabs), ListsOf(slabs), Heads, prev, next)

HeapOK == ufree_start \in Nat /\ heap_size \in Nat \ {0} /\ ufree_start <= heap_size

IInv == Sound(slabs, ufree_start, held) /\ Links /\ HeapOK

\* What the proofs need of the classes.
LEMMA ServedFacts ==
    ASSUME NEW idx \in Served
    PROVE  /\ idx \in Classes /\ UNIT_SIZE_SLAB(idx) \in Nat
           /\ slab_max_count(idx) \in Nat \ {0} /\ slab_num_page(idx) \in 1 .. PGSIZE
BY SizesServed DEF Served, Serves

\* No size needs a slab of 1, 2 or 4 MiB: it is below 512 KiB or above 4 MiB.  A
\* freed slab of the others goes to the list of another class (SizesServed).
SizesAgree == \A size \in Sizes : get_used_slab_idx(size) \notin 8 .. 10

\* free_block finds the class of a slab again.
LEMMA AgreeFacts ==
    ASSUME SizesAgree, NEW idx \in Served
    PROVE  get_block_idx(UNIT_SIZE_SLAB(idx)) = idx
BY SizesServed DEF SizesAgree, Served

-----------------------------------------------------------------------------
(* What the steps make of the slabs.                                       *)

\* A slab gives its first free block.
LEMMA GivenFacts ==
    ASSUME NEW x, WellMade(x), x.unit_count # 0
    PROVE  /\ WellMade(Given(x)) /\ x.bfreelist # <<>>
           /\ Given(x).idx = x.idx /\ Given(x).page = x.page
           /\ Given(x).unit_count = x.unit_count - 1
           /\ Head(x.bfreelist) \in Nat /\ Head(x.bfreelist) < slab_max_count(x.idx)
           /\ \A k \in 1 .. Len(Given(x).bfreelist) :
                /\ Given(x).bfreelist[k] # Head(x.bfreelist)
                /\ k + 1 \in 1 .. Len(x.bfreelist)
                /\ Given(x).bfreelist[k] = x.bfreelist[k + 1]
<1> DEFINE f == x.bfreelist
<1>1. f \in Seq(Nat) /\ x \in Slab /\ x.unit_count \in Nat /\ Len(f) \in Nat
      /\ x.unit_count <= Len(f) /\ Len(f) # 0
  BY DEF WellMade, Slab
<1>2. f # <<>> /\ 1 \in 1 .. Len(f) /\ Head(f) = f[1] /\ Head(f) \in Nat
  BY <1>1
<1>3. PICK g \in Seq(Nat) : g = Tail(f)
  BY <1>1, <1>2, HeadTailProperties
<1>4. Len(g) = Len(f) - 1
  BY <1>1, <1>2, <1>3
<1>5. \A k \in 1 .. Len(g) : k + 1 \in 1 .. Len(f) /\ g[k] = f[k + 1]
  BY <1>1, <1>2, <1>3
<1>6. /\ Given(x) \in Slab /\ Given(x).bfreelist = g /\ Given(x).idx = x.idx
      /\ Given(x).page = x.page /\ Given(x).unit_size = x.unit_size
      /\ Given(x).unit_count = x.unit_count - 1
  <2>1. PICK c \in Nat : c = x.unit_count - 1
    BY <1>1
  <2>2. Given(x) = [x EXCEPT !.unit_count = c, !.bfreelist = g]
    BY <1>3, <2>1 DEF Given
  <2> QED BY <1>1, <2>1, <2>2 DEF Slab
<1>7. /\ \A k \in 1 .. Len(f) : f[k] < slab_max_count(x.idx)
      /\ \A j, k \in 1 .. Len(f) : f[j] = f[k] => j = k
      /\ x.idx \in Served /\ x.unit_size = UNIT_SIZE_SLAB(x.idx)
  BY DEF WellMade
<1> HIDE DEF f
<1>8. \A k \in 1 .. Len(g) : g[k] # Head(f) /\ g[k] < slab_max_count(x.idx)
  BY <1>2, <1>5, <1>7
<1>9. \A j, k \in 1 .. Len(g) : g[j] = g[k] => j = k
  <2> SUFFICES ASSUME NEW j \in 1 .. Len(g), NEW k \in 1 .. Len(g), g[j] = g[k] PROVE j = k
    OBVIOUS
  <2>1. j + 1 \in 1 .. Len(f) /\ k + 1 \in 1 .. Len(f) /\ f[j + 1] = f[k + 1]
    BY <1>5
  <2>2. j + 1 = k + 1
    BY <1>7, <2>1
  <2> QED BY <2>2
<1>10. x.unit_count - 1 <= Len(g)
  BY <1>1, <1>4
<1>11. WellMade(Given(x))
  BY <1>6, <1>7, <1>8, <1>9, <1>10 DEF WellMade
<1> QED BY <1>2, <1>5, <1>6, <1>7, <1>8, <1>11 DEF f

\* A slab takes block n back.
TookBack(x, n, c, y) ==
    /\ WellMade(y) /\ y.idx = x.idx /\ y.page = x.page /\ y.unit_count = c
    /\ \A k \in 1 .. Len(y.bfreelist) :
         y.bfreelist[k] = n \/ \E j \in 1 .. Len(x.bfreelist) : y.bfreelist[k] = x.bfreelist[j]

\* free_block puts a block in front of the free ones.
LEMMA TakenBackFacts ==
    ASSUME NEW x, WellMade(x), NEW n \in Nat, n < slab_max_count(x.idx),
           \A k \in 1 .. Len(x.bfreelist) : x.bfreelist[k] # n,
           NEW c \in Nat, c = IF x.unit_count = 0 THEN 1 ELSE x.unit_count
    PROVE  TookBack(x, n, c, TakenBack(x, n, c))
<1> DEFINE f == x.bfreelist
<1>1. f \in Seq(Nat) /\ x \in Slab /\ x.unit_count \in Nat /\ Len(f) \in Nat
      /\ x.unit_count <= Len(f)
  BY DEF WellMade, Slab
<1>2. PICK g \in Seq(Nat) : g = <<n>> \o f
  <2> HIDE DEF f
  <2>1. <<n>> \in Seq(Nat)
    OBVIOUS
  <2>2. <<n>> \o f \in Seq(Nat)
    BY <1>1, <2>1, ConcatProperties
  <2> QED BY <2>2
<1>3. Len(g) = Len(f) + 1 /\ g[1] = n
  BY <1>1, <1>2
<1>4. \A k \in 1 .. Len(g) : k # 1 => k - 1 \in 1 .. Len(f) /\ g[k] = f[k - 1]
  BY <1>1, <1>2
<1>5. PICK y \in Slab : /\ y = TakenBack(x, n, c) /\ y.bfreelist = g /\ y.idx = x.idx
                        /\ y.page = x.page /\ y.unit_size = x.unit_size /\ y.unit_count = c
  <2>1. TakenBack(x, n, c) = [x EXCEPT !.unit_count = c, !.bfreelist = g]
    BY <1>2 DEF TakenBack
  <2> QED BY <1>1, <2>1 DEF Slab
<1>6. /\ \A k \in 1 .. Len(f) : f[k] < slab_max_count(x.idx) /\ f[k] # n
      /\ \A j, k \in 1 .. Len(f) : f[j] = f[k] => j = k
      /\ x.idx \in Served /\ x.unit_size = UNIT_SIZE_SLAB(x.idx)
  BY DEF WellMade
<1> HIDE DEF f
<1>7. \A k \in 1 .. Len(g) : g[k] < slab_max_count(x.idx)
  BY <1>3, <1>4, <1>6
<1>8. \A j, k \in 1 .. Len(g) : g[j] = g[k] => j = k
  <2> SUFFICES ASSUME NEW j \in 1 .. Len(g), NEW k \in 1 .. Len(g), g[j] = g[k] PROVE j = k
    OBVIOUS
  <2>1. CASE j = 1 \/ k = 1
    BY <1>3, <1>4, <1>6, <2>1
  <2>2. CASE j # 1 /\ k # 1
    <3>1. j - 1 = k - 1
      BY <1>4, <1>6, <2>2, ZenonT(60)
    <3> QED BY <3>1
  <2> QED BY <2>1, <2>2
<1>9. c <= Len(g)
  BY <1>1, <1>3
<1>10. WellMade(y)
  BY <1>5, <1>6, <1>7, <1>8, <1>9 DEF WellMade
<1>11. \A k \in 1 .. Len(g) : g[k] = n \/ \E j \in 1 .. Len(f) : g[k] = f[j]
  BY <1>3, <1>4
<1>12. TookBack(x, n, c, y)
  BY <1>5, <1>10, <1>11 DEF f, TookBack
<1> QED BY <1>5, <1>12

\* A new slab.
LEMMA AllocFacts ==
    ASSUME NEW idx \in Served, ufree_start \in Nat
    PROVE  /\ WellMade(alloc_slab(idx)) /\ alloc_slab(idx).idx = idx
           /\ alloc_slab(idx).page = ufree_start /\ alloc_slab(idx).unit_count # 0
<1>1. PICK m \in Nat \ {0} : m = slab_max_count(idx)
  BY ServedFacts
<1>2. PICK f \in Seq(Nat) : f = [n \in 1 .. m |-> n - 1]
  <2>1. \A n \in 1 .. m : n - 1 \in Nat
    OBVIOUS
  <2>2. [n \in 1 .. m |-> n - 1] \in Seq(Nat)
    BY <2>1
  <2> QED BY <2>2
<1>3. Len(f) = m /\ \A k \in 1 .. Len(f) : f[k] = k - 1
  BY <1>2
<1>4. PICK y : y = alloc_slab(idx)
  OBVIOUS
<1>5. y = [idx |-> idx, page |-> ufree_start, unit_size |-> UNIT_SIZE_SLAB(idx),
           unit_count |-> m, bfreelist |-> f]
  BY <1>1, <1>2, <1>4 DEF alloc_slab
<1>6. /\ y \in Slab /\ y.idx = idx /\ y.page = ufree_start /\ y.unit_size = UNIT_SIZE_SLAB(idx)
      /\ y.unit_count = m /\ y.bfreelist = f
  BY <1>5, ServedFacts DEF Slab
<1>7. WellMade(y)
  BY <1>1, <1>3, <1>6 DEF WellMade
<1> QED BY <1>4, <1>6, <1>7

\* A slab has pages.
LEMMA SlabFacts ==
    ASSUME NEW x, WellMade(x)
    PROVE  x.page \in Nat /\ slab_num_page(x.idx) \in Nat \ {0} /\ PageEnd(x) \in Nat
<1>1. x.idx \in Served /\ x.page \in Nat
  BY DEF WellMade, Slab
<1>2. slab_num_page(x.idx) \in 1 .. PGSIZE
  BY <1>1, ServedFacts, Zenon
<1>3. \A n \in 1 .. PGSIZE : n \in Nat \ {0}
  BY LayoutAssumption, SMT
<1>4. PICK i \in Nat \ {0} : i = slab_num_page(x.idx)
  BY <1>2, <1>3, Zenon
<1> QED BY <1>1, <1>4 DEF PageEnd

\* A new slab behind the others.
LEMMA NewSound ==
    ASSUME NEW sl, NEW uf \in Nat, NEW h, Sound(sl, uf, h),
           NEW x, WellMade(x), x.page = uf, x.unit_count # 0
    PROVE  Sound(Append(sl, x), PageEnd(x), h)
<1>1. PICK s2 : s2 = Append(sl, x)
  OBVIOUS
<1>2. sl \in Seq(Slab) /\ x \in Slab /\ Len(sl) \in Nat
  BY DEF Sound, WellMade
<1>3. /\ s2 \in Seq(Slab) /\ Len(s2) = Len(sl) + 1 /\ s2[Len(sl) + 1] = x
      /\ \A s \in 1 .. Len(sl) : s2[s] = sl[s]
      /\ \A s \in 1 .. Len(s2) : s \in 1 .. Len(sl) \/ s = Len(sl) + 1
      /\ \A s \in 1 .. Len(sl) : s \in 1 .. Len(s2)
  BY <1>1, <1>2, AppendProperties
<1>4. \A s \in 1 .. Len(s2) : WellMade(s2[s])
  BY <1>3 DEF Sound
<1>5. Placed(s2, PageEnd(x))
  <2>2. PageEnd(x) \in Nat /\ uf <= PageEnd(x)
    <3>1. slab_num_page(x.idx) \in Nat /\ PageEnd(x) = uf + slab_num_page(x.idx)
      BY SlabFacts DEF PageEnd
    <3> QED BY <3>1
  <2>3. \A s \in 1 .. Len(sl) : PageEnd(sl[s]) \in Nat /\ PageEnd(sl[s]) <= uf
    BY SlabFacts DEF Sound, Placed
  <2>4. \A s \in 1 .. Len(s2) : PageEnd(s2[s]) <= PageEnd(x)
    BY <1>3, <2>2, <2>3
  <2>5. ASSUME NEW s \in 1 .. Len(s2), NEW t \in 1 .. Len(s2), s < t
        PROVE  PageEnd(s2[s]) <= s2[t].page
    <3>1. s \in 1 .. Len(sl)
      BY <1>2, <1>3, <2>5
    <3>2. CASE t \in 1 .. Len(sl)
      BY <1>3, <2>5, <3>1, <3>2 DEF Sound, Placed
    <3>3. CASE t = Len(sl) + 1
      BY <1>3, <2>3, <3>1, <3>3
    <3> QED BY <1>3, <3>2, <3>3
  <2> QED BY <2>4, <2>5 DEF Placed
<1>6. \A b \in DOMAIN h : InSlab(s2, h, b)
  BY <1>3 DEF Sound, InSlab
<1>7. \A s \in 1 .. Len(s2) : \A k \in 1 .. Len(s2[s].bfreelist) :
        <<s, s2[s].bfreelist[k]>> \notin DOMAIN h
  <2> SUFFICES ASSUME NEW s \in 1 .. Len(s2), NEW k \in 1 .. Len(s2[s].bfreelist),
                      <<s, s2[s].bfreelist[k]>> \in DOMAIN h
               PROVE  FALSE
    OBVIOUS
  <2>1. s \in 1 .. Len(sl)
    <3>1. PICK n : n = s2[s].bfreelist[k]
      OBVIOUS
    <3>2. InSlab(sl, h, <<s, n>>)
      BY <3>1 DEF Sound
    <3> QED BY <3>2 DEF InSlab
  <2> QED BY <1>3, <2>1 DEF Sound
<1>8. \A s \in 1 .. Len(s2) : s2[s].unit_count = 0 => \E b \in DOMAIN h : b[1] = s
  BY <1>3 DEF Sound
<1> QED BY <1>1, <1>3, <1>4, <1>5, <1>6, <1>7, <1>8 DEF Sound

\* One slab has changed, but not its class and its place.
Changed(sl, uf, s, y, s2) ==
    /\ s2 \in Seq(Slab) /\ Len(s2) = Len(sl) /\ s2[s] = y
    /\ \A t \in 1 .. Len(sl) : t # s => s2[t] = sl[t]
    /\ \A t \in 1 .. Len(s2) : WellMade(s2[t])
    /\ \A t \in 1 .. Len(s2) : s2[t].idx = sl[t].idx /\ s2[t].page = sl[t].page
    /\ Placed(s2, uf)

\* Changing the blocks of a slab leaves the places of all as they are.
LEMMA ChangedSlab ==
    ASSUME NEW sl, NEW uf, NEW h, Sound(sl, uf, h),
           NEW s \in 1 .. Len(sl), NEW y, WellMade(y), y.idx = sl[s].idx, y.page = sl[s].page
    PROVE  Changed(sl, uf, s, y, [sl EXCEPT ![s] = y])
<1>0. PICK s2 : s2 = [sl EXCEPT ![s] = y]
  OBVIOUS
<1>1. sl \in Seq(Slab) /\ y \in Slab
  BY DEF Sound, WellMade
<1>2. /\ s2 \in Seq(Slab) /\ Len(s2) = Len(sl) /\ s2[s] = y
      /\ \A t \in 1 .. Len(sl) : t # s => s2[t] = sl[t]
  BY <1>0, <1>1
<1>3. \A t \in 1 .. Len(s2) : WellMade(s2[t])
  BY <1>2 DEF Sound
<1>4. \A t \in 1 .. Len(s2) : s2[t].idx = sl[t].idx /\ s2[t].page = sl[t].page
  BY <1>2
<1>5. Placed(s2, uf)
  <2>1. \A t \in 1 .. Len(s2) : PageEnd(s2[t]) = PageEnd(sl[t])
    BY <1>4 DEF PageEnd
  <2> QED BY <1>2, <1>4, <2>1 DEF Sound, Placed
<1>6. Changed(sl, uf, s, y, s2)
  BY <1>2, <1>3, <1>4, <1>5 DEF Changed
<1> QED BY <1>0, <1>6

\* Block b, the first free one of slab s, is given for a size.
Takes(sl, h, s, size, b, s2, h2) ==
    /\ s \in 1 .. Len(sl) /\ sl[s].unit_count # 0
    /\ size \in Sizes /\ get_used_slab_idx(size) = sl[s].idx
    /\ b = <<s, Head(sl[s].bfreelist)>>
    /\ s2 = [sl EXCEPT ![s] = Given(@)]
    /\ h2 = [x \in DOMAIN h \cup {b} |-> IF x = b THEN size ELSE h[x]]

\* Giving a block.
LEMMA TakeSound ==
    ASSUME NEW sl, NEW uf, NEW h, Sound(sl, uf, h), NEW s, NEW size, NEW b,
           NEW s2, NEW h2, Takes(sl, h, s, size, b, s2, h2)
    PROVE  Sound(s2, uf, h2) /\ b \notin DOMAIN h
<1>0. /\ s \in 1 .. Len(sl) /\ sl[s].unit_count # 0
      /\ size \in Sizes /\ get_used_slab_idx(size) = sl[s].idx
  BY DEF Takes
<1> USE <1>0
<1>1. PICK x : x = sl[s]
  OBVIOUS
<1>2. WellMade(x) /\ x.unit_count # 0
  BY <1>1 DEF Sound
<1>3. PICK y : y = Given(x)
  OBVIOUS
<1>4. PICK m : m = Head(x.bfreelist)
  OBVIOUS
<1>5. /\ WellMade(y) /\ x.bfreelist # <<>> /\ y.idx = x.idx /\ y.page = x.page
      /\ m \in Nat /\ m < slab_max_count(x.idx)
      /\ \A k \in 1 .. Len(y.bfreelist) :
           /\ y.bfreelist[k] # m /\ k + 1 \in 1 .. Len(x.bfreelist)
           /\ y.bfreelist[k] = x.bfreelist[k + 1]
  BY <1>2, <1>3, <1>4, GivenFacts
<1>6. s2 = [sl EXCEPT ![s] = y]
  BY <1>1, <1>3 DEF Takes
<1>7. Changed(sl, uf, s, y, s2)
  BY <1>1, <1>5, <1>6, ChangedSlab
<1>8. b = <<s, m>> /\ DOMAIN h2 = DOMAIN h \cup {b} /\ h2[b] = size
      /\ \A c \in DOMAIN h : c # b => h2[c] = h[c]
  BY <1>1, <1>4 DEF Takes
<1>9. \A c \in DOMAIN h2 : InSlab(s2, h2, c)
  <2>1. InSlab(s2, h2, b)
    BY <1>1, <1>5, <1>7, <1>8 DEF InSlab, Changed
  <2>2. \A c \in DOMAIN h : c # b => InSlab(s2, h2, c)
    BY <1>7, <1>8 DEF InSlab, Sound, Changed
  <2> QED BY <1>8, <2>1, <2>2
<1>10. ASSUME NEW t \in 1 .. Len(s2), NEW k \in 1 .. Len(s2[t].bfreelist)
       PROVE  <<t, s2[t].bfreelist[k]>> \notin DOMAIN h2
  <2>1. CASE t = s
    <3>1. k \in 1 .. Len(y.bfreelist) /\ s2[t].bfreelist[k] = y.bfreelist[k]
      BY <1>7, <2>1 DEF Changed
    <3>2. PICK n : n = y.bfreelist[k]
      OBVIOUS
    <3>3. n # m /\ k + 1 \in 1 .. Len(sl[s].bfreelist) /\ n = sl[s].bfreelist[k + 1]
      BY <1>1, <1>5, <3>1, <3>2
    <3>4. <<s, n>> \notin DOMAIN h
      BY <3>3 DEF Sound
    <3>5. <<s, n>> # <<s, m>>
      BY <3>3
    <3> QED BY <1>8, <2>1, <3>1, <3>2, <3>4, <3>5
  <2>2. CASE t # s
    <3>1. PICK n : n = s2[t].bfreelist[k]
      OBVIOUS
    <3>2. <<t, n>> \notin DOMAIN h
      BY <1>7, <2>2, <3>1 DEF Sound, Changed
    <3>3. <<t, n>> # <<s, m>>
      BY <2>2
    <3> QED BY <1>8, <3>1, <3>2, <3>3
  <2> QED BY <2>1, <2>2
<1>11. ASSUME NEW t \in 1 .. Len(s2), s2[t].unit_count = 0
       PROVE  \E c \in DOMAIN h2 : c[1] = t
  <2>1. CASE t = s
    BY <1>8, <2>1
  <2>2. CASE t # s
    BY <1>7, <1>8, <1>11, <2>2 DEF Sound, Changed
  <2> QED BY <2>1, <2>2
<1>12. b \notin DOMAIN h
  <2>1. 1 \in 1 .. Len(x.bfreelist) /\ m = x.bfreelist[1]
    <3>1. x.bfreelist \in Seq(Nat) /\ x.bfreelist # <<>>
      BY <1>2, <1>5 DEF WellMade, Slab
    <3> QED BY <1>4, <3>1
  <2> QED BY <1>1, <1>8, <2>1 DEF Sound
<1>14. Sound(s2, uf, h2)
  BY <1>7, <1>9, <1>10, <1>11 DEF Sound, Changed
<1> QED BY <1>12, <1>14

\* Block b goes back to its slab s, which then has count c.
Frees(sl, h, b, s, c, s2, h2) ==
    /\ b \in DOMAIN h /\ s = b[1]
    /\ c = IF sl[s].unit_count = 0 THEN 1 ELSE sl[s].unit_count
    /\ s2 = [sl EXCEPT ![s] = TakenBack(@, b[2], c)]
    /\ h2 = Restrict(h, DOMAIN h \ {b})

\* Taking it back.
LEMMA FreeSound ==
    ASSUME NEW sl, NEW uf, NEW h, Sound(sl, uf, h), NEW b, NEW s, NEW c,
           NEW s2, NEW h2, Frees(sl, h, b, s, c, s2, h2)
    PROVE  /\ Sound(s2, uf, h2) /\ s \in 1 .. Len(sl) /\ WellMade(sl[s])
           /\ Changed(sl, uf, s, s2[s], s2) /\ s2[s].unit_count = c
<1>0. /\ b \in DOMAIN h /\ s = b[1]
      /\ c = IF sl[s].unit_count = 0 THEN 1 ELSE sl[s].unit_count
  BY DEF Frees
<1> USE <1>0
<1>1. InSlab(sl, h, b)
  BY DEF Sound
<1>2. PICK n \in Nat : n = b[2]
  BY <1>1 DEF InSlab
<1>3. PICK x : x = sl[s]
  OBVIOUS
<1>4. s \in 1 .. Len(sl) /\ b = <<s, n>> /\ n < slab_max_count(x.idx) /\ WellMade(x)
  BY <1>1, <1>2, <1>3 DEF InSlab, Sound
<1>5. \A k \in 1 .. Len(x.bfreelist) : x.bfreelist[k] # n
  BY <1>3, <1>4 DEF Sound
<1>6. c \in Nat /\ c # 0 /\ c = IF x.unit_count = 0 THEN 1 ELSE x.unit_count
  BY <1>3, <1>4 DEF WellMade, Slab
<1>7. PICK y : y = TakenBack(x, n, c)
  OBVIOUS
<1>8. TookBack(x, n, c, y)
  BY <1>4, <1>5, <1>6, <1>7, TakenBackFacts
<1>9. s2 = [sl EXCEPT ![s] = y]
  BY <1>2, <1>3, <1>7 DEF Frees
<1>10. Changed(sl, uf, s, y, s2)
  BY <1>3, <1>4, <1>8, <1>9, ChangedSlab DEF TookBack
<1>11. DOMAIN h2 = DOMAIN h \ {b} /\ \A d \in DOMAIN h2 : h2[d] = h[d]
  BY DEF Frees, Restrict
<1>12. \A d \in DOMAIN h2 : InSlab(s2, h2, d)
  BY <1>10, <1>11 DEF Sound, InSlab, Changed
<1>13. ASSUME NEW t \in 1 .. Len(s2), NEW k \in 1 .. Len(s2[t].bfreelist)
       PROVE  <<t, s2[t].bfreelist[k]>> \notin DOMAIN h2
  <2>1. CASE t = s
    <3>1. PICK i : i = s2[t].bfreelist[k]
      OBVIOUS
    <3>2. i = n \/ \E j \in 1 .. Len(sl[s].bfreelist) : i = sl[s].bfreelist[j]
      BY <1>3, <1>8, <1>10, <2>1, <3>1 DEF Changed, TookBack
    <3>3. <<s, i>> = b \/ <<s, i>> \notin DOMAIN h
      BY <1>4, <3>2 DEF Sound
    <3> QED BY <1>11, <2>1, <3>1, <3>3
  <2>2. CASE t # s
    <3>1. <<t, s2[t].bfreelist[k]>> \notin DOMAIN h
      BY <1>10, <2>2 DEF Sound, Changed
    <3> QED BY <1>11, <3>1
  <2> QED BY <2>1, <2>2
<1>14. ASSUME NEW t \in 1 .. Len(s2), s2[t].unit_count = 0
       PROVE  \E d \in DOMAIN h2 : d[1] = t
  <2>1. t # s
    BY <1>6, <1>8, <1>10, <1>14 DEF Changed, TookBack
  <2>2. PICK d \in DOMAIN h : d[1] = t
    BY <1>10, <1>14, <2>1 DEF Sound, Changed
  <2>3. d # b
    BY <2>1, <2>2
  <2> QED BY <1>11, <2>2, <2>3
<1>15. Sound(s2, uf, h2)
  BY <1>10, <1>12, <1>13, <1>14 DEF Sound, Changed
<1>16. s2[s] = y /\ y.unit_count = c
  BY <1>8, <1>10 DEF TookBack, Changed
<1> QED BY <1>3, <1>4, <1>10, <1>15, <1>16

\* heap_inflate doubles often enough.
LEMMA InflatedFacts ==
    ASSUME heap_size \in Nat \ {0}, NEW end \in Nat, end <= heap_size + PGSIZE
    PROVE  Inflated(end) \in Nat \ {0} /\ end <= Inflated(end) /\ heap_size <= Inflated(end)
<1> DEFINE T == {k \in 0 .. 24 : heap_size * Pow[k] >= end}
           P(k) == heap_size * 2 ^ k >= end /\ \A j \in 0 .. k - 1 : heap_size * 2 ^ j < end
<1>1. PICK k \in T : \A j \in T : k <= j
  <2>1. T \in SUBSET Nat
    OBVIOUS
  <2>2. 13 \in T
    <3>1. Pow[13] = 8192
      BY PowTable
    <3> QED BY <3>1, LayoutAssumption
  <2> HIDE DEF T
  <2> QED BY <2>1, <2>2, NatMin
<1>2. \A j \in 0 .. 24 : /\ heap_size * 2 ^ j = heap_size * Pow[j]
                         /\ heap_size * Pow[j] \in Nat \ {0} /\ heap_size <= heap_size * Pow[j]
  <2> SUFFICES ASSUME NEW j \in 0 .. 24
               PROVE  /\ heap_size * 2 ^ j = heap_size * Pow[j]
                      /\ heap_size * Pow[j] \in Nat \ {0} /\ heap_size <= heap_size * Pow[j]
    OBVIOUS
  <2>1. j \in 0 .. 30
    OBVIOUS
  <2>2. 2 ^ j = Pow[j]
    BY <2>1, PowIs
  <2>3. PICK m \in Nat \ {0} : m = Pow[j]
    BY <2>1, PowRises
  <2>4. heap_size * m \in Nat \ {0} /\ heap_size <= heap_size * m
    <3>1. PICK i \in Nat : m = i + 1
      <4>1. m - 1 \in Nat /\ m = (m - 1) + 1
        OBVIOUS
      <4> QED BY <4>1
    <3>2. \A h \in Nat : h * (i + 1) = h * i + h /\ h * i \in Nat
      OBVIOUS
    <3> QED BY <3>1, <3>2
  <2> QED BY <2>2, <2>3, <2>4
<1>3. P(k)
  <2>1. heap_size * 2 ^ k >= end
    BY <1>2
  <2>2. ASSUME NEW j \in 0 .. k - 1 PROVE heap_size * 2 ^ j < end
    <3>1. j \in 0 .. 24 /\ j \notin T
      BY <1>1
    <3>2. PICK m \in Nat : m = heap_size * Pow[j] /\ m = heap_size * 2 ^ j
      BY <1>2, <3>1
    <3>3. ~ (m >= end)
      BY <3>1, <3>2
    <3> QED BY <3>2, <3>3
  <2> QED BY <2>1, <2>2
<1> DEFINE c == CHOOSE x \in 0 .. 24 : P(x)
<1>4. c \in 0 .. 24 /\ P(c)
  <2>1. k \in 0 .. 24
    OBVIOUS
  <2> HIDE DEF P, T
  <2> QED BY <1>3, <2>1
<1>5. Inflated(end) = heap_size * 2 ^ c
  BY DEF Inflated
<1> HIDE DEF c
<1> QED BY <1>2, <1>4, <1>5

\* The slab that malloc takes a block from.
Ready(all, uf, p, n, mid, s, idx) ==
    /\ Sound(all, uf, held)
    /\ s \in 1 .. Len(all) /\ all[s].idx = idx /\ all[s].unit_count # 0
    /\ p \in [1 .. Len(all) -> Nat] /\ n \in [1 .. Len(all) -> Nat]
    /\ Chained(1 .. Len(all), ListsOf(all), mid, p, n)
    /\ mid[<<idx, "avail">>] = s

\* The heads of the lists.
LEMMA HeadsType ==
    ASSUME Links
    PROVE  /\ Heads \in [AllLists -> Nat]
           /\ \A c \in Classes : <<c, "avail">> \in AllLists /\ <<c, "used">> \in AllLists
           /\ \A c \in Classes : Heads[<<c, "avail">>] = avail_slab[c] /\ Heads[<<c, "used">>] = used_slab[c]
BY DEF Links, Heads, AllLists

\* The list that each slab is on.
LEMMA ListsType ==
    ASSUME NEW sl, NEW uf, NEW h, Sound(sl, uf, h)
    PROVE  ListsOf(sl) \in [1 .. Len(sl) -> AllLists] /\ 1 .. Len(sl) \in SUBSET (Nat \ {0})
<1>1. \A s \in 1 .. Len(sl) : ListOf(sl[s]) \in AllLists
  <2> SUFFICES ASSUME NEW s \in 1 .. Len(sl) PROVE ListOf(sl[s]) \in AllLists
    OBVIOUS
  <2>1. sl[s] \in Slab
    BY DEF Sound
  <2>2. sl[s].idx \in Classes
    BY <2>1 DEF Slab
  <2> QED BY <2>2 DEF ListOf, AllLists
<1>2. Len(sl) \in Nat
  BY DEF Sound
<1> QED BY <1>1, <1>2 DEF ListsOf

\* A function from 1 .. m is a sequence.
LEMMA SeqFromFun ==
    ASSUME NEW m \in Nat, NEW f \in [1 .. m -> Nat]
    PROVE  f \in Seq(Nat) /\ Len(f) = m
BY SeqDef

\* get_avail_slab when the class has no slab with blocks to give.
LEMMA NewReady ==
    ASSUME IInv, NEW size \in Sizes, NEW idx, idx = get_used_slab_idx(size), avail_slab[idx] = Nil
    PROVE  Ready(Append(slabs, alloc_slab(idx)), ufree_start + slab_num_page(idx),
                 Append(prev, Nil), Append(next, Nil),
                 [Heads EXCEPT ![<<idx, "avail">>] = Len(slabs) + 1], Len(slabs) + 1, idx)
<1>1. idx \in Served /\ idx \in Classes /\ ufree_start \in Nat
  BY ServedFacts DEF Served, IInv, HeapOK
<1>2. PICK x : x = alloc_slab(idx)
  OBVIOUS
<1>3. WellMade(x) /\ x.idx = idx /\ x.page = ufree_start /\ x.unit_count # 0
  BY <1>1, <1>2, AllocFacts
<1>4. PageEnd(x) = ufree_start + slab_num_page(idx)
  BY <1>3 DEF PageEnd
<1>5. PICK all : all = Append(slabs, x)
  OBVIOUS
<1>6. PICK s : s = Len(slabs) + 1
  OBVIOUS
<1>7. Sound(all, ufree_start + slab_num_page(idx), held)
  BY <1>1, <1>3, <1>4, <1>5, NewSound DEF IInv
<1>8. slabs \in Seq(Slab) /\ x \in Slab
  BY <1>3 DEF IInv, Sound, WellMade
<1>9. /\ Len(all) = s /\ s \in Nat \ {0} /\ all[s] = x /\ \A t \in 1 .. Len(slabs) : all[t] = slabs[t]
      /\ 1 .. Len(all) = 1 .. Len(slabs) \cup {s} /\ s \notin 1 .. Len(slabs)
  BY <1>5, <1>6, <1>8, AppendProperties
<1>10. PICK p : p = Append(prev, Nil)
  OBVIOUS
<1>11. PICK n : n = Append(next, Nil)
  OBVIOUS
<1>12. prev \in Seq(Nat) /\ Len(prev) = Len(slabs) /\ next \in Seq(Nat) /\ Len(next) = Len(slabs)
  <2>1. Len(slabs) \in Nat
    BY <1>8
  <2>2. prev \in [1 .. Len(slabs) -> Nat] /\ next \in [1 .. Len(slabs) -> Nat]
    BY DEF IInv, Links
  <2> QED BY <2>1, <2>2, SeqFromFun
<1>13. /\ p \in [1 .. Len(all) -> Nat] /\ p[s] = Nil /\ \A t \in 1 .. Len(slabs) : p[t] = prev[t]
       /\ n \in [1 .. Len(all) -> Nat] /\ n[s] = Nil /\ \A t \in 1 .. Len(slabs) : n[t] = next[t]
  <2>1. Nil \in Nat
    BY DEF Nil
  <2>2. p \in Seq(Nat) /\ Len(p) = s /\ p[s] = Nil /\ \A t \in 1 .. Len(slabs) : p[t] = prev[t]
    BY <1>6, <1>10, <1>12, <2>1, AppendProperties
  <2>3. n \in Seq(Nat) /\ Len(n) = s /\ n[s] = Nil /\ \A t \in 1 .. Len(slabs) : n[t] = next[t]
    BY <1>6, <1>11, <1>12, <2>1, AppendProperties
  <2> QED BY <1>9, <2>2, <2>3
<1>14. /\ ListsOf(all) \in [1 .. Len(all) -> AllLists] /\ ListsOf(all)[s] = <<idx, "avail">>
       /\ \A t \in 1 .. Len(slabs) : ListsOf(all)[t] = ListsOf(slabs)[t]
  <2>1. ListsOf(all) \in [1 .. Len(all) -> AllLists]
    BY <1>7, ListsType
  <2>2. ListOf(x) = <<idx, "avail">>
    BY <1>3, <1>8 DEF Slab, ListOf
  <2>3. ListsOf(all)[s] = <<idx, "avail">>
    BY <1>9, <2>2 DEF ListsOf
  <2> QED BY <1>9, <2>1, <2>3 DEF ListsOf
<1>15. Heads \in [AllLists -> Nat] /\ <<idx, "avail">> \in AllLists /\ Heads[<<idx, "avail">>] = Nil
  BY <1>1, HeadsType DEF IInv
<1>16. PICK mid : mid = [Heads EXCEPT ![<<idx, "avail">>] = s]
  OBVIOUS
<1>17. Chained(1 .. Len(all), ListsOf(all), mid, p, n)
  <2>1. ListsOf(slabs) \in [1 .. Len(slabs) -> AllLists] /\ 1 .. Len(slabs) \in SUBSET (Nat \ {0})
    BY ListsType DEF IInv
  <2>2. Chained(1 .. Len(slabs), ListsOf(slabs), Heads, prev, next)
        /\ prev \in [1 .. Len(slabs) -> Nat] /\ next \in [1 .. Len(slabs) -> Nat]
    BY DEF IInv, Links
  <2>3. PICK ids : ids = 1 .. Len(slabs)
    OBVIOUS
  <2>4. PICK list \in [ids -> AllLists] : list = ListsOf(slabs)
    BY <2>1, <2>3
  <2>5. PICK list2 \in [ids \cup {s} -> AllLists] : list2 = ListsOf(all)
    BY <1>9, <1>14, <2>3
  <2>6. /\ list2[s] = <<idx, "avail">> /\ Heads[list2[s]] = Nil
        /\ Extended(ids, list, prev, next, s, list2, p, n)
    BY <1>13, <1>14, <1>15, <2>3, <2>4, <2>5 DEF Extended
  <2>7. /\ Chained(ids, list, Heads, prev, next)
        /\ ids \in SUBSET (Nat \ {0}) /\ s \in Nat \ {0} /\ s \notin ids
        /\ prev \in [ids -> Nat] /\ next \in [ids -> Nat]
    BY <1>9, <2>1, <2>2, <2>3, <2>4
  <2>71. p \in [ids \cup {s} -> Nat] /\ n \in [ids \cup {s} -> Nat]
    BY <1>9, <1>13, <2>3
  <2>8. Chained(ids \cup {s}, list2, [Heads EXCEPT ![list2[s]] = s], p, n)
    BY <1>15, <2>6, <2>7, <2>71, NewChained
  <2> QED BY <1>9, <1>16, <2>3, <2>5, <2>6, <2>8
<1>18. mid[<<idx, "avail">>] = s /\ s \in 1 .. Len(all)
  BY <1>9, <1>15, <1>16
<1>19. Ready(all, ufree_start + slab_num_page(idx), p, n, mid, s, idx)
  BY <1>3, <1>7, <1>9, <1>13, <1>17, <1>18 DEF Ready
<1> QED BY <1>2, <1>5, <1>6, <1>10, <1>11, <1>16, <1>19

\* get_avail_slab when it has one.
LEMMA OldReady ==
    ASSUME IInv, NEW size \in Sizes, NEW idx, idx = get_used_slab_idx(size), avail_slab[idx] # Nil
    PROVE  Ready(slabs, ufree_start, prev, next, Heads, avail_slab[idx], idx)
<1>1. idx \in Served /\ idx \in Classes
  BY ServedFacts DEF Served
<1>2. Heads[<<idx, "avail">>] = avail_slab[idx] /\ <<idx, "avail">> \in AllLists
  BY <1>1, HeadsType DEF IInv
<1>3. PICK s : s = avail_slab[idx]
  OBVIOUS
<1>4. s \in 1 .. Len(slabs) /\ ListsOf(slabs)[s] = <<idx, "avail">>
  BY <1>2, <1>3 DEF IInv, Links, Chained
<1>5. slabs[s].idx = idx /\ slabs[s].unit_count # 0
  <2>1. slabs[s].idx = idx /\ slabs[s].unit_count > 0
    BY <1>4 DEF ListsOf, ListOf
  <2> QED BY <2>1
<1> QED BY <1>2, <1>3, <1>4, <1>5 DEF Ready, IInv, Links

\* No slab goes or changes its class or its place.
Grown(sl, s2) ==
    /\ Len(sl) \in Nat /\ Len(s2) \in Nat /\ Len(sl) <= Len(s2)
    /\ \A s \in 1 .. Len(sl) : s2[s].idx = sl[s].idx /\ s2[s].page = sl[s].page

\* What malloc does for the program.
Gives(size) ==
    /\ Grown(slabs, slabs') /\ heap_size <= heap_size'
    /\ \E b : /\ b \notin DOMAIN held
              /\ held' = [x \in DOMAIN held \cup {b} |-> IF x = b THEN size ELSE held[x]]

\* malloc keeps the invariant.
LEMMA MallocKeeps ==
    ASSUME IInv, NEW size \in Sizes, malloc(size)
    PROVE  IInv' /\ Gives(size)
<1> DEFINE idx == get_used_slab_idx(size)
           new == avail_slab[idx] = Nil
<1>1. PICK s : s = IF new THEN Len(slabs) + 1 ELSE avail_slab[idx]
  OBVIOUS
<1>2. PICK all : all = IF new THEN Append(slabs, alloc_slab(idx)) ELSE slabs
  OBVIOUS
<1>3. PICK p : p = IF new THEN Append(prev, Nil) ELSE prev
  OBVIOUS
<1>4. PICK n : n = IF new THEN Append(next, Nil) ELSE next
  OBVIOUS
<1>5. PICK uf : uf = IF new THEN ufree_start + slab_num_page(idx) ELSE ufree_start
  OBVIOUS
<1>6. PICK mid : mid = IF new THEN [Heads EXCEPT ![<<idx, "avail">>] = Len(slabs) + 1] ELSE Heads
  OBVIOUS
<1>7. PICK b : b = <<s, Head(all[s].bfreelist)>>
  OBVIOUS
<1>8. /\ slabs' = [all EXCEPT ![s] = Given(@)]
      /\ held' = [x \in DOMAIN held \cup {b} |-> IF x = b THEN size ELSE held[x]]
      /\ ufree_start' = uf
      /\ heap_size' = IF new THEN Inflated(uf) ELSE heap_size
      /\ IF all[s].unit_count = 1
         THEN /\ avail_slab' = [avail_slab EXCEPT ![idx] = n[s]]
              /\ used_slab' = [used_slab EXCEPT ![idx] = s]
              /\ prev' = MovedPrev(s, used_slab[idx], p, n)
              /\ next' = MovedNext(s, used_slab[idx], p, n)
         ELSE /\ avail_slab' = [avail_slab EXCEPT ![idx] = s]
              /\ prev' = p /\ next' = n /\ used_slab' = used_slab
  BY <1>1, <1>2, <1>3, <1>4, <1>5, <1>7 DEF malloc
<1>9. Ready(all, uf, p, n, mid, s, idx)
  BY <1>1, <1>2, <1>3, <1>4, <1>5, <1>6, NewReady, OldReady
<1>10. idx \in Served /\ idx \in Classes
  BY ServedFacts DEF Served
<1>11. HeapOK' /\ heap_size <= heap_size'
  <2>1. ufree_start \in Nat /\ heap_size \in Nat \ {0} /\ ufree_start <= heap_size
    BY DEF IInv, HeapOK
  <2>2. CASE new
    <3>1. slab_num_page(idx) \in 1 .. PGSIZE
      BY <1>10, ServedFacts, Zenon
    <3>2. uf \in Nat /\ uf <= heap_size + PGSIZE
      <4>1. PICK i \in 1 .. PGSIZE : i = slab_num_page(idx)
        BY <3>1, Zenon
      <4>2. uf = ufree_start + i
        BY <1>5, <2>2, <4>1
      <4> HIDE DEF idx, new
      <4> QED BY <2>1, <4>2, LayoutAssumption
    <3>3. Inflated(uf) \in Nat \ {0} /\ uf <= Inflated(uf) /\ heap_size <= Inflated(uf)
      BY <2>1, <3>2, InflatedFacts
    <3> QED BY <1>8, <2>2, <3>2, <3>3 DEF HeapOK
  <2>3. CASE ~ new
    BY <1>5, <1>8, <2>1, <2>3 DEF HeapOK
  <2> QED BY <2>2, <2>3
<1> HIDE DEF idx, new
<1>12. PICK s2 : s2 = [all EXCEPT ![s] = Given(@)]
  OBVIOUS
<1>13. PICK h2 : h2 = [x \in DOMAIN held \cup {b} |-> IF x = b THEN size ELSE held[x]]
  OBVIOUS
<1>14. Sound(all, uf, held) /\ s \in 1 .. Len(all) /\ all[s].idx = idx /\ all[s].unit_count # 0
  BY <1>9 DEF Ready
<1>15. Sound(s2, uf, h2) /\ b \notin DOMAIN held
  <2>1. get_used_slab_idx(size) = all[s].idx
    BY <1>14 DEF idx
  <2>2. Takes(all, held, s, size, b, s2, h2)
    BY <1>7, <1>12, <1>13, <1>14, <2>1 DEF Takes
  <2> QED BY <1>14, <2>2, TakeSound
<1>16. Sound(slabs, ufree_start, held)'
  BY <1>8, <1>12, <1>13, <1>15
<1>17. PICK x : x = all[s]
  OBVIOUS
<1>18. WellMade(x) /\ x \in Slab /\ x.unit_count # 0 /\ x.idx = idx
  BY <1>14, <1>17 DEF Sound, WellMade
<1>19. PICK y : y = Given(x)
  OBVIOUS
<1>20. WellMade(y) /\ y.idx = idx /\ y.page = x.page /\ y.unit_count = x.unit_count - 1
  BY <1>18, <1>19, GivenFacts
<1>21. Changed(all, uf, s, y, s2)
  <2>1. s2 = [all EXCEPT ![s] = y]
    BY <1>12, <1>17, <1>19
  <2> QED BY <1>14, <1>17, <1>18, <1>20, <2>1, ChangedSlab
<1>22. PICK ids : ids = 1 .. Len(all)
  OBVIOUS
<1>23. ids \in SUBSET (Nat \ {0}) /\ s \in ids /\ 1 .. Len(s2) = ids
  BY <1>14, <1>21, <1>22, ListsType DEF Changed
<1>24. PICK list \in [ids -> AllLists] : list = ListsOf(all)
  BY <1>14, <1>22, ListsType
<1>25. PICK list2 \in [ids -> AllLists] : list2 = ListsOf(s2)
  BY <1>15, <1>23, ListsType
<1>26. /\ p \in [ids -> Nat] /\ n \in [ids -> Nat] /\ Chained(ids, list, mid, p, n)
       /\ mid[<<idx, "avail">>] = s
  BY <1>9, <1>22, <1>24 DEF Ready
<1>27. list[s] = <<idx, "avail">> /\ \A t \in ids : t # s => list2[t] = list[t]
  <2>1. ListOf(x) = <<idx, "avail">>
    BY <1>18 DEF ListOf, Slab
  <2> QED BY <1>17, <1>21, <1>22, <1>23, <1>24, <1>25, <2>1 DEF ListsOf, Changed
<1>28. list2[s] = ListOf(y)
  BY <1>21, <1>23, <1>25 DEF ListsOf, Changed
<1>29. /\ <<idx, "avail">> \in AllLists /\ <<idx, "used">> \in AllLists
       /\ <<idx, "avail">> # <<idx, "used">>
  BY <1>10 DEF AllLists
<1>30. /\ mid \in [AllLists -> Nat] /\ mid[<<idx, "used">>] = used_slab[idx]
       /\ \A l \in AllLists : l # <<idx, "avail">> => mid[l] = Heads[l]
  <2>1. Heads \in [AllLists -> Nat] /\ Heads[<<idx, "used">>] = used_slab[idx]
    BY <1>10, HeadsType DEF IInv
  <2>2. Len(slabs) + 1 \in Nat
    BY DEF IInv, Sound
  <2> QED BY <1>6, <1>29, <2>1, <2>2
<1>31. /\ avail_slab \in [Classes -> Nat] /\ used_slab \in [Classes -> Nat] /\ s \in Nat
  BY <1>23 DEF IInv, Links
<1>34. (1 .. Len(slabs))' = ids /\ ListsOf(slabs)' = list2
  <2>1. slabs' = s2
    BY <1>8, <1>12
  <2>2. 1 .. Len(slabs') = ids /\ ListsOf(slabs') = list2
    BY <1>23, <1>25, <2>1
  <2> QED BY <2>2 DEF ListsOf
<1>35. Gives(size)
  <2>1. Len(all) \in Nat /\ Len(slabs) \in Nat /\ slabs \in Seq(Slab)
    BY <1>14 DEF IInv, Sound
  <2>2. Len(slabs) <= Len(all) /\ \A t \in 1 .. Len(slabs) : t \in 1 .. Len(all) /\ all[t] = slabs[t]
    <3>1. CASE new
      <4>1. PICK z : z = alloc_slab(idx)
        OBVIOUS
      <4>2. all = Append(slabs, z)
        BY <1>2, <3>1, <4>1
      <4> QED BY <2>1, <4>2
    <3>2. CASE ~ new
      BY <1>2, <2>1, <3>2
    <3> QED BY <3>1, <3>2
  <2>3. Grown(slabs, s2)
    BY <1>21, <2>1, <2>2 DEF Grown, Changed
  <2> QED BY <1>8, <1>11, <1>12, <1>15, <2>3 DEF Gives
<1>32. CASE x.unit_count = 1
  <2>1. /\ avail_slab' = [avail_slab EXCEPT ![idx] = n[s]]
        /\ used_slab' = [used_slab EXCEPT ![idx] = s]
        /\ prev' = MovedPrev(s, used_slab[idx], p, n)
        /\ next' = MovedNext(s, used_slab[idx], p, n)
    BY <1>8, <1>17, <1>32
  <2>2. avail_slab' \in [Classes -> Nat] /\ used_slab' \in [Classes -> Nat]
    BY <1>10, <1>23, <1>26, <1>31, <2>1
  <2>3. /\ Heads' \in [AllLists -> Nat]
        /\ Heads'[<<idx, "avail">>] = n[s] /\ Heads'[<<idx, "used">>] = s
        /\ \A l \in AllLists : l # <<idx, "avail">> /\ l # <<idx, "used">> => Heads'[l] = Heads[l]
    BY <1>10, <1>31, <2>1, <2>2 DEF Heads, AllLists
  <2>4. list2[s] = <<idx, "used">>
    BY <1>20, <1>28, <1>32 DEF ListOf
  <2>5. Moved(ids, list, mid, n, s, <<idx, "used">>, list2, Heads')
    BY <1>23, <1>26, <1>27, <1>29, <1>30, <2>3, <2>4 DEF Moved
  <2>6. /\ Chained(ids, list2, Heads', MovedPrev(s, mid[<<idx, "used">>], p, n),
                   MovedNext(s, mid[<<idx, "used">>], p, n))
        /\ MovedPrev(s, mid[<<idx, "used">>], p, n) \in [ids -> Nat]
        /\ MovedNext(s, mid[<<idx, "used">>], p, n) \in [ids -> Nat]
    BY <1>23, <1>26, <1>30, <2>5, MoveChained, ZenonT(60)
  <2>7. Chained(ids, list2, Heads', prev', next') /\ prev' \in [ids -> Nat] /\ next' \in [ids -> Nat]
    BY <1>30, <2>1, <2>6
  <2>8. Links'
    BY <1>34, <2>2, <2>7 DEF Links
  <2> QED BY <1>11, <1>16, <1>35, <2>8 DEF IInv
<1>33. CASE x.unit_count # 1
  <2>1. /\ avail_slab' = [avail_slab EXCEPT ![idx] = s] /\ used_slab' = used_slab
        /\ prev' = p /\ next' = n
    BY <1>8, <1>17, <1>33
  <2>2. avail_slab' \in [Classes -> Nat] /\ used_slab' \in [Classes -> Nat]
    BY <1>31, <2>1
  <2>3. Heads' = mid
    <3>1. Heads' \in [AllLists -> Nat] /\ Heads'[<<idx, "avail">>] = s
          /\ \A l \in AllLists : l # <<idx, "avail">> => Heads'[l] = Heads[l]
      BY <1>10, <1>31, <2>1, <2>2 DEF Heads, AllLists
    <3> QED BY <1>26, <1>30, <3>1
  <2>4. list2 = list
    <3>1. y.unit_count > 0
      BY <1>18, <1>20, <1>33 DEF Slab
    <3>2. list2[s] = list[s]
      BY <1>20, <1>27, <1>28, <3>1 DEF ListOf
    <3> QED BY <1>27, <3>2
  <2>5. Links'
    BY <1>26, <1>34, <2>1, <2>2, <2>3, <2>4 DEF Links
  <2> QED BY <1>11, <1>16, <1>35, <2>5 DEF IInv
<1> QED BY <1>32, <1>33

\* free keeps the invariant, and the slabs where they are.
LEMMA FreeKeeps ==
    ASSUME SizesAgree, IInv, NEW b \in DOMAIN held, free(b)
    PROVE  /\ IInv' /\ Grown(slabs, slabs') /\ Len(slabs') = Len(slabs)
           /\ heap_size' = heap_size /\ held' = Restrict(held, DOMAIN held \ {b})
<1>1. PICK s : s = b[1]
  OBVIOUS
<1>2. PICK x : x = slabs[s]
  OBVIOUS
<1>3. PICK c : c = IF x.unit_count = 0 THEN 1 ELSE x.unit_count
  OBVIOUS
<1>4. Frees(slabs, held, b, s, c, slabs', held')
  BY <1>1, <1>2, <1>3 DEF free, GetsBlocks, Frees
<1>5. /\ Sound(slabs', ufree_start, held') /\ s \in 1 .. Len(slabs) /\ WellMade(x)
      /\ Changed(slabs, ufree_start, s, slabs'[s], slabs') /\ slabs'[s].unit_count = c
  BY <1>2, <1>4, FreeSound DEF IInv
<1>6. ufree_start' = ufree_start /\ heap_size' = heap_size
  BY DEF free
<1>7. Sound(slabs, ufree_start, held)' /\ HeapOK'
  BY <1>5, <1>6 DEF IInv, HeapOK
<1>8. PICK idx : idx = x.idx
  OBVIOUS
<1>9. idx \in Served /\ x.unit_size = UNIT_SIZE_SLAB(idx) /\ x.unit_count \in Nat
  BY <1>5, <1>8 DEF WellMade, Slab
<1>10. get_block_idx(x.unit_size) = idx /\ idx \in Classes
  BY <1>9, ServedFacts, AgreeFacts
<1>11. PICK y : y = slabs'[s]
  OBVIOUS
<1>12. y.idx = idx /\ y.unit_count = c
  BY <1>2, <1>5, <1>8, <1>11 DEF Changed
<1>13. PICK ids : ids = 1 .. Len(slabs)
  OBVIOUS
<1>14. ids \in SUBSET (Nat \ {0}) /\ s \in ids /\ 1 .. Len(slabs') = ids
  BY <1>5, <1>13, ListsType DEF IInv, Changed
<1>15. PICK list \in [ids -> AllLists] : list = ListsOf(slabs)
  BY <1>13, ListsType DEF IInv
<1>16. PICK list2 \in [ids -> AllLists] : list2 = ListsOf(slabs')
  BY <1>5, <1>14, ListsType
<1>17. /\ prev \in [ids -> Nat] /\ next \in [ids -> Nat] /\ Chained(ids, list, Heads, prev, next)
  BY <1>13, <1>15 DEF IInv, Links
<1>18. list[s] = ListOf(x) /\ list2[s] = ListOf(y) /\ \A t \in ids : t # s => list2[t] = list[t]
  BY <1>2, <1>5, <1>11, <1>13, <1>14, <1>15, <1>16 DEF ListsOf, Changed
<1>19. /\ <<idx, "avail">> \in AllLists /\ <<idx, "used">> \in AllLists
       /\ <<idx, "avail">> # <<idx, "used">>
  BY <1>10 DEF AllLists
<1>20. /\ Heads \in [AllLists -> Nat] /\ Heads[<<idx, "avail">>] = avail_slab[idx]
       /\ Heads[<<idx, "used">>] = used_slab[idx]
  BY <1>10, HeadsType DEF IInv
<1>21. /\ avail_slab \in [Classes -> Nat] /\ used_slab \in [Classes -> Nat] /\ s \in Nat
  BY <1>14 DEF IInv, Links
<1>22. (1 .. Len(slabs))' = ids /\ ListsOf(slabs)' = list2
  <2>1. 1 .. Len(slabs') = ids /\ ListsOf(slabs') = list2
    BY <1>14, <1>16
  <2> QED BY <2>1 DEF ListsOf
<1>25. /\ Grown(slabs, slabs') /\ Len(slabs') = Len(slabs)
       /\ heap_size' = heap_size /\ held' = Restrict(held, DOMAIN held \ {b})
  <2>1. Len(slabs) \in Nat
    BY DEF IInv, Sound
  <2>2. Grown(slabs, slabs') /\ Len(slabs') = Len(slabs)
    BY <1>5, <2>1 DEF Grown, Changed
  <2> QED BY <1>6, <2>2 DEF free
<1>23. CASE x.unit_count = 0
  <2>1. /\ avail_slab' = [avail_slab EXCEPT ![idx] = s]
        /\ used_slab' = [used_slab EXCEPT ![idx] = IF @ = s THEN next[s] ELSE @]
        /\ prev' = MovedPrev(s, avail_slab[idx], prev, next)
        /\ next' = MovedNext(s, avail_slab[idx], prev, next)
    BY <1>1, <1>2, <1>10, <1>23 DEF free, GetsBlocks
  <2>2. avail_slab' \in [Classes -> Nat] /\ used_slab' \in [Classes -> Nat]
    BY <1>10, <1>14, <1>17, <1>21, <2>1
  <2>3. /\ Heads' \in [AllLists -> Nat] /\ Heads'[<<idx, "avail">>] = s
        /\ Heads'[<<idx, "used">>] = IF used_slab[idx] = s THEN next[s] ELSE used_slab[idx]
        /\ \A l \in AllLists : l # <<idx, "avail">> /\ l # <<idx, "used">> => Heads'[l] = Heads[l]
    BY <1>10, <1>21, <2>1, <2>2 DEF Heads, AllLists
  <2>4. list[s] = <<idx, "used">> /\ list2[s] = <<idx, "avail">>
    BY <1>3, <1>8, <1>12, <1>18, <1>23 DEF ListOf
  <2>5. Moved(ids, list, Heads, next, s, <<idx, "avail">>, list2, Heads')
    BY <1>14, <1>17, <1>18, <1>19, <1>20, <2>3, <2>4 DEF Moved
  <2>6. /\ Chained(ids, list2, Heads', MovedPrev(s, Heads[<<idx, "avail">>], prev, next),
                   MovedNext(s, Heads[<<idx, "avail">>], prev, next))
        /\ MovedPrev(s, Heads[<<idx, "avail">>], prev, next) \in [ids -> Nat]
        /\ MovedNext(s, Heads[<<idx, "avail">>], prev, next) \in [ids -> Nat]
    BY <1>14, <1>17, <1>20, <2>5, MoveChained
  <2>7. Chained(ids, list2, Heads', prev', next') /\ prev' \in [ids -> Nat] /\ next' \in [ids -> Nat]
    BY <1>20, <2>1, <2>6
  <2>8. Links'
    BY <1>22, <2>2, <2>7 DEF Links
  <2> QED BY <1>7, <1>25, <2>8 DEF IInv
<1>24. CASE x.unit_count # 0
  <2>1. avail_slab' = avail_slab /\ used_slab' = used_slab /\ prev' = prev /\ next' = next
    BY <1>1, <1>2, <1>24 DEF free, GetsBlocks
  <2>2. Heads' = Heads
    BY <2>1 DEF Heads
  <2>3. list2 = list
    <3>1. ListOf(x) = ListOf(y)
      BY <1>3, <1>8, <1>12, <1>24 DEF ListOf
    <3> QED BY <1>18, <3>1
  <2>4. Links'
    BY <1>17, <1>21, <1>22, <2>1, <2>2, <2>3 DEF Links
  <2> QED BY <1>7, <1>25, <2>4 DEF IInv
<1> QED BY <1>23, <1>24

\* In the beginning there is no slab.
LEMMA InitOK == Init => IInv
<1> SUFFICES ASSUME Init PROVE IInv
  OBVIOUS
<1>1. slabs = <<>> /\ prev = <<>> /\ next = <<>> /\ held = <<>> /\ Len(slabs) = 0 /\ 1 .. Len(slabs) = {}
  BY DEF Init
<1>2. DOMAIN held = {}
  BY <1>1
<1>3. Sound(slabs, ufree_start, held)
  BY <1>1, <1>2 DEF Sound, Placed
<1>4. HeapOK
  BY DEF Init, HeapOK
<1>5. avail_slab \in [Classes -> Nat] /\ used_slab \in [Classes -> Nat]
      /\ \A l \in AllLists : Heads[l] = Nil
  BY DEF Init, Heads, AllLists, Nil
<1>6. prev \in [1 .. Len(slabs) -> Nat] /\ next \in [1 .. Len(slabs) -> Nat]
  BY <1>1
<1>7. Chained(1 .. Len(slabs), ListsOf(slabs), Heads, prev, next)
  BY <1>1, <1>5 DEF Chained, NoRing
<1> QED BY <1>3, <1>4, <1>5, <1>6, <1>7 DEF IInv, Links

\* The inductive invariant holds throughout.
THEOREM Invariance == SizesAgree => (Spec => []IInv)
<1> SUFFICES ASSUME SizesAgree PROVE Spec => []IInv
  OBVIOUS
<1>1. ASSUME IInv, [Next]_vars PROVE IInv'
  <2>1. ASSUME NEW size \in Sizes, malloc(size) PROVE IInv'
    BY <1>1, <2>1, MallocKeeps
  <2>2. ASSUME NEW b \in DOMAIN held, free(b) PROVE IInv'
    BY <1>1, <2>2, FreeKeeps
  <2>3. CASE UNCHANGED vars
    BY <1>1, <2>3 DEF vars, IInv, Sound, Links, HeapOK, Heads
  <2> QED BY <1>1, <2>1, <2>2, <2>3 DEF Next
<1> QED BY <1>1, InitOK, PTL DEF Spec

\* The invariant covers the types.
LEMMA InTypes == IInv => TypeOK
<1> SUFFICES ASSUME IInv PROVE TypeOK
  OBVIOUS
<1>1. slabs \in Seq(Slab)
  BY DEF IInv, Sound
<1>2. /\ prev \in [Ids -> Nat] /\ next \in [Ids -> Nat]
      /\ \A s \in Ids : prev[s] \in Ids \cup {Nil} /\ next[s] \in Ids \cup {Nil}
  BY DEF IInv, Links, Chained, Ids
<1>3. prev \in [Ids -> Ids \cup {Nil}] /\ next \in [Ids -> Ids \cup {Nil}]
  BY <1>2
<1>4. /\ avail_slab \in [Classes -> Nat] /\ used_slab \in [Classes -> Nat]
      /\ \A c \in Classes : avail_slab[c] \in Ids \cup {Nil} /\ used_slab[c] \in Ids \cup {Nil}
  <2>1. \A l \in AllLists : Heads[l] \in Ids \cup {Nil}
    BY DEF IInv, Links, Chained, Ids
  <2> QED BY <2>1, HeadsType DEF IInv, Links
<1>5. avail_slab \in [Classes -> Ids \cup {Nil}] /\ used_slab \in [Classes -> Ids \cup {Nil}]
  BY <1>4
<1>6. ASSUME NEW b \in DOMAIN held PROVE b \in Blocks /\ held[b] \in Sizes
  <2>1. InSlab(slabs, held, b)
    BY DEF IInv, Sound
  <2>2. PICK s \in Ids : s = b[1]
    BY <2>1 DEF InSlab, Ids
  <2>3. PICK m \in Nat : m = slab_max_count(slabs[s].idx)
    BY <2>2, ServedFacts DEF IInv, Sound, WellMade, Ids
  <2>4. b = <<s, b[2]>> /\ b[2] \in 0 .. m - 1
    BY <2>1, <2>2, <2>3 DEF InSlab
  <2> QED BY <2>1, <2>2, <2>3, <2>4 DEF InSlab, Blocks
<1>7. ufree_start <= heap_size
  BY DEF IInv, HeapOK
<1> QED BY <1>1, <1>3, <1>5, <1>6, <1>7 DEF TypeOK

\* The variables of Malloc have their types.
THEOREM TypeCorrect == SizesAgree => (Spec => []TypeOK)
BY Invariance, InTypes, PTL

\* Every slab is on the list of its class and count that malloc and free move it
\* to, and nowhere else: the invariant says it of neighbours, and of no ring.
THEOREM EverySlabListed == SizesAgree => (Spec => []SlabsListed)
<1>1. ASSUME IInv PROVE SlabsListed
  <2>1. PICK ids : ids = Ids
    OBVIOUS
  <2>2. PICK list : list = ListsOf(slabs)
    OBVIOUS
  <2>3. Chained(ids, list, Heads, prev, next)
    BY <1>1, <2>1, <2>2 DEF IInv, Links, Ids
  <2>4. /\ slabs \in Seq(Slab) /\ \A s \in ids : slabs[s] \in Slab
        /\ \A s \in ids : s # Nil
    BY <1>1, <2>1 DEF IInv, Sound, WellMade, Ids, Nil
  <2>5. \A s \in ids : list[s] = ListOf(slabs[s])
    BY <2>1, <2>2 DEF ListsOf, Ids
  <2>6. /\ \A l \in AllLists : Heads[l] = IF l[2] = "avail" THEN avail_slab[l[1]] ELSE used_slab[l[1]]
        /\ \A s \in ids : ListOf(slabs[s]) \in AllLists
    BY <2>4 DEF Heads, AllLists, ListOf, Slab
  <2>7. ASSUME NEW s \in ids PROVE Heads[ListOf(slabs[s])] = HeadFor(s)
    BY <2>6 DEF ListOf, HeadFor
  <2>8. ASSUME NEW s \in ids, NEW t \in ids, list[s] = list[t] PROVE SameList(s, t)
    BY <2>5, <2>8 DEF ListOf, SameList
  <2>9. ASSUME NEW s \in ids
        PROVE  IF prev[s] = Nil THEN HeadFor(s) = s
               ELSE SameList(s, prev[s]) /\ next[prev[s]] = s
    BY <2>3, <2>5, <2>7, <2>8 DEF Chained
  <2>10. ASSUME NEW c \in Classes
         PROVE  /\ \A s \in {avail_slab[c], used_slab[c]} \ {Nil} :
                     slabs[s].idx = c /\ prev[s] = Nil
                /\ avail_slab[c] # Nil => slabs[avail_slab[c]].unit_count > 0
                /\ used_slab[c] # Nil => slabs[used_slab[c]].unit_count = 0
    <3>1. /\ <<c, "avail">> \in AllLists /\ Heads[<<c, "avail">>] = avail_slab[c]
          /\ <<c, "used">> \in AllLists /\ Heads[<<c, "used">>] = used_slab[c]
      BY <2>6 DEF AllLists
    <3>2. ASSUME avail_slab[c] # Nil
          PROVE  /\ slabs[avail_slab[c]].idx = c /\ prev[avail_slab[c]] = Nil
                 /\ slabs[avail_slab[c]].unit_count > 0
      <4>1. PICK s \in ids : s = avail_slab[c] /\ list[s] = <<c, "avail">> /\ prev[s] = Nil
        BY <2>3, <3>1, <3>2 DEF Chained
      <4>2. ListOf(slabs[s]) = <<c, "avail">>
        BY <2>5, <4>1
      <4> QED BY <4>1, <4>2 DEF ListOf
    <3>3. ASSUME used_slab[c] # Nil
          PROVE  /\ slabs[used_slab[c]].idx = c /\ prev[used_slab[c]] = Nil
                 /\ slabs[used_slab[c]].unit_count = 0
      <4>1. PICK s \in ids : s = used_slab[c] /\ list[s] = <<c, "used">> /\ prev[s] = Nil
        BY <2>3, <3>1, <3>3 DEF Chained
      <4>2. ListOf(slabs[s]) = <<c, "used">> /\ slabs[s].unit_count \in Nat
        BY <2>4, <2>5, <4>1 DEF Slab
      <4>3. ~ (slabs[s].unit_count > 0) /\ slabs[s].idx = c
        BY <4>2 DEF ListOf
      <4> QED BY <4>1, <4>2, <4>3
    <3> QED BY <3>2, <3>3
  <2>11. \A S \in (SUBSET ids) \ {{}} : \E s \in S : prev[s] \notin S
    BY <2>3 DEF Chained, NoRing
  <2>12. \A s \in ids : next[s] # Nil => prev[next[s]] = s
    BY <2>3 DEF Chained
  <2> QED BY <2>1, <2>9, <2>10, <2>11, <2>12 DEF SlabsListed
<1> QED BY <1>1, Invariance, PTL

\* The count of a slab never promises a block that is not free, so alloc_block
\* finds one in the slab it is given.
THEOREM CountsAreBacked == SizesAgree => (Spec => []CountIsBacked)
<1>1. IInv => CountIsBacked
  BY DEF IInv, Sound, WellMade, CountIsBacked, Ids
<1> QED BY <1>1, Invariance, PTL

\* A slab on the list of those without blocks to give holds a block in use, though
\* free_block forgets to count what it frees into a slab that has others.
THEOREM SlabsNeverIdle == SizesAgree => (Spec => []NoIdleSlab)
<1>1. IInv => NoIdleSlab
  BY DEF IInv, Sound, NoIdleSlab, Ids
<1> QED BY <1>1, Invariance, PTL

-----------------------------------------------------------------------------
(* Blocks are their owners' alone.                                         *)

\* Where a block begins.
Spot(x, n) == x.page * PGSIZE + HEADER + n * (x.unit_size + WORD) + WORD

\* Multiplication and order, for the distance of blocks in a slab.
LEMMA MulOrder ==
    ASSUME NEW n \in Nat, NEW m \in Nat, NEW k \in Nat
    PROVE  /\ n * k \in Nat
           /\ n <= m => n * k <= m * k
           /\ n < m => n * k + k <= m * k
<1>1. ASSUME NEW d \in Nat PROVE (n + d) * k = n * k + d * k /\ n * k \in Nat /\ d * k \in Nat
  OBVIOUS
<1>2. CASE n <= m
  <2>1. PICK d \in Nat : m = n + d
    <3>1. m - n \in Nat /\ m = n + (m - n)
      BY <1>2
    <3> QED BY <3>1
  <2>2. m * k = n * k + d * k /\ n * k \in Nat /\ d * k \in Nat
    BY <1>1, <2>1
  <2>3. n < m => d * k >= k
    <3>1. n < m => \E e \in Nat : d = e + 1
      <4>1. n < m => d - 1 \in Nat /\ d = (d - 1) + 1
        BY <2>1
      <4> QED BY <4>1
    <3>2. \A e \in Nat : (e + 1) * k = e * k + k /\ e * k \in Nat
      OBVIOUS
    <3> QED BY <3>1, <3>2
  <2> QED BY <2>2, <2>3
<1>3. CASE m < n
  BY <1>1, <1>3
<1> QED BY <1>2, <1>3

\* A block lies between the header and the end of its slab.
Inside(x, n) ==
    /\ Spot(x, n) \in Nat /\ x.page * PGSIZE \in Nat
    /\ x.page * PGSIZE + HEADER + WORD <= Spot(x, n)
    /\ Spot(x, n) <= PageEnd(x) * PGSIZE /\ PageEnd(x) \in Nat
    /\ \A v \in Sizes : get_used_slab_idx(v) = x.idx => Spot(x, n) + v <= PageEnd(x) * PGSIZE

\* No block of size 0.
LEMMA SizesPositive == Sizes \subseteq Nat \ {0}
BY SizesAssumption

\* Blocks are inside their slab.
LEMMA BlockInside ==
    ASSUME NEW x, WellMade(x), NEW n \in Nat, n < slab_max_count(x.idx)
    PROVE  Inside(x, n)
<1>1. x.idx \in Served /\ x.unit_size = UNIT_SIZE_SLAB(x.idx) /\ x.page \in Nat
  BY DEF WellMade, Slab
<1>2. PICK k \in Nat : k = x.unit_size + WORD /\ k = Stride(x.idx)
  <2>1. PICK u \in Nat : u = UNIT_SIZE_SLAB(x.idx)
    BY <1>1, ServedFacts
  <2>2. u + WORD \in Nat
    BY <2>1, LayoutAssumption
  <2> QED BY <1>1, <2>1, <2>2 DEF Stride
<1>3. PICK m \in Nat \ {0} : m = slab_max_count(x.idx)
  BY <1>1, ServedFacts
<1>4. PICK g \in Nat : g = slab_num_page(x.idx)
  BY <1>1, SlabFacts
<1>5. PICK a \in Nat : a = n * k
  BY <1>2, MulOrder
<1>6. PICK l \in Nat : l = (m - 1) * k /\ a <= l
  <2>1. m - 1 \in Nat /\ n <= m - 1
    BY <1>3
  <2> QED BY <1>2, <1>5, <2>1, MulOrder
<1>7. Spot(x, n) = x.page * PGSIZE + HEADER + a + WORD
  BY <1>2, <1>5 DEF Spot
<1>8. PageEnd(x) = x.page + g
  BY <1>4 DEF PageEnd
<1>9. ASSUME NEW v \in Sizes, get_used_slab_idx(v) = x.idx
      PROVE  Spot(x, n) + v <= PageEnd(x) * PGSIZE
  <2>1. Serves(x.idx, v)
    BY <1>9, SizesServed
  <2>2. HEADER + l + WORD + v <= g * PGSIZE
    BY <1>2, <1>3, <1>4, <1>6, <2>1 DEF Serves
  <2>3. v \in Nat
    BY SizesPositive
  <2> QED BY <1>1, <1>6, <1>7, <1>8, <2>2, <2>3, LayoutAssumption
<1>10. PICK v \in Sizes : get_used_slab_idx(v) = x.idx
  BY <1>1 DEF Served
<1>11. v \in Nat /\ Spot(x, n) + v <= PageEnd(x) * PGSIZE
  BY <1>9, <1>10, SizesPositive
<1>12. /\ Spot(x, n) \in Nat /\ x.page * PGSIZE \in Nat /\ PageEnd(x) \in Nat
       /\ x.page * PGSIZE + HEADER + WORD <= Spot(x, n)
  BY <1>1, <1>7, <1>8, LayoutAssumption
<1>13. Spot(x, n) <= PageEnd(x) * PGSIZE
  <2>1. PICK e \in Nat : e = PageEnd(x) * PGSIZE
    BY <1>12, LayoutAssumption
  <2> QED BY <1>11, <1>12, <2>1
<1> QED BY <1>9, <1>12, <1>13 DEF Inside

\* Two blocks of a slab, and the word in front of the second.
LEMMA BlockOrder ==
    ASSUME NEW x, WellMade(x), NEW n \in Nat, NEW m \in Nat, n < m, m < slab_max_count(x.idx)
    PROVE  /\ Spot(x, n) + WORD <= Spot(x, m)
           /\ \A v \in Sizes : get_used_slab_idx(v) = x.idx => Spot(x, n) + v + WORD <= Spot(x, m)
<1>1. x.idx \in Served /\ x.unit_size = UNIT_SIZE_SLAB(x.idx) /\ x.page \in Nat
  BY DEF WellMade, Slab
<1>2. PICK u \in Nat : u = x.unit_size
  BY <1>1, ServedFacts
<1>3. PICK k \in Nat : k = u + WORD
  BY <1>2, LayoutAssumption
<1>4. PICK a \in Nat : a = n * k
  BY MulOrder
<1>5. PICK c \in Nat : c = m * k /\ a + k <= c
  BY <1>4, MulOrder
<1>6. Spot(x, n) = x.page * PGSIZE + HEADER + a + WORD /\ Spot(x, m) = x.page * PGSIZE + HEADER + c + WORD
  BY <1>2, <1>3, <1>4, <1>5 DEF Spot
<1>7. Spot(x, n) + WORD <= Spot(x, m)
  BY <1>1, <1>3, <1>5, <1>6, LayoutAssumption
<1>8. ASSUME NEW v \in Sizes, get_used_slab_idx(v) = x.idx
      PROVE  Spot(x, n) + v + WORD <= Spot(x, m)
  <2>1. PICK i \in Nat : i = slab_max_count(x.idx)
    BY <1>1, ServedFacts
  <2>2. i > 1
    BY <2>1
  <2>3. v <= u
    BY <1>1, <1>2, <1>8, <2>1, <2>2, SizesServed DEF Serves
  <2>4. v \in Nat
    BY SizesPositive
  <2> QED BY <1>1, <1>3, <1>5, <1>6, <2>3, <2>4, LayoutAssumption
<1> QED BY <1>7, <1>8

\* The block <<s, n>>, or any pair, in slabs sl.
At(sl, b) == Spot(sl[b[1]], b[2])

\* What H takes for held and own.
InUse(sl, h) == {<<At(sl, b), h[b]>> : b \in DOMAIN h}

BlocksIn(sl) == UNION {{<<s, n>> : n \in 0 .. slab_max_count(sl[s].idx) - 1} : s \in 1 .. Len(sl)}

Kept(sl) ==
    UNION {{<<sl[s].page * PGSIZE, HEADER>>} \cup
           {<<At(sl, b) - WORD, WORD>> : b \in {x \in BlocksIn(sl) : x[1] = s}} : s \in 1 .. Len(sl)}

\* Heap's held.
LEMMA MapsHeld == {<<Address(b), held[b]>> : b \in DOMAIN held} = InUse(slabs, held)
BY DEF InUse, Address, At, Spot

\* Heap's own.
LEMMA MapsOwn == UNION {Own(s) : s \in Ids} = Kept(slabs)
BY DEF Own, Ids, Blocks, Address, Kept, BlocksIn, At, Spot

\* A block n of slab s, and the regions in front of blocks.
Word(sl, s, n) == <<Spot(sl[s], n) - WORD, WORD>>

\* What is kept: headers and words.
LEMMA KeptIs ==
    ASSUME NEW sl, NEW uf, NEW h, Sound(sl, uf, h)
    PROVE  \A o : o \in Kept(sl) <=>
             \E s \in 1 .. Len(sl) :
                \/ o = <<sl[s].page * PGSIZE, HEADER>>
                \/ \E n \in Nat : n < slab_max_count(sl[s].idx) /\ o = Word(sl, s, n)
<1> DEFINE Of(s) == {<<s, n>> : n \in 0 .. slab_max_count(sl[s].idx) - 1}
           Words(s) == {<<At(sl, b) - WORD, WORD>> : b \in {x \in BlocksIn(sl) : x[1] = s}}
<1>1. ASSUME NEW s \in 1 .. Len(sl)
      PROVE  \A b : b \in BlocksIn(sl) /\ b[1] = s <=>
                \E n \in Nat : n < slab_max_count(sl[s].idx) /\ b = <<s, n>>
  <2>1. PICK m \in Nat : m = slab_max_count(sl[s].idx)
    BY ServedFacts DEF Sound, WellMade
  <2>2. \A b : b \in Of(s) <=> \E n \in Nat : n < slab_max_count(sl[s].idx) /\ b = <<s, n>>
    BY <2>1
  <2>3. \A b : b \in BlocksIn(sl) <=> \E t \in 1 .. Len(sl) : b \in Of(t)
    BY DEF BlocksIn
  <2>4. \A t : \A b \in Of(t) : b[1] = t
    OBVIOUS
  <2> HIDE DEF Of
  <2> QED BY <2>2, <2>3, <2>4
<1>2. ASSUME NEW s \in 1 .. Len(sl)
      PROVE  \A o : o \in Words(s) <=>
                \E n \in Nat : n < slab_max_count(sl[s].idx) /\ o = Word(sl, s, n)
  <2> DEFINE W(b) == <<At(sl, b) - WORD, WORD>>
  <2>1. \A n : W(<<s, n>>) = Word(sl, s, n)
    BY DEF At, Word
  <2>2. \A o : o \in Words(s) <=> \E b : b \in BlocksIn(sl) /\ b[1] = s /\ o = W(b)
    OBVIOUS
  <2>3. \A b : b \in BlocksIn(sl) /\ b[1] = s <=>
                \E n \in Nat : n < slab_max_count(sl[s].idx) /\ b = <<s, n>>
    BY <1>1
  <2> HIDE DEF Words, W
  <2>4. ASSUME NEW o, o \in Words(s)
        PROVE  \E n \in Nat : n < slab_max_count(sl[s].idx) /\ o = Word(sl, s, n)
    <3>1. PICK b : b \in BlocksIn(sl) /\ b[1] = s /\ o = W(b)
      BY <2>2, <2>4
    <3>2. PICK n \in Nat : n < slab_max_count(sl[s].idx) /\ b = <<s, n>>
      BY <2>3, <3>1
    <3> QED BY <2>1, <3>1, <3>2
  <2>5. ASSUME NEW n \in Nat, n < slab_max_count(sl[s].idx)
        PROVE  Word(sl, s, n) \in Words(s)
    <3>1. PICK b : b = <<s, n>>
      OBVIOUS
    <3>2. b \in BlocksIn(sl) /\ b[1] = s
      BY <2>3, <2>5, <3>1
    <3>3. Word(sl, s, n) = W(b)
      BY <2>1, <3>1
    <3> QED BY <2>2, <3>2, <3>3
  <2> QED BY <2>4, <2>5
<1>3. \A o : o \in Kept(sl) <=>
        \E s \in 1 .. Len(sl) : o = <<sl[s].page * PGSIZE, HEADER>> \/ o \in Words(s)
  BY DEF Kept
<1> HIDE DEF Words
<1> QED BY <1>2, <1>3

\* The pages of one slab end where those of the next begin, or before.
LEMMA PageOrder ==
    ASSUME NEW sl, NEW uf \in Nat, NEW h, Sound(sl, uf, h), NEW s \in 1 .. Len(sl)
    PROVE  /\ PageEnd(sl[s]) * PGSIZE \in Nat /\ PageEnd(sl[s]) * PGSIZE <= uf * PGSIZE
           /\ sl[s].page * PGSIZE \in Nat
           /\ sl[s].page * PGSIZE + HEADER <= PageEnd(sl[s]) * PGSIZE
           /\ \A t \in 1 .. Len(sl) : s < t => PageEnd(sl[s]) * PGSIZE <= sl[t].page * PGSIZE
<1>1. \A t \in 1 .. Len(sl) : WellMade(sl[t])
  BY DEF Sound
<1>2. \A t \in 1 .. Len(sl) : sl[t].page \in Nat
  BY <1>1, SlabFacts
<1>3. PageEnd(sl[s]) \in Nat /\ slab_num_page(sl[s].idx) \in Nat \ {0}
      /\ PageEnd(sl[s]) = sl[s].page + slab_num_page(sl[s].idx)
  BY <1>1, SlabFacts DEF PageEnd
<1>4. PageEnd(sl[s]) <= uf /\ \A t \in 1 .. Len(sl) : s < t => PageEnd(sl[s]) <= sl[t].page
  BY DEF Sound, Placed
<1>5. PICK e \in Nat : e = PageEnd(sl[s])
  BY <1>3
<1>6. PICK a \in Nat : a = sl[s].page /\ a < e
  BY <1>2, <1>3, <1>5
<1>7. /\ e * PGSIZE \in Nat /\ e * PGSIZE <= uf * PGSIZE /\ a * PGSIZE \in Nat
      /\ a * PGSIZE + HEADER <= e * PGSIZE
  BY <1>4, <1>5, <1>6, LayoutAssumption
<1>8. ASSUME NEW t \in 1 .. Len(sl), s < t PROVE e * PGSIZE <= sl[t].page * PGSIZE
  <2>1. PICK c \in Nat : c = sl[t].page /\ e <= c
    BY <1>2, <1>4, <1>5, <1>8
  <2> QED BY <2>1, LayoutAssumption
<1> QED BY <1>5, <1>6, <1>7, <1>8

IsBlock(sl, s, n) == s \in 1 .. Len(sl) /\ n \in Nat /\ n < slab_max_count(sl[s].idx)

Fits(sl, s, v) == v \in Sizes /\ get_used_slab_idx(v) = sl[s].idx

\* A block and the word in front of any.
LEMMA WordApart ==
    ASSUME NEW sl, NEW uf \in Nat, NEW h, Sound(sl, uf, h),
           NEW s, NEW n, IsBlock(sl, s, n), NEW v, Fits(sl, s, v),
           NEW t, NEW m, IsBlock(sl, t, m)
    PROVE  \/ Spot(sl[t], m) <= Spot(sl[s], n)
           \/ Spot(sl[s], n) + v + WORD <= Spot(sl[t], m)
<1>1. s \in 1 .. Len(sl) /\ t \in 1 .. Len(sl) /\ n \in Nat /\ m \in Nat
      /\ WellMade(sl[s]) /\ WellMade(sl[t])
      /\ n < slab_max_count(sl[s].idx) /\ m < slab_max_count(sl[t].idx)
  BY DEF IsBlock, Sound
<1>2. v \in Sizes /\ v \in Nat /\ get_used_slab_idx(v) = sl[s].idx
  BY SizesPositive DEF Fits
<1>3. Inside(sl[s], n) /\ Inside(sl[t], m)
  BY <1>1, BlockInside
<1>4. Spot(sl[s], n) \in Nat /\ Spot(sl[t], m) \in Nat
  BY <1>3 DEF Inside
<1>5. CASE s = t
  <2>1. CASE m < n
    <3>1. Spot(sl[t], m) + WORD <= Spot(sl[s], n)
      BY <1>1, <1>5, <2>1, BlockOrder
    <3> QED BY <1>4, <3>1, LayoutAssumption
  <2>2. CASE n < m
    BY <1>1, <1>2, <1>5, <2>2, BlockOrder
  <2>3. CASE n = m
    BY <1>4, <1>5, <2>3
  <2> QED BY <1>1, <2>1, <2>2, <2>3
<1>6. CASE s < t
  <2>1. Spot(sl[s], n) + v <= PageEnd(sl[s]) * PGSIZE
    BY <1>2, <1>3 DEF Inside
  <2>2. PageEnd(sl[s]) * PGSIZE <= sl[t].page * PGSIZE
    BY <1>1, <1>6, PageOrder
  <2>3. sl[t].page * PGSIZE + HEADER + WORD <= Spot(sl[t], m)
    BY <1>3 DEF Inside
  <2>4. PageEnd(sl[s]) * PGSIZE \in Nat /\ sl[t].page * PGSIZE \in Nat
    BY <1>1, PageOrder
  <2>5. PICK e \in Nat : e = PageEnd(sl[s]) * PGSIZE
    BY <2>4
  <2>6. PICK a \in Nat : a = sl[t].page * PGSIZE
    BY <2>4
  <2> QED BY <1>2, <1>4, <2>1, <2>2, <2>3, <2>5, <2>6, LayoutAssumption
<1>7. CASE t < s
  <2>1. Spot(sl[t], m) <= PageEnd(sl[t]) * PGSIZE
    BY <1>3 DEF Inside
  <2>2. PageEnd(sl[t]) * PGSIZE <= sl[s].page * PGSIZE
    BY <1>1, <1>7, PageOrder
  <2>3. sl[s].page * PGSIZE + HEADER + WORD <= Spot(sl[s], n)
    BY <1>3 DEF Inside
  <2>4. PageEnd(sl[t]) * PGSIZE \in Nat /\ sl[s].page * PGSIZE \in Nat
    BY <1>1, PageOrder
  <2>5. PICK e \in Nat : e = PageEnd(sl[t]) * PGSIZE
    BY <2>4
  <2>6. PICK a \in Nat : a = sl[s].page * PGSIZE
    BY <2>4
  <2> QED BY <1>4, <2>1, <2>2, <2>3, <2>5, <2>6, LayoutAssumption
<1> QED BY <1>1, <1>5, <1>6, <1>7

\* A block and the header of any slab.
LEMMA HeaderApart ==
    ASSUME NEW sl, NEW uf \in Nat, NEW h, Sound(sl, uf, h),
           NEW s, NEW n, IsBlock(sl, s, n), NEW v, Fits(sl, s, v), NEW t \in 1 .. Len(sl)
    PROVE  \/ sl[t].page * PGSIZE + HEADER <= Spot(sl[s], n)
           \/ Spot(sl[s], n) + v <= sl[t].page * PGSIZE
<1>1. s \in 1 .. Len(sl) /\ n \in Nat /\ WellMade(sl[s]) /\ n < slab_max_count(sl[s].idx)
  BY DEF IsBlock, Sound
<1>2. v \in Nat /\ Inside(sl[s], n) /\ Spot(sl[s], n) + v <= PageEnd(sl[s]) * PGSIZE
  BY <1>1, BlockInside, SizesPositive DEF Fits, Inside
<1>3. /\ Spot(sl[s], n) \in Nat /\ sl[s].page * PGSIZE \in Nat
      /\ sl[s].page * PGSIZE + HEADER + WORD <= Spot(sl[s], n)
  BY <1>2 DEF Inside
<1>4. PICK a \in Nat : a = sl[s].page * PGSIZE
  BY <1>3
<1>5. PICK c \in Nat : c = sl[t].page * PGSIZE
  BY PageOrder
<1>6. CASE s = t
  BY <1>3, <1>4, <1>6, LayoutAssumption
<1>7. CASE s < t
  <2>1. PageEnd(sl[s]) * PGSIZE <= sl[t].page * PGSIZE /\ PageEnd(sl[s]) * PGSIZE \in Nat
    BY <1>1, <1>7, PageOrder
  <2>2. PICK e \in Nat : e = PageEnd(sl[s]) * PGSIZE
    BY <2>1
  <2> QED BY <1>2, <1>3, <1>5, <2>1, <2>2
<1>8. CASE t < s
  <2>1. PageEnd(sl[t]) * PGSIZE <= sl[s].page * PGSIZE /\ PageEnd(sl[t]) * PGSIZE \in Nat
        /\ sl[t].page * PGSIZE + HEADER <= PageEnd(sl[t]) * PGSIZE
    BY <1>1, <1>8, PageOrder
  <2>2. PICK e \in Nat : e = PageEnd(sl[t]) * PGSIZE
    BY <2>1
  <2>3. PICK w \in Nat : w = Spot(sl[s], n)
    BY <1>3
  <2>4. c + HEADER <= e /\ e <= a /\ a + HEADER + WORD <= w
    BY <1>3, <1>4, <1>5, <2>1, <2>2, <2>3
  <2>5. c + HEADER <= w
    BY <2>4, LayoutAssumption
  <2> QED BY <1>5, <2>3, <2>5
<1> QED BY <1>1, <1>6, <1>7, <1>8

\* Different blocks begin at different addresses.
LEMMA SpotsDiffer ==
    ASSUME NEW sl, NEW uf \in Nat, NEW h, Sound(sl, uf, h),
           NEW s, NEW n, IsBlock(sl, s, n), NEW t, NEW m, IsBlock(sl, t, m),
           Spot(sl[s], n) = Spot(sl[t], m)
    PROVE  s = t /\ n = m
<1>1. \A x, i : IsBlock(sl, x, i) => x \in 1 .. Len(sl) /\ i \in Nat
                  /\ WellMade(sl[x]) /\ i < slab_max_count(sl[x].idx)
  BY DEF IsBlock, Sound
<1>2. ASSUME NEW x, NEW i, IsBlock(sl, x, i), NEW y, NEW j, IsBlock(sl, y, j), x < y
      PROVE  Spot(sl[x], i) # Spot(sl[y], j)
  <2>1. Inside(sl[x], i) /\ Inside(sl[y], j)
    BY <1>1, <1>2, BlockInside
  <2>2. Spot(sl[x], i) <= PageEnd(sl[x]) * PGSIZE /\ Spot(sl[x], i) \in Nat
        /\ sl[y].page * PGSIZE + HEADER + WORD <= Spot(sl[y], j)
    BY <2>1 DEF Inside
  <2>3. PageEnd(sl[x]) * PGSIZE <= sl[y].page * PGSIZE
        /\ PageEnd(sl[x]) * PGSIZE \in Nat /\ sl[y].page * PGSIZE \in Nat
    BY <1>1, <1>2, PageOrder
  <2>4. PICK e \in Nat : e = PageEnd(sl[x]) * PGSIZE
    BY <2>3
  <2>5. PICK a \in Nat : a = sl[y].page * PGSIZE
    BY <2>3
  <2> QED BY <2>2, <2>3, <2>4, <2>5, LayoutAssumption
<1>3. ASSUME NEW x, NEW i, NEW j, IsBlock(sl, x, i), IsBlock(sl, x, j), i < j
      PROVE  Spot(sl[x], i) # Spot(sl[x], j)
  <2>1. Spot(sl[x], i) + WORD <= Spot(sl[x], j)
    BY <1>1, <1>3, BlockOrder
  <2>2. Spot(sl[x], i) \in Nat /\ Spot(sl[x], j) \in Nat
    BY <1>1, <1>3, BlockInside DEF Inside
  <2> QED BY <2>1, <2>2, LayoutAssumption
<1>4. s \in Nat /\ t \in Nat /\ n \in Nat /\ m \in Nat
  BY <1>1
<1>5. s = t
  BY <1>2, <1>4
<1> QED BY <1>3, <1>4, <1>5

\* What H asks of a block in use, with heap pages up to hs.
LEMMA BlockAlone ==
    ASSUME NEW sl, NEW uf \in Nat, NEW h, Sound(sl, uf, h), NEW hs \in Nat, uf <= hs,
           NEW v \in InUse(sl, h)
    PROVE  /\ v[1] + v[2] <= hs * PGSIZE
           /\ \A o \in (InUse(sl, h) \ {v}) \cup Kept(sl) : H!Disjoint(v, o)
<1>1. \A b \in DOMAIN h : /\ IsBlock(sl, b[1], b[2]) /\ Fits(sl, b[1], h[b])
                          /\ b = <<b[1], b[2]>> /\ At(sl, b) = Spot(sl[b[1]], b[2])
  BY DEF Sound, InSlab, IsBlock, Fits, At
<1>2. PICK b \in DOMAIN h : v = <<At(sl, b), h[b]>>
  BY DEF InUse
<1>3. PICK s, n : s = b[1] /\ n = b[2]
  OBVIOUS
<1>4. PICK z : z = h[b]
  OBVIOUS
<1>5. /\ IsBlock(sl, s, n) /\ Fits(sl, s, z) /\ z \in Nat
      /\ v[1] = Spot(sl[s], n) /\ v[2] = z
  BY <1>1, <1>2, <1>3, <1>4, SizesPositive DEF Fits
<1>6. s \in 1 .. Len(sl) /\ WellMade(sl[s]) /\ Inside(sl[s], n)
  BY <1>5, BlockInside DEF IsBlock, Sound
<1>7. PICK a \in Nat : a = Spot(sl[s], n)
  BY <1>6 DEF Inside
<1>8. v[1] + v[2] <= hs * PGSIZE
  <2>1. a + z <= PageEnd(sl[s]) * PGSIZE
    BY <1>5, <1>6, <1>7 DEF Fits, Inside
  <2>2. PageEnd(sl[s]) * PGSIZE <= uf * PGSIZE /\ PageEnd(sl[s]) * PGSIZE \in Nat
    BY <1>6, PageOrder
  <2>3. PICK e \in Nat : e = PageEnd(sl[s]) * PGSIZE
    BY <2>2
  <2> QED BY <1>5, <1>7, <2>1, <2>2, <2>3, LayoutAssumption
<1>9. ASSUME NEW o \in InUse(sl, h), o # v PROVE H!Disjoint(v, o)
  <2>1. PICK c \in DOMAIN h : o = <<At(sl, c), h[c]>>
    BY <1>9 DEF InUse
  <2>2. PICK t, m : t = c[1] /\ m = c[2]
    OBVIOUS
  <2>3. PICK y : y = h[c]
    OBVIOUS
  <2>4. /\ IsBlock(sl, t, m) /\ Fits(sl, t, y) /\ y \in Nat
        /\ o[1] = Spot(sl[t], m) /\ o[2] = y
    BY <1>1, <2>1, <2>2, <2>3, SizesPositive DEF Fits
  <2>5. PICK d \in Nat : d = Spot(sl[t], m)
    BY <2>4, BlockInside DEF Inside, IsBlock, Sound
  <2>6. a # d
    <3>1. b # c
      BY <1>2, <1>9, <2>1
    <3>2. s # t \/ n # m
      BY <1>1, <1>3, <2>2, <3>1
    <3> QED BY <1>5, <1>7, <2>4, <2>5, <3>2, SpotsDiffer
  <2>7. d <= a \/ a + z + WORD <= d
    BY <1>5, <1>7, <2>4, <2>5, WordApart
  <2>8. a <= d \/ d + y + WORD <= a
    BY <1>5, <1>7, <2>4, <2>5, WordApart
  <2>9. a + z <= d \/ d + y <= a
    BY <1>5, <2>4, <2>6, <2>7, <2>8, LayoutAssumption
  <2> QED BY <1>5, <1>7, <2>4, <2>5, <2>9 DEF H!Disjoint
<1>10. ASSUME NEW o \in Kept(sl) PROVE H!Disjoint(v, o)
  <2>1. PICK t \in 1 .. Len(sl) :
          \/ o = <<sl[t].page * PGSIZE, HEADER>>
          \/ \E m \in Nat : m < slab_max_count(sl[t].idx) /\ o = Word(sl, t, m)
    BY KeptIs
  <2>2. CASE o = <<sl[t].page * PGSIZE, HEADER>>
    <3>1. sl[t].page * PGSIZE + HEADER <= a \/ a + z <= sl[t].page * PGSIZE
      BY <1>5, <1>7, HeaderApart
    <3> QED BY <1>5, <1>7, <2>2, <3>1 DEF H!Disjoint
  <2>3. ASSUME NEW m \in Nat, m < slab_max_count(sl[t].idx), o = Word(sl, t, m)
        PROVE  H!Disjoint(v, o)
    <3>1. IsBlock(sl, t, m)
      BY <2>3 DEF IsBlock
    <3>2. PICK d \in Nat : d = Spot(sl[t], m)
      BY <3>1, BlockInside DEF Inside, IsBlock, Sound
    <3>3. d <= a \/ a + z + WORD <= d
      BY <1>5, <1>7, <3>1, <3>2, WordApart
    <3>4. o[1] = d - WORD /\ o[2] = WORD
      BY <2>3, <3>2 DEF Word
    <3>5. a + z <= d - WORD \/ d - WORD + WORD <= a
      BY <1>5, <3>3, LayoutAssumption
    <3> QED BY <1>5, <1>7, <3>4, <3>5 DEF H!Disjoint
  <2> QED BY <2>1, <2>2, <2>3
<1> QED BY <1>8, <1>9, <1>10

\* Blocks and what is kept stay where they are while slabs are added.
LEMMA GrownStays ==
    ASSUME NEW sl, NEW uf, NEW h, Sound(sl, uf, h), NEW s2, NEW uf2, NEW h2, Sound(s2, uf2, h2),
           Grown(sl, s2)
    PROVE  /\ \A b \in DOMAIN h : At(s2, b) = At(sl, b)
           /\ Kept(sl) \subseteq Kept(s2)
           /\ Len(s2) = Len(sl) => Kept(s2) = Kept(sl)
<1>1. \A s \in 1 .. Len(sl) :
        /\ s \in 1 .. Len(s2) /\ s2[s].idx = sl[s].idx /\ s2[s].page = sl[s].page
        /\ s2[s].unit_size = sl[s].unit_size
  BY DEF Grown, Sound, WellMade
<1>2. \A s \in 1 .. Len(sl) : \A n : Spot(s2[s], n) = Spot(sl[s], n) /\ Word(s2, s, n) = Word(sl, s, n)
  BY <1>1 DEF Spot, Word
<1>3. \A b \in DOMAIN h : At(s2, b) = At(sl, b)
  BY <1>2 DEF Sound, InSlab, At
<1> DEFINE Of(q, s, o) ==
      \/ o = <<q[s].page * PGSIZE, HEADER>>
      \/ \E n \in Nat : n < slab_max_count(q[s].idx) /\ o = Word(q, s, n)
<1>4. \A s \in 1 .. Len(sl) : \A o : Of(s2, s, o) <=> Of(sl, s, o)
  BY <1>1, <1>2
<1>5. /\ \A o : o \in Kept(sl) <=> \E s \in 1 .. Len(sl) : Of(sl, s, o)
      /\ \A o : o \in Kept(s2) <=> \E s \in 1 .. Len(s2) : Of(s2, s, o)
  BY KeptIs
<1> HIDE DEF Of
<1>6. Kept(sl) \subseteq Kept(s2)
  BY <1>1, <1>4, <1>5
<1>7. ASSUME Len(s2) = Len(sl) PROVE Kept(s2) \subseteq Kept(sl)
  BY <1>4, <1>5, <1>7
<1> QED BY <1>3, <1>6, <1>7

\* malloc adds one block to those in use.
Added(v, size) ==
    /\ InUse(slabs', held') = InUse(slabs, held) \cup {v}
    /\ v \notin InUse(slabs, held) /\ v[2] = size
    /\ Kept(slabs) \subseteq Kept(slabs') /\ heap_size <= heap_size'

\* A step of malloc, as Heap sees it.
LEMMA MallocAdds ==
    ASSUME IInv, IInv', NEW size, Gives(size)
    PROVE  \E v : Added(v, size)
<1>1. PICK b : /\ b \notin DOMAIN held
               /\ held' = [x \in DOMAIN held \cup {b} |-> IF x = b THEN size ELSE held[x]]
  BY DEF Gives
<1>2. /\ DOMAIN held' = DOMAIN held \cup {b} /\ held'[b] = size
      /\ \A c \in DOMAIN held : held'[c] = held[c]
  BY <1>1
<1>3. Sound(slabs, ufree_start, held) /\ Sound(slabs', ufree_start', held') /\ ufree_start' \in Nat
  BY DEF IInv, HeapOK
<1>4. Grown(slabs, slabs') /\ heap_size <= heap_size'
  BY DEF Gives
<1>5. /\ \A c \in DOMAIN held : At(slabs', c) = At(slabs, c)
      /\ Kept(slabs) \subseteq Kept(slabs')
  BY <1>3, <1>4, GrownStays
<1>6. PICK v : v = <<At(slabs', b), size>>
  OBVIOUS
<1>7. InUse(slabs', held') = InUse(slabs, held) \cup {v}
  <2>1. InUse(slabs', held') = {<<At(slabs', c), held'[c]>> : c \in DOMAIN held \cup {b}}
    BY <1>2 DEF InUse
  <2>2. \A c \in DOMAIN held : <<At(slabs', c), held'[c]>> = <<At(slabs, c), held[c]>>
    BY <1>2, <1>5
  <2>3. <<At(slabs', b), held'[b]>> = v
    BY <1>2, <1>6
  <2> QED BY <2>1, <2>2, <2>3 DEF InUse
<1>8. ASSUME v \in InUse(slabs, held) PROVE FALSE
  <2>1. PICK c \in DOMAIN held : v = <<At(slabs, c), held[c]>>
    BY <1>8 DEF InUse
  <2>2. At(slabs', c) = At(slabs', b) /\ c \in DOMAIN held' /\ b \in DOMAIN held' /\ b # c
    BY <1>1, <1>2, <1>5, <1>6, <2>1
  <2>3. \A d \in DOMAIN held' : /\ IsBlock(slabs', d[1], d[2]) /\ d = <<d[1], d[2]>>
                                /\ At(slabs', d) = Spot(slabs'[d[1]], d[2])
    BY <1>3 DEF Sound, InSlab, IsBlock, At
  <2>4. b[1] = c[1] /\ b[2] = c[2]
    BY <1>3, <2>2, <2>3, SpotsDiffer
  <2>5. b = <<b[1], b[2]>> /\ c = <<c[1], c[2]>>
    BY <2>2, <2>3
  <2> QED BY <2>2, <2>4, <2>5
<1>9. Added(v, size)
  BY <1>4, <1>5, <1>6, <1>7, <1>8 DEF Added
<1> QED BY <1>9

\* free takes one block from those in use.
Removed(v) ==
    /\ v \in InUse(slabs, held)
    /\ InUse(slabs', held') = InUse(slabs, held) \ {v}
    /\ Kept(slabs') = Kept(slabs) /\ heap_size' = heap_size

\* A step of free, as Heap sees it.
LEMMA FreeRemoves ==
    ASSUME SizesAgree, IInv, NEW b \in DOMAIN held, free(b)
    PROVE  \E v : Removed(v)
<1>1. /\ IInv' /\ Grown(slabs, slabs') /\ Len(slabs') = Len(slabs)
      /\ heap_size' = heap_size /\ held' = Restrict(held, DOMAIN held \ {b})
  BY FreeKeeps
<1>2. DOMAIN held' = DOMAIN held \ {b} /\ \A c \in DOMAIN held' : held'[c] = held[c]
  BY <1>1 DEF Restrict
<1>3. Sound(slabs, ufree_start, held) /\ Sound(slabs', ufree_start', held') /\ ufree_start \in Nat
  BY <1>1 DEF IInv, HeapOK
<1>4. /\ \A c \in DOMAIN held : At(slabs', c) = At(slabs, c)
      /\ Kept(slabs') = Kept(slabs)
  BY <1>1, <1>3, GrownStays
<1>5. PICK v : v = <<At(slabs, b), held[b]>>
  OBVIOUS
<1>6. \A c \in DOMAIN held : c # b => <<At(slabs, c), held[c]>> # v
  <2>1. \A d \in DOMAIN held : /\ IsBlock(slabs, d[1], d[2]) /\ d = <<d[1], d[2]>>
                               /\ At(slabs, d) = Spot(slabs[d[1]], d[2])
    BY <1>3 DEF Sound, InSlab, IsBlock, At
  <2> SUFFICES ASSUME NEW c \in DOMAIN held, At(slabs, c) = At(slabs, b) PROVE c = b
    BY <1>5
  <2>2. b[1] = c[1] /\ b[2] = c[2]
    BY <1>3, <2>1, SpotsDiffer
  <2>3. b = <<b[1], b[2]>> /\ c = <<c[1], c[2]>>
    BY <2>1
  <2> QED BY <2>2, <2>3
<1>7. InUse(slabs', held') = InUse(slabs, held) \ {v}
  <2>1. InUse(slabs', held') = {<<At(slabs', c), held'[c]>> : c \in DOMAIN held \ {b}}
    BY <1>2 DEF InUse
  <2>2. \A c \in DOMAIN held \ {b} : <<At(slabs', c), held'[c]>> = <<At(slabs, c), held[c]>>
    BY <1>2, <1>4
  <2>3. InUse(slabs', held') = {<<At(slabs, c), held[c]>> : c \in DOMAIN held \ {b}}
    BY <2>1, <2>2
  <2> QED BY <1>5, <1>6, <2>3 DEF InUse
<1>8. v \in InUse(slabs, held)
  BY <1>5 DEF InUse
<1>9. Removed(v)
  BY <1>1, <1>4, <1>7, <1>8 DEF Removed
<1> QED BY <1>9

\* What H is told.
LEMMA MapsPrimed ==
    /\ {<<Address(b), held[b]>> : b \in DOMAIN held}' = InUse(slabs', held')
    /\ (UNION {Own(s) : s \in Ids})' = Kept(slabs')
BY DEF InUse, Kept, BlocksIn, At, Spot, Own, Ids, Blocks, Address

\* malloc hands out blocks that are inside the heap and touch no other block in
\* use, no header of a slab and no word that links the blocks, and free gives up
\* just the one: slabs, classes and lists implement Heap, for all sizes of which
\* free_block finds the class again.
THEOREM BlocksAreAlone == SizesAgree => (Spec => HeapSpec)
<1> SUFFICES ASSUME SizesAgree PROVE Spec => HeapSpec
  OBVIOUS
<1>1. ASSUME Init PROVE H!Init
  <2>1. DOMAIN held = {} /\ Ids = {} /\ heap_size = 1
    <3>1. slabs = <<>> /\ held = <<>> /\ heap_size = 1
      BY <1>1 DEF Init
    <3>2. Len(slabs) = 0
      BY <3>1
    <3> QED BY <3>1, <3>2 DEF Ids
  <2>2. {<<Address(b), held[b]>> : b \in DOMAIN held} = {} /\ UNION {Own(s) : s \in Ids} = {}
    BY <2>1
  <2>3. heap_size * PGSIZE \in Nat
    BY <2>1, LayoutAssumption
  <2> QED BY <2>2, <2>3 DEF H!Init
<1>2. ASSUME IInv, IInv', [Next]_vars PROVE [H!Next]_(H!vars)
  <2>1. ASSUME NEW size \in Sizes, malloc(size) PROVE H!Next
    <3>1. Gives(size)
      BY <1>2, <2>1, MallocKeeps
    <3>2. PICK v : Added(v, size)
      BY <1>2, <3>1, MallocAdds
    <3>3. v \in H!New /\ v[2] \in Sizes
      BY <3>2, MapsHeld, MapsPrimed DEF Added, H!New
    <3>4. H!Malloc(v)
      <4>1. heap_size * PGSIZE <= heap_size' * PGSIZE
        <5>1. heap_size \in Nat /\ heap_size' \in Nat /\ heap_size <= heap_size'
          BY <1>2, <3>2 DEF IInv, HeapOK, Added
        <5>2. \A x, y \in Nat : x <= y => x * PGSIZE <= y * PGSIZE
          BY LayoutAssumption
        <5> QED BY <5>1, <5>2
      <4>2. \A o \in InUse(slabs', held') :
              /\ o[1] + o[2] <= heap_size' * PGSIZE
              /\ \A q \in (InUse(slabs', held') \ {o}) \cup Kept(slabs') : H!Disjoint(o, q)
        <5>1. /\ Sound(slabs', ufree_start', held') /\ ufree_start' \in Nat
              /\ heap_size' \in Nat /\ ufree_start' <= heap_size'
          BY <1>2 DEF IInv, HeapOK
        <5> QED BY <5>1, BlockAlone
      <4> QED BY <3>2, <4>1, <4>2, MapsHeld, MapsOwn, MapsPrimed DEF Added, H!Malloc, H!Alone
    <3> QED BY <3>3, <3>4 DEF H!Next
  <2>2. ASSUME NEW b \in DOMAIN held, free(b) PROVE H!Next
    <3>1. PICK v : Removed(v)
      BY <1>2, <2>2, FreeRemoves
    <3>2. v \in {<<Address(c), held[c]>> : c \in DOMAIN held} /\ H!Free(v)
      BY <3>1, MapsHeld, MapsOwn, MapsPrimed DEF Removed, H!Free
    <3> QED BY <3>2 DEF H!Next
  <2>3. CASE UNCHANGED vars
    BY <2>3, MapsHeld, MapsOwn, MapsPrimed DEF vars, H!vars
  <2> QED BY <1>2, <2>1, <2>2, <2>3 DEF Next
<1> QED BY <1>1, <1>2, Invariance, PTL DEF Spec, HeapSpec, H!Spec
=============================================================================
