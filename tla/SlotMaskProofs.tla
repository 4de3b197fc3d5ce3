---------------------------- MODULE SlotMaskProofs ----------------------------
(* What the masks of SlotMasks contain, for every number of slots.  The     *)
(* proofs of Mpmc need how many slots a request asks for, that a retry asks *)
(* for some, and that draining a mask visits one of its slots.              *)
EXTENDS SlotMasks, TLAPS, FiniteSetTheorems, FunctionTheorems

(* A set of natural numbers has a least element, by the well-foundedness of *)
(* the finite intervals that end in it.                                     *)
LEMMA LeastNatural ==
  ASSUME NEW T \in SUBSET Nat, T # {}
  PROVE  \E x \in T : \A y \in T : x <= y
  <1>. DEFINE ends == {0..n : n \in T}
  <1>1. ends \subseteq FiniteSubsetsOf(Nat) /\ ends # {}
    <2>1. \A n \in T : IsFiniteSet(0..n) /\ 0..n \in SUBSET Nat
      BY FS_Interval
    <2>. QED
      BY <2>1 DEF FiniteSubsetsOf
  <1>2. PICK E \in ends : \A F \in ends : <<F, E>> \notin StrictSubsetOrdering(Nat)
    BY <1>1, FS_StrictSubsetOrderingWellFounded, WFMin, Zenon
  <1>3. PICK x \in T : E = 0..x
    OBVIOUS
  <1>4. ASSUME NEW y \in T, y < x PROVE FALSE
    <2>1. 0..y \subseteq 0..x /\ 0..y # 0..x /\ 0..y \in SUBSET Nat /\ 0..x \in SUBSET Nat
      BY <1>4
    <2>2. <<0..y, E>> \in StrictSubsetOrdering(Nat)
      BY <1>3, <2>1 DEF StrictSubsetOrdering
    <2>. QED
      BY <1>2, <2>2
  <1>. QED
    BY <1>4

LEMMA GreatestNatural ==
  ASSUME NEW b \in Nat, NEW T \in SUBSET (0..b), T # {}
  PROVE  \E x \in T : \A y \in T : y <= x
  <1>. DEFINE U == {b - n : n \in T}
  <1>1. U \in SUBSET Nat /\ U # {}
    OBVIOUS
  <1>2. PICK u \in U : \A v \in U : u <= v
    BY <1>1, LeastNatural
  <1>3. PICK x \in T : u = b - x
    OBVIOUS
  <1>4. \A y \in T : b - x <= b - y
    BY <1>2, <1>3
  <1>. QED
    BY <1>4

LEMMA SlotsFinite == IsFiniteSet(Slots) /\ Cardinality(Slots) = N
  BY SlotCount, FS_Interval DEF Slots

(* drain_mask visits a slot of the mask, and none below it (mpmc.rs:538-556). *)
LEMMA NextOfLeast ==
  ASSUME NEW S \in SUBSET Slots, S # {}
  PROVE  NextOf(S) \in S /\ \A j \in S : NextOf(S) <= j
  <1>1. S \in SUBSET Nat
    BY SlotCount DEF Slots
  <1>2. \E i \in S : \A j \in S : i <= j
    BY <1>1, LeastNatural
  <1>. QED
    BY <1>2 DEF NextOf

(* How a finite set is ranked by an injective key, and how many of its      *)
(* elements are among the first k.                                          *)
Rank(D, key) == [x \in D |-> Cardinality({y \in D : key[y] > key[x]})]
Top(D, key, k) == {x \in D : Cardinality({y \in D : key[y] > key[x]}) < k}

LEMMA RankBijection ==
  ASSUME NEW D, IsFiniteSet(D), NEW key \in [D -> Nat],
         \A x, y \in D : key[x] = key[y] => x = y
  PROVE  Rank(D, key) \in Bijection(D, 0..(Cardinality(D) - 1))
  <1>. DEFINE above(x) == {y \in D : key[y] > key[x]}
  <1>. DEFINE T == 0..(Cardinality(D) - 1)
  <1>1. Cardinality(D) \in Nat /\ \A x \in D : IsFiniteSet(above(x)) /\ Cardinality(above(x)) \in Nat
    BY FS_Subset, FS_CardinalityType
  <1>2. ASSUME NEW x \in D PROVE Cardinality(above(x)) < Cardinality(D)
    <2>1. above(x) \in SUBSET D /\ above(x) # D
      OBVIOUS
    <2>2. Cardinality(above(x)) <= Cardinality(D) /\ Cardinality(above(x)) # Cardinality(D)
      BY <2>1, FS_Subset
    <2>. QED
      BY <1>1, <2>2
  <1>3. Rank(D, key) \in [D -> T]
    <2>1. \A c, d \in Nat : c < d => c \in 0..(d - 1)
      OBVIOUS
    <2>. HIDE DEF above
    <2>2. \A x \in D : Cardinality(above(x)) \in T
      BY <1>1, <1>2, <2>1
    <2>. USE DEF above
    <2>. QED
      BY <2>2 DEF Rank
  <1>4. ASSUME NEW x \in D, NEW y \in D, key[x] > key[y]
        PROVE  Cardinality(above(x)) # Cardinality(above(y))
    <2>1. above(x) \in SUBSET above(y) /\ x \in above(y) /\ x \notin above(x)
      BY <1>4
    <2>. QED
      BY <1>1, <2>1, FS_Subset
  <1>5. \A x, y \in D : Rank(D, key)[x] = Rank(D, key)[y] => x = y
    BY <1>4 DEF Rank
  <1>6. Rank(D, key) \in Injection(D, T)
    BY <1>3, <1>5, Fun_IsInj
  <1>7. IsFiniteSet(T) /\ Cardinality(T) = Cardinality(D)
    BY <1>1, FS_Interval
  <1>8. Rank(D, key) \in Surjection(D, T)
    BY <1>6, <1>7, FS_Injection
  <1>. QED
    BY <1>6, <1>8, Fun_IsBij

LEMMA TopCount ==
  ASSUME NEW D, IsFiniteSet(D), NEW key \in [D -> Nat],
         \A x, y \in D : key[x] = key[y] => x = y,
         NEW k \in Nat
  PROVE  /\ IsFiniteSet(Top(D, key, k)) /\ Top(D, key, k) \subseteq D
         /\ Cardinality(Top(D, key, k)) = IF k < Cardinality(D) THEN k ELSE Cardinality(D)
  <1>. DEFINE rank == Rank(D, key)
              top == Top(D, key, k)
              T == 0..(Cardinality(D) - 1)
              m == IF k < Cardinality(D) THEN k ELSE Cardinality(D)
  <1>1. Cardinality(D) \in Nat /\ m \in Nat
    BY FS_CardinalityType
  <1>2. rank \in Bijection(D, T)
    BY RankBijection
  <1>3. /\ rank \in [D -> T]
        /\ \A x, y \in D : rank[x] = rank[y] => x = y
        /\ \A r \in T : \E x \in D : rank[x] = r
    <2>. HIDE DEF rank, T
    <2>. QED
      BY <1>2, Fun_BijectionProperties
  <1>4. top = {x \in D : rank[x] < k}
    BY DEF Rank, Top
  <1>. DEFINE f == [x \in top |-> rank[x]]
  <1>5. IsFiniteSet(top) /\ top \subseteq D
    BY FS_Subset DEF Top
  <1>6. f \in Bijection(top, 0..(m - 1))
    <2>. HIDE DEF rank
    <2>. HIDE DEF top
    <2>1. f \in [top -> 0..(m - 1)]
      BY <1>1, <1>3, <1>4
    <2>2. \A x, y \in top : f[x] = f[y] => x = y
      BY <1>3, <1>4
    <2>3. \A r \in 0..(m - 1) : \E x \in top : f[x] = r
      BY <1>1, <1>3, <1>4
    <2>. HIDE DEF f
    <2>. QED
      BY <2>1, <2>2, <2>3, Fun_IsBij
  <1>7. Cardinality(0..(m - 1)) = Cardinality(top)
    BY <1>5, <1>6, FS_Bijection, Fun_ExistsBij
  <1>8. Cardinality(0..(m - 1)) = m
    <2>. HIDE DEF m
    <2>. QED
      BY <1>1, FS_Interval
  <1>. QED
    BY <1>5, <1>7, <1>8

(* The k highest, and the k lowest, of a set of slots.                      *)
LEMMA HighestCount ==
  ASSUME NEW S \in SUBSET Slots, NEW k \in Nat
  PROVE  /\ Highest(S, k) \subseteq S /\ IsFiniteSet(S)
         /\ Cardinality(Highest(S, k)) = IF k < Cardinality(S) THEN k ELSE Cardinality(S)
  <1>. DEFINE key == [i \in S |-> i]
  <1>1. IsFiniteSet(S)
    BY SlotsFinite, FS_Subset
  <1>2. key \in [S -> Nat] /\ \A x, y \in S : key[x] = key[y] => x = y
    BY SlotCount DEF Slots
  <1>3. Highest(S, k) = Top(S, key, k)
    <2>1. \A x, y \in S : key[y] > key[x] <=> y > x
      OBVIOUS
    <2>. QED
      BY <2>1 DEF Highest, Top
  <1>. HIDE DEF key
  <1>. QED
    BY <1>1, <1>2, <1>3, TopCount

LEMMA LowestCount ==
  ASSUME NEW S \in SUBSET Slots, NEW k \in Nat
  PROVE  /\ Lowest(S, k) \subseteq S /\ IsFiniteSet(S)
         /\ Cardinality(Lowest(S, k)) = IF k < Cardinality(S) THEN k ELSE Cardinality(S)
  <1>. DEFINE key == [i \in S |-> N - 1 - i]
  <1>1. IsFiniteSet(S)
    BY SlotsFinite, FS_Subset
  <1>2. key \in [S -> Nat] /\ \A x, y \in S : key[x] = key[y] => x = y
    BY SlotCount DEF Slots
  <1>3. Lowest(S, k) = Top(S, key, k)
    <2>1. \A x, y \in S : key[y] > key[x] <=> y < x
      BY SlotCount DEF Slots
    <2>. QED
      BY <2>1 DEF Lowest, Top
  <1>. HIDE DEF key
  <1>. QED
    BY <1>1, <1>2, <1>3, TopCount

(* clear_extra_bits leaves some of the free slots, and no more of them than *)
(* there are items (mpmc.rs:574-587).                                       *)
LEMMA ClearExtraBitsFits ==
  ASSUME NEW free \in SUBSET Slots, free # {}, NEW items \in Nat \ {0}, NEW b
  PROVE  /\ ClearExtraBits(free, items, b) \subseteq free
         /\ ClearExtraBits(free, items, b) # {}
         /\ Cardinality(ClearExtraBits(free, items, b)) <= items
  <1>1. IsFiniteSet(free) /\ Cardinality(free) \in Nat /\ Cardinality(free) # 0
    BY SlotsFinite, FS_Subset, FS_CardinalityType, FS_EmptySet
  <1>2. /\ Highest(free, items) \subseteq free
        /\ Cardinality(Highest(free, items)) <= items
        /\ Cardinality(Highest(free, items)) # 0
    BY <1>1, HighestCount
  <1>3. /\ Lowest(free, items) \subseteq free
        /\ Cardinality(Lowest(free, items)) <= items
        /\ Cardinality(Lowest(free, items)) # 0
    BY <1>1, LowestCount
  <1>. QED
    BY <1>2, <1>3, FS_EmptySet DEF ClearExtraBits

(* Remainders of what is less than twice the divisor. *)
LEMMA Remainder ==
  ASSUME NEW n \in Nat \ {0}, NEW x \in Nat
  PROVE  /\ x % n \in 0..(n - 1)
         /\ x < n => x % n = x
         /\ n <= x /\ x < 2 * n => x % n = x - n
  OBVIOUS

(* compute_request_mask asks for some slots, and for no more of them than   *)
(* there are items (mpmc.rs:558-572).                                       *)
LEMMA RequestMaskFits ==
  ASSUME NEW items \in Nat \ {0}, NEW b \in Slots
  PROVE  /\ RequestMask(items, b) \subseteq Slots /\ RequestMask(items, b) # {}
         /\ Cardinality(RequestMask(items, b)) <= items
  <1>. DEFINE M == RequestMask(items, b)
              at == [i \in M |-> (i + N - b) % N]
  <1>. USE SlotCount DEF Slots
  <1>1. ASSUME NEW i \in Slots
        PROVE  /\ i < b => i + N - b \in Nat /\ (i + N - b) % N = i + N - b
               /\ ~(i < b) => (i + N - b) % N = i - b
    <2>1. i + N - b \in Nat /\ i + N - b < 2 * N
      OBVIOUS
    <2>2. i < b => i + N - b < N
      OBVIOUS
    <2>3. ~(i < b) => N <= i + N - b /\ (i + N - b) - N = i - b
      OBVIOUS
    <2>. QED
      BY <2>1, <2>2, <2>3, Remainder
  <1>2. M \subseteq Slots /\ b \in M
    BY <1>1 DEF RequestMask
  <1>3. at \in [M -> 0..(items - 1)]
    <2>1. \A i \in M : (i + N - b) % N \in 0..(items - 1)
      BY <1>1 DEF RequestMask
    <2>. QED
      BY <2>1
  <1>4. \A i, j \in M : at[i] = at[j] => i = j
    <2>. DEFINE pos(i) == IF i < b THEN i + N - b ELSE i - b
    <2>1. \A i \in M : at[i] = pos(i)
      BY <1>1, <1>2
    <2>2. \A i, j \in Slots : pos(i) = pos(j) => i = j
      OBVIOUS
    <2>. QED
      BY <1>2, <2>1, <2>2
  <1>5. at \in Injection(M, 0..(items - 1))
    <2>. HIDE DEF at, M
    <2>. QED
      BY <1>3, <1>4, Fun_IsInj
  <1>6. IsFiniteSet(0..(items - 1)) /\ Cardinality(0..(items - 1)) = items
    BY FS_Interval
  <1>. HIDE DEF at
  <1>7. Cardinality(M) <= items
    BY <1>5, <1>6, FS_Injection
  <1>. QED
    BY <1>2, <1>7
===============================================================================
