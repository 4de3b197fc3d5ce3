--------------------------- MODULE MaskBitsProofs ----------------------------
(* Proofs about MaskBits, for every number of slots, every mask and every   *)
(* bias.  The word is two bits wider than the slots need.                   *)
EXTENDS MaskBits, SlotMaskProofs, Integers, SequenceTheorems

LEMMA Words ==
  /\ N \in Nat \ {0} /\ W \in Nat \ {0} /\ W = N + 2
  /\ \A x : x \in Bits <=> x \in Nat /\ x < W
  /\ \A x : x \in Slots <=> x \in Nat /\ x < N
  /\ \A x : x \in StatusBits <=> x = 0 \/ x = 1
  BY SlotCount DEF W, Bits, Slots, StatusBits

(* Reversing a word turns it back when it is done twice, and keeps its     *)
(* number of bits; bit i of a set of slots is bit W - 1 - i of the word.   *)
LEMMA Reversed ==
  ASSUME NEW S \in SUBSET Bits
  PROVE  /\ ReverseBits(S) \in SUBSET Bits
         /\ \A x \in Bits : x \in ReverseBits(S) <=> W - 1 - x \in S
         /\ ReverseBits(ReverseBits(S)) = S
         /\ BitsOf(S) = ReverseBits(S) /\ SlotsOf(S) = ReverseBits(S)
         /\ IsFiniteSet(S) /\ IsFiniteSet(ReverseBits(S))
         /\ Cardinality(ReverseBits(S)) = Cardinality(S) /\ Cardinality(S) \in 0..W
  <1>. DEFINE R == ReverseBits(S)
  <1>1. /\ \A x \in Bits : x \in Int /\ W - 1 - x \in Bits /\ W - 1 - (W - 1 - x) = x
    BY Words
  <1>2. R \in SUBSET Bits /\ \A x \in Bits : x \in R <=> W - 1 - x \in S
    BY <1>1 DEF ReverseBits
  <1>3. ReverseBits(R) = S
    BY <1>1, <1>2 DEF ReverseBits
  <1>4. IsFiniteSet(S) /\ Cardinality(S) \in 0..W
    <2>1. Bits = 0..(W - 1) /\ IsFiniteSet(0..(W - 1)) /\ Cardinality(0..(W - 1)) = W
      BY Words, FS_Interval DEF Bits
    <2>2. IsFiniteSet(S) /\ Cardinality(S) <= W
      BY <2>1, FS_Subset
    <2>. QED
      BY <2>2, Words, FS_CardinalityType
  <1>5. IsFiniteSet(R) /\ Cardinality(R) = Cardinality(S)
    <2>. DEFINE f == [x \in S |-> W - 1 - x]
    <2>1. f \in [S -> R]
      BY DEF ReverseBits
    <2>2. \A x, y \in S : f[x] = f[y] => x = y
      BY <1>1
    <2>3. \A y \in R : \E x \in S : f[x] = y
      BY DEF ReverseBits
    <2>. HIDE DEF f, R
    <2>4. f \in Bijection(S, R)
      BY <2>1, <2>2, <2>3, Fun_IsBij DEF Injection, Surjection
    <2>5. ExistsBijection(S, R)
      BY <2>4 DEF ExistsBijection
    <2>. QED
      BY <1>4, <2>5, FS_Bijection
  <1>6. BitsOf(S) = R /\ SlotsOf(S) = R
    BY DEF BitsOf, SlotsOf, ReverseBits
  <1>. QED
    BY <1>2, <1>3, <1>4, <1>5, <1>6

(* The slots of a mask leave the status bits alone. *)
LEMMA MaskOfSlots ==
  ASSUME NEW S \in SUBSET Slots
  PROVE  /\ S \in SUBSET Bits /\ BitsOf(S) \in SUBSET Bits /\ BitsOf(S) \cap StatusBits = {}
         /\ SlotsOf(BitsOf(S)) = S
  <1>1. S \in SUBSET Bits
    BY Words
  <1>2. BitsOf(S) = ReverseBits(S) /\ SlotsOf(BitsOf(S)) = ReverseBits(ReverseBits(S))
    BY DEF BitsOf, SlotsOf, ReverseBits
  <1>3. ASSUME NEW x \in BitsOf(S) PROVE x \notin StatusBits
    BY Words DEF BitsOf
  <1>. QED
    BY <1>1, <1>2, <1>3, Reversed
-----------------------------------------------------------------------------
(* A part of a finite set that is closed upwards is determined by how many *)
(* elements it has.                                                        *)
LEMMA ClosedTop ==
  ASSUME NEW F \in SUBSET Bits, NEW M \in SUBSET F,
         \A x \in M, y \in F : y > x => y \in M,
         NEW k \in Nat \ {0}, M = F \/ Cardinality(M) = k,
         Cardinality(M) <= k
  PROVE  M = Highest(F, k)
  <1>. DEFINE above(x) == {y \in F : y > x}
  <1>1. IsFiniteSet(F) /\ IsFiniteSet(M) /\ Cardinality(M) \in Nat
    BY Reversed, FS_Subset, FS_CardinalityType
  <1>2. ASSUME NEW x \in M PROVE Cardinality(above(x)) < k
    <2>1. /\ above(x) \in SUBSET (M \ {x}) /\ IsFiniteSet(M \ {x})
          /\ Cardinality(M \ {x}) = Cardinality(M) - 1
      <3>1. above(x) \subseteq M \ {x}
        BY Words
      <3>. QED
        BY <1>1, <3>1, FS_RemoveElement
    <2>2. Cardinality(above(x)) <= Cardinality(M \ {x}) /\ Cardinality(above(x)) \in Nat
      BY <2>1, FS_Subset, FS_CardinalityType
    <2>. HIDE DEF above
    <2>. QED
      BY <1>1, <2>1, <2>2
  <1>3. ASSUME NEW x \in F, x \notin M PROVE ~(Cardinality(above(x)) < k)
    <2>1. Cardinality(M) = k
      BY <1>3
    <2>2. M \in SUBSET above(x)
      BY <1>3, Words
    <2>3. IsFiniteSet(above(x))
      BY <1>1, FS_Subset
    <2>4. Cardinality(M) <= Cardinality(above(x)) /\ Cardinality(above(x)) \in Nat
      BY <2>2, <2>3, FS_Subset, FS_CardinalityType
    <2>. HIDE DEF above
    <2>. QED
      BY <2>1, <2>4
  <1>4. Highest(F, k) = {x \in F : Cardinality(above(x)) < k}
    BY DEF Highest
  <1>. QED
    BY <1>2, <1>3, <1>4

(* The highest bits of a mask of slots are the lowest slots. *)
LEMMA LowestReversed ==
  ASSUME NEW S \in SUBSET Slots, NEW k
  PROVE  SlotsOf(Highest(BitsOf(S), k)) = Lowest(S, k)
  <1>. DEFINE F == ReverseBits(S)
              above(x) == {y \in F : y > x}
              below(i) == {j \in S : j < i}
  <1>1. S \in SUBSET Bits /\ F \in SUBSET Bits /\ BitsOf(S) = F /\ \A x \in Bits : x \in F <=> W - 1 - x \in S
    BY MaskOfSlots, Reversed
  <1>2. ASSUME NEW i \in S PROVE Cardinality(above(W - 1 - i)) = Cardinality(below(i))
    <2>1. below(i) \in SUBSET Bits
      BY <1>1
    <2>2. above(W - 1 - i) = ReverseBits(below(i))
      <3>1. above(W - 1 - i) \in SUBSET Bits /\ ReverseBits(below(i)) \in SUBSET Bits
        BY <1>1, <2>1, Reversed
      <3>2. ASSUME NEW x \in Bits PROVE x \in above(W - 1 - i) <=> x \in ReverseBits(below(i))
        <4>1. x \in ReverseBits(below(i)) <=> W - 1 - x \in below(i)
          BY <2>1, Reversed
        <4>2. x > W - 1 - i <=> W - 1 - x < i
          BY <1>1, Words
        <4>. QED
          BY <1>1, <4>1, <4>2
      <3>. QED
        BY <3>1, <3>2
    <2>. QED
      BY <2>1, <2>2, Reversed
  <1>3. Highest(F, k) = {x \in F : Cardinality(above(x)) < k} /\ Highest(F, k) \in SUBSET Bits
    BY <1>1 DEF Highest
  <1>4. ASSUME NEW i \in Bits PROVE i \in ReverseBits(Highest(F, k)) <=> i \in Lowest(S, k)
    <2>1. i \in ReverseBits(Highest(F, k)) <=> W - 1 - i \in Highest(F, k)
      BY <1>3, Reversed
    <2>2. W - 1 - i \in Bits /\ W - 1 - (W - 1 - i) = i
      BY Words
    <2>3. W - 1 - i \in F <=> i \in S
      BY <1>1, <2>2
    <2>. HIDE DEF F, above, below
    <2>4. W - 1 - i \in Highest(F, k) <=> i \in S /\ Cardinality(above(W - 1 - i)) < k
      BY <1>3, <2>3
    <2>5. i \in Lowest(S, k) <=> i \in S /\ Cardinality(below(i)) < k
      BY DEF Lowest, below
    <2>. QED
      BY <1>2, <2>1, <2>4, <2>5
  <1>5. ReverseBits(Highest(F, k)) \in SUBSET Bits /\ Lowest(S, k) \in SUBSET Bits
    BY <1>1, <1>3, Reversed DEF Lowest
  <1>6. SlotsOf(Highest(F, k)) = ReverseBits(Highest(F, k))
    BY <1>3, Reversed
  <1>. QED
    BY <1>1, <1>4, <1>5, <1>6
-----------------------------------------------------------------------------
LEMMA Rotated ==
  ASSUME NEW m \in SUBSET Bits, NEW s \in 0..(W - 1)
  PROVE  /\ RotateRight(m, s) \in SUBSET Bits
         /\ \A x \in Bits :
              x \in RotateRight(m, s) <=> (IF x + s < W THEN x + s ELSE x + s - W) \in m
  <1>1. \A b \in Bits : (b + W - s) % W = IF b < s THEN b + W - s ELSE b - s
    <2>. SUFFICES ASSUME NEW b \in Bits
                  PROVE  (b + W - s) % W = IF b < s THEN b + W - s ELSE b - s
      OBVIOUS
    <2>. DEFINE y == b + W - s
    <2>1. y \in Nat /\ b \in Nat /\ b < W /\ s \in Nat /\ W \in Nat \ {0}
          /\ (b < s <=> y < W) /\ y < 2 * W /\ y - W = b - s
      BY Words
    <2>. HIDE DEF y
    <2>2. /\ y < W => y % W = y
          /\ W <= y => y % W = y - W
      BY <2>1, Remainder
    <2>3. ~(y < W) => W <= y
      BY <2>1
    <2>4. y % W = IF b < s THEN y ELSE y - W
      BY <2>1, <2>2, <2>3
    <2>. QED
      BY <2>1, <2>4 DEF y
  <1>. DEFINE to(b) == IF b < s THEN b + W - s ELSE b - s
              from(x) == IF x + s < W THEN x + s ELSE x + s - W
  <1>2. \A b \in Bits : to(b) \in Bits /\ from(to(b)) = b
    BY Words
  <1>3. \A x \in Bits : from(x) \in Bits /\ to(from(x)) = x
    BY Words
  <1>4. RotateRight(m, s) = {to(b) : b \in m}
    BY <1>1 DEF RotateRight
  <1>. HIDE DEF to, from
  <1>5. /\ RotateRight(m, s) \in SUBSET Bits
        /\ \A x \in Bits : x \in RotateRight(m, s) <=> from(x) \in m
    BY <1>2, <1>3, <1>4
  <1>. QED
    BY <1>5 DEF from

(* compute_request_mask: the window that starts at the bias, wrapping       *)
(* around, without the status bits (mpmc.rs:558-572).                       *)
LEMMA Window ==
  ASSUME NEW n \in Nat \ {0}, NEW b \in Slots
  PROVE  LET C == Compute(AtMostN(n), b)
         IN  C \in SUBSET Bits /\ C \cap StatusBits = {} /\ SlotsOf(C) = RequestMask(n, b)
  <1>. DEFINE k == AtMostN(n)
              C == Compute(k, b)
              m == HighBitShifted(k - 1)
              O == RotateRight(m, b + 2)
              Inside(i) == IF i < b THEN i + N - b < n ELSE i - b < n
  <1>1. k \in 1..N /\ (k = n \/ (k = N /\ n >= N)) /\ b \in Nat /\ b < N
    BY Words DEF AtMostN
  <1>2. /\ m \in SUBSET Bits /\ \A x \in Bits : x \in m <=> x >= W - k
        /\ \A x \in Bits : x \in HighBitShifted(b - 1) <=> x >= W - b
    BY <1>1, Words DEF HighBitShifted
  <1>3. /\ O \in SUBSET Bits
        /\ \A x \in Bits : x \in O <=> IF x + b + 2 < W THEN x + b + 2 >= W - k
                                                        ELSE x + b + 2 - W >= W - k
    <2>1. b + 2 \in 0..(W - 1)
      BY <1>1, Words
    <2>. HIDE DEF m, k
    <2>2. /\ O \in SUBSET Bits
          /\ \A x \in Bits : x \in O <=> (IF x + (b + 2) < W THEN x + (b + 2) ELSE x + (b + 2) - W) \in m
      BY <1>2, <2>1, Rotated
    <2>3. \A x \in Bits : /\ x + (b + 2) = x + b + 2 /\ x + (b + 2) - W = x + b + 2 - W
                          /\ x + b + 2 < W => x + b + 2 \in Bits
                          /\ ~(x + b + 2 < W) => x + b + 2 - W \in Bits
      BY <1>1, Words
    <2>. QED
      BY <1>2, <2>2, <2>3
  <1>4. Cardinality(StatusBits) = 2
    <2>1. StatusBits = 0..1
      BY DEF StatusBits
    <2>2. 0 \in Int /\ 1 \in Int /\ ~(0 > 1) /\ 1 - 0 + 1 = 2
      OBVIOUS
    <2>3. Cardinality(0..1) = IF 0 > 1 THEN 0 ELSE 1 - 0 + 1
      BY ONLY <2>2, FS_Interval
    <2>. QED
      BY <2>1, <2>2, <2>3
  <1>. HIDE DEF m, O, k
  <1>5. C = IF b = 0 THEN m ELSE (O \cap HighBitShifted(b - 1)) \cup ShiftLeft(O, 2)
    BY <1>4 DEF Compute, m, O
  <1>6. /\ ShiftLeft(O, 2) \in SUBSET Bits
        /\ \A x \in Bits : x \in ShiftLeft(O, 2) <=> x >= 2 /\ x - 2 \in O
    BY <1>3, Words DEF ShiftLeft
  <1>7. C \in SUBSET Bits
    BY <1>2, <1>3, <1>5, <1>6
  <1>8. ASSUME NEW x \in Bits PROVE x \in C <=> x >= 2 /\ Inside(W - 1 - x)
    <2>1. CASE b = 0
      BY <1>1, <1>2, <1>5, <2>1, Words
    <2>2. CASE b # 0
      <3>1. x \in C <=> (x \in O /\ x >= W - b) \/ (x >= 2 /\ x - 2 \in O)
        BY <1>2, <1>5, <1>6, <2>2
      <3>2. x >= 2 => x - 2 \in Bits
        BY Words
      <3>. QED
        BY <1>1, <1>3, <2>2, <3>1, <3>2, Words
    <2>. QED
      BY <2>1, <2>2
  <1>9. ASSUME NEW i \in Slots PROVE i \in RequestMask(n, b) <=> Inside(i)
    <2>. DEFINE y == i + N - b
    <2>1. y \in Nat /\ y < 2 * N /\ (i < b <=> y < N) /\ y - N = i - b /\ N \in Nat \ {0}
      BY <1>1, Words
    <2>. HIDE DEF y
    <2>2. /\ y < N => y % N = y
          /\ N <= y => y % N = y - N
      BY <2>1, Remainder
    <2>3. ~(y < N) => N <= y
      BY <2>1
    <2>4. y % N = IF i < b THEN y ELSE y - N
      BY <2>1, <2>2, <2>3
    <2>5. i \in RequestMask(n, b) <=> y % N < n
      BY DEF RequestMask, y
    <2>. QED
      BY <2>1, <2>4, <2>5 DEF y
  <1>. HIDE DEF Inside, C
  <1>10. C \cap StatusBits = {}
    BY <1>7, <1>8, Words
  <1>11. SlotsOf(C) = RequestMask(n, b)
    <2>1. SlotsOf(C) = ReverseBits(C) /\ SlotsOf(C) \in SUBSET Bits
      BY <1>7, Reversed
    <2>2. RequestMask(n, b) \in SUBSET Bits
      BY Words DEF RequestMask
    <2>3. ASSUME NEW i \in Bits PROVE i \in ReverseBits(C) <=> i \in RequestMask(n, b)
      <3>1. i \in ReverseBits(C) <=> W - 1 - i \in C
        BY <1>7, Reversed
      <3>2. W - 1 - i \in Bits /\ W - 1 - (W - 1 - i) = i /\ (W - 1 - i >= 2 <=> i \in Slots)
        BY Words
      <3>3. i \in RequestMask(n, b) => i \in Slots
        BY DEF RequestMask
      <3>4. W - 1 - i \in C <=> i \in Slots /\ Inside(i)
        BY <1>8, <3>2
      <3>. QED
        BY <1>9, <3>1, <3>3, <3>4
    <2>. QED
      BY <2>1, <2>2, <2>3
  <1>. QED
    BY <1>7, <1>10, <1>11 DEF C, k
-----------------------------------------------------------------------------
(* The mask that clear_extra_bits starts its loop with. *)
Start == Turned(BitsOf(input))

(* What is left of the slots for drain_mask to visit. *)
Left == input \ {visited[j] : j \in 1..Len(visited)}

(* While clear_extra_bits clears: the bits that are left are the highest,  *)
(* and enough of them.                                                     *)
Clearing ==
  /\ mask \subseteq Start /\ \A x \in mask, y \in Start : y > x => y \in mask
  /\ setBits = Cardinality(mask)
  /\ mask = Start \/ items <= setBits

(* While drain_mask drains: the slots are visited in order, and the rest   *)
(* of them is in the mask.                                                 *)
Draining ==
  /\ \A k \in 1..Len(visited) :
       visited[k] = NextOf(input \ {visited[j] : j \in 1..(k - 1)})
  /\ Len(visited) + Cardinality(Left) = Cardinality(input)
  /\ pc \in {"drain", "drained"} => mask = BitsOf(Left)
  /\ pc = "drained" => Left = {}

Inv ==
  /\ TypeOK
  /\ pc = "requested" => mask = Compute(AtMostN(items), bias)
  /\ pc = "clear" => mask = BitsOf(input)
  /\ pc = "clearing" => Clearing
  /\ pc = "cleared" => mask = Turned(Highest(Start, items))
  /\ Draining

LEMMA Types ==
  ASSUME TypeOK
  PROVE  /\ items \in Nat \ {0} /\ bias \in Slots /\ input \in SUBSET Slots
         /\ input \in SUBSET Bits /\ BitsOf(input) \in SUBSET Bits /\ Start \in SUBSET Bits
         /\ mask \in SUBSET Bits /\ IsFiniteSet(mask) /\ IsFiniteSet(input)
         /\ \A S \in SUBSET Bits : Turned(S) \in SUBSET Bits /\ Cardinality(Turned(S)) = Cardinality(S)
  <1>1. /\ items \in Nat \ {0} /\ bias \in Slots /\ input \in SUBSET Slots /\ mask \in SUBSET Bits
    BY MaskAssumption DEF TypeOK
  <1>2. \A S \in SUBSET Bits : Turned(S) \in SUBSET Bits /\ Cardinality(Turned(S)) = Cardinality(S)
    BY Reversed DEF Turned
  <1>3. input \in SUBSET Bits /\ BitsOf(input) \in SUBSET Bits
    BY <1>1, MaskOfSlots
  <1>. QED
    BY <1>1, <1>2, <1>3, Reversed DEF Start

LEMMA InitInv == Init => Inv
  <1>. SUFFICES ASSUME Init PROVE Inv
    OBVIOUS
  <1>1. /\ items \in Items /\ bias \in Slots /\ input \in SUBSET Slots
        /\ pc \in {"request", "clear", "drain"} /\ mask = BitsOf(input) /\ setBits = 0
        /\ visited = <<>>
    BY MaskAssumption, Words DEF Init
  <1>2. TypeOK
    <2>1. mask \in SUBSET Bits /\ setBits \in 0..W
      BY <1>1, MaskOfSlots, Words
    <2>2. visited \in Seq(Slots)
      BY <1>1, EmptySeq
    <2>. QED
      BY <1>1, <2>1, <2>2 DEF TypeOK
  <1>3. Len(visited) = 0 /\ Left = input
    BY <1>1 DEF Left
  <1>4. Draining
    <2>1. Cardinality(input) \in Nat
      BY <1>2, Types, FS_CardinalityType
    <2>. QED
      BY <1>1, <1>3, <2>1 DEF Draining
  <1>. QED
    BY <1>1, <1>2, <1>4 DEF Inv

(* The highest bit of a mask is its lowest slot (mpmc.rs:545). *)
LEMMA Leading ==
  ASSUME NEW S \in SUBSET Slots
  PROVE  LeadingZeros(BitsOf(S)) = IF S = {} THEN W ELSE NextOf(S)
  <1>1. CASE S = {}
    BY <1>1 DEF LeadingZeros, BitsOf
  <1>2. CASE S # {}
    <2>. DEFINE s == NextOf(S)
                B == BitsOf(S)
                high == CHOOSE b \in B : \A c \in B : b >= c
    <2>1. s \in S /\ \A j \in S : s <= j
      BY <1>2, NextOfLeast
    <2>. HIDE DEF s
    <2>2. W - 1 - s \in B /\ B # {} /\ \A c \in B : W - 1 - s >= c
      BY <2>1, Words DEF BitsOf
    <2>3. B \in SUBSET Bits
      BY MaskOfSlots
    <2>. HIDE DEF B
    <2>4. high \in B /\ \A c \in B : high >= c
      BY <2>2
    <2>. HIDE DEF high
    <2>5. high = W - 1 - s
      BY <2>2, <2>3, <2>4, Words
    <2>6. s \in Nat /\ s < N
      BY <2>1, Words
    <2>7. LeadingZeros(B) = W - 1 - high
      BY <2>2 DEF LeadingZeros, high
    <2>. QED
      BY <1>2, <2>5, <2>6, <2>7, Words DEF B, s
  <1>. QED
    BY <1>1, <1>2

(* A step of another call than drain_mask's leaves Draining alone. *)
LEMMA NotDraining ==
  ASSUME Inv, UNCHANGED <<input, visited>>, pc' \notin {"drain", "drained"}
  PROVE  Draining'
  BY DEF Inv, Draining, Left

LEMMA ClearStep ==
  ASSUME Inv, BeginClear \/ ClearOne \/ EndClear
  PROVE  Inv'
  <1>0. /\ TypeOK /\ UNCHANGED <<items, bias, input, visited>>
        /\ pc' \in {"clearing", "cleared"} /\ items \in Nat \ {0}
        /\ Start' = Start
    BY Types DEF Inv, BeginClear, ClearOne, EndClear, args, Start, Turned
  <1>1. Draining'
    BY <1>0, NotDraining
  <1>2. CASE BeginClear
    <2>1. pc = "clear" /\ pc' = "clearing" /\ setBits' = Cardinality(mask) /\ mask' = Turned(mask)
      BY <1>2 DEF BeginClear
    <2>2. mask = BitsOf(input) /\ mask' = Start /\ setBits' = Cardinality(Start)
      BY <1>0, <2>1, Types DEF Inv, Start
    <2>3. Start \in SUBSET Bits /\ Cardinality(Start) \in 0..W
      BY <1>0, Types, Reversed
    <2>4. TypeOK'
      BY <1>0, <2>1, <2>2, <2>3 DEF TypeOK
    <2>5. Clearing'
      BY <1>0, <2>2 DEF Clearing
    <2>. QED
      BY <1>1, <2>1, <2>4, <2>5 DEF Inv
  <1>3. CASE ClearOne
    <2>. DEFINE least == CHOOSE b \in mask : \A c \in mask : b <= c
    <2>1. /\ pc = "clearing" /\ pc' = "clearing" /\ setBits > items
          /\ mask' = mask \ {least} /\ setBits' = setBits - 1
      BY <1>3 DEF ClearOne, ClearLowestBit, Extra
    <2>2. Clearing /\ setBits \in Nat /\ setBits \in 0..W /\ IsFiniteSet(mask) /\ mask \in SUBSET Bits
      BY <1>0, <2>1, Words, Types DEF Inv, TypeOK
    <2>3. mask # {}
      BY <1>0, <2>1, <2>2, FS_EmptySet DEF Clearing
    <2>4. least \in mask /\ \A c \in mask : least <= c
      <3>1. mask \in SUBSET Nat
        BY <2>2, Words
      <3>2. \E b \in mask : \A c \in mask : b <= c
        BY <2>3, <3>1, LeastNatural
      <3>. QED
        BY <3>2
    <2>. HIDE DEF least
    <2>5. Cardinality(mask') = setBits'
      BY <2>1, <2>2, <2>4, FS_RemoveElement DEF Clearing
    <2>6. Start \in SUBSET Bits /\ mask' \in SUBSET Bits
      BY <1>0, <2>1, <2>2, Types
    <2>7. \A x \in mask', y \in Start : y > x => y \in mask'
      <3>. SUFFICES ASSUME NEW x \in mask', NEW y \in Start, y > x PROVE y \in mask'
        OBVIOUS
      <3>1. y \in mask /\ x >= least /\ x \in Nat /\ y \in Nat /\ least \in Nat
        BY <2>1, <2>2, <2>4, <2>6, Words DEF Clearing
      <3>. QED
        BY <2>1, <3>1
    <2>8. items <= setBits' /\ setBits' \in 0..W
      BY <1>0, <2>1, <2>2, Words
    <2>9. Clearing'
      BY <1>0, <2>1, <2>2, <2>5, <2>7, <2>8 DEF Clearing
    <2>10. TypeOK'
      BY <1>0, <2>1, <2>6, <2>8 DEF TypeOK
    <2>. QED
      BY <1>1, <2>1, <2>9, <2>10 DEF Inv
  <1>4. CASE EndClear
    <2>1. pc = "clearing" /\ pc' = "cleared" /\ ~(setBits > items) /\ mask' = Turned(mask)
          /\ setBits' = setBits
      BY <1>4 DEF EndClear, Extra
    <2>2. Clearing /\ setBits \in Nat /\ Start \in SUBSET Bits /\ mask \in SUBSET Start
      BY <1>0, <2>1, Words, Types DEF Inv, TypeOK, Clearing
    <2>3. mask = Start \/ Cardinality(mask) = items
      BY <1>0, <2>1, <2>2 DEF Clearing
    <2>4. mask = Highest(Start, items)
      <3>1. /\ Cardinality(mask) <= items
            /\ \A x \in mask, y \in Start : y > x => y \in mask
        BY <1>0, <2>1, <2>2 DEF Clearing
      <3>. QED
        BY <1>0, <2>2, <2>3, <3>1, ClosedTop
    <2>5. mask' = Turned(Highest(Start, items))' /\ mask' \in SUBSET Bits
      <3>1. mask' \in SUBSET Bits
        BY <1>0, <2>1, Types
      <3>. QED
        BY <1>0, <2>1, <2>4, <3>1 DEF Turned, Highest, ReverseBits
    <2>6. TypeOK'
      BY <1>0, <2>1, <2>5 DEF TypeOK
    <2>. QED
      BY <1>1, <2>1, <2>5, <2>6 DEF Inv
  <1>. QED
    BY <1>2, <1>3, <1>4

(* One turn of drain_mask visits the lowest slot that is left, or finds    *)
(* that none is.                                                           *)
LEMMA DrainStep ==
  ASSUME Inv, DrainOne
  PROVE  Inv'
  <1>. DEFINE i == LeadingZeros(mask)
  <1>0. /\ TypeOK /\ Draining /\ pc = "drain" /\ UNCHANGED <<items, bias, input, setBits>>
        /\ mask = BitsOf(Left) /\ Left \in SUBSET Slots /\ input \in SUBSET Slots
        /\ visited \in Seq(Slots) /\ Len(visited) \in Nat
    <2>1. TypeOK /\ Draining /\ pc = "drain" /\ UNCHANGED <<items, bias, input, setBits>>
      BY DEF Inv, DrainOne, args
    <2>2. input \in SUBSET Slots /\ visited \in Seq(Slots) /\ Len(visited) \in Nat
      BY <2>1, LenProperties DEF TypeOK
    <2>. QED
      BY <2>1, <2>2 DEF Draining, Left
  <1>1. i = IF Left = {} THEN W ELSE NextOf(Left)
    BY <1>0, Leading
  <1>2. CASE Left = {}
    <2>1. StopAt(i)
      BY <1>1, <1>2, Words DEF StopAt
    <2>2. pc' = "drained" /\ UNCHANGED <<mask, visited>>
      BY <2>1 DEF DrainOne
    <2>3. TypeOK'
      BY <1>0, <2>2 DEF TypeOK
    <2>4. Left' = Left
      BY <1>0, <2>2 DEF Left
    <2>5. Draining'
      BY <1>0, <1>2, <2>2, <2>4 DEF Draining, BitsOf
    <2>. QED
      BY <2>2, <2>3, <2>5 DEF Inv
  <1>3. CASE Left # {}
    <2>. DEFINE n == Len(visited)
    <2>1. i = NextOf(Left) /\ i \in Left /\ i \in Slots
      BY <1>0, <1>1, <1>3, NextOfLeast
    <2>2. ~StopAt(i)
      BY <2>1, Words DEF StopAt
    <2>3. visited' = Append(visited, i) /\ mask' = mask \ {W - i - 1} /\ pc' = pc
      BY <2>2 DEF DrainOne
    <2>. HIDE DEF i
    <2>4. /\ visited' \in Seq(Slots) /\ Len(visited') = n + 1 /\ visited'[n + 1] = i
          /\ \A k \in 1..n : visited'[k] = visited[k]
      BY <1>0, <2>1, <2>3, AppendProperties
    <2>5. \A k \in 1..(n + 1) : k \in 1..n \/ k = n + 1
      BY <1>0
    <2>6. Left' = Left \ {i}
      <3>1. {visited'[j] : j \in 1..(n + 1)} = {visited[j] : j \in 1..n} \cup {i}
        BY <1>0, <2>4, <2>5
      <3>. QED
        BY <1>0, <2>4, <3>1 DEF Left
    <2>7. mask' = BitsOf(Left') /\ mask' \in SUBSET Bits
      <3>1. \A j \in Slots : W - 1 - j = W - i - 1 <=> j = i
        BY <2>1, Words
      <3>2. mask' = BitsOf(Left')
        BY <1>0, <2>1, <2>3, <2>6, <3>1 DEF BitsOf
      <3>. QED
        BY <1>0, <2>3, <3>2 DEF TypeOK
    <2>8. Len(visited') + Cardinality(Left') = Cardinality(input)
      <3>1. IsFiniteSet(Left) /\ Cardinality(Left) \in Nat
        BY <1>0, SlotsFinite, FS_Subset, FS_CardinalityType
      <3>2. Cardinality(Left') = Cardinality(Left) - 1
        BY <2>1, <2>6, <3>1, FS_RemoveElement
      <3>. QED
        BY <1>0, <2>4, <3>1, <3>2 DEF Draining
    <2>9. \A k \in 1..Len(visited') :
            visited'[k] = NextOf(input \ {visited'[j] : j \in 1..(k - 1)})
      <3>. SUFFICES ASSUME NEW k \in 1..(n + 1)
                    PROVE  visited'[k] = NextOf(input \ {visited'[j] : j \in 1..(k - 1)})
        BY <2>4
      <3>1. \A j \in 1..(k - 1) : j \in 1..n
        BY <1>0
      <3>2. {visited'[j] : j \in 1..(k - 1)} = {visited[j] : j \in 1..(k - 1)}
        BY <2>4, <3>1
      <3>3. CASE k \in 1..n
        BY <1>0, <2>4, <3>2, <3>3 DEF Draining
      <3>4. CASE k = n + 1
        <4>1. 1..(k - 1) = 1..n
          BY <1>0, <3>4
        <4>. QED
          BY <2>1, <2>4, <3>2, <3>4, <4>1 DEF Left
      <3>. QED
        BY <2>5, <3>3, <3>4
    <2>10. TypeOK'
      BY <1>0, <2>3, <2>4, <2>7 DEF TypeOK
    <2>11. Draining'
      BY <1>0, <2>3, <2>7, <2>8, <2>9 DEF Draining
    <2>. QED
      BY <1>0, <2>3, <2>10, <2>11 DEF Inv
  <1>. QED
    BY <1>2, <1>3

LEMMA InvStep == Inv /\ [Next]_vars => Inv'
  <1>. SUFFICES ASSUME Inv, [Next]_vars PROVE Inv'
    OBVIOUS
  <1>1. CASE ComputeRequestMask
    <2>1. /\ TypeOK /\ pc' = "requested" /\ mask' = Compute(AtMostN(items), bias)
          /\ UNCHANGED <<items, bias, input, setBits, visited>>
      BY <1>1 DEF Inv, ComputeRequestMask, args
    <2>2. mask' \in SUBSET Bits
      BY <2>1, Types, Window
    <2>3. TypeOK'
      BY <2>1, <2>2 DEF TypeOK
    <2>4. Draining'
      BY <2>1, NotDraining
    <2>. QED
      BY <2>1, <2>3, <2>4 DEF Inv
  <1>2. CASE Finished \/ UNCHANGED vars
    <2>1. UNCHANGED <<pc, items, bias, input, mask, setBits, visited>>
      BY <1>2 DEF Finished, vars, args
    <2>2. TypeOK'
      BY <2>1 DEF Inv, TypeOK
    <2>3. Start' = Start /\ Left' = Left
      BY <2>1 DEF Start, Turned, Left
    <2>4. Draining' /\ (pc' = "clearing" => Clearing')
      BY <2>1, <2>3 DEF Inv, Draining, Clearing
    <2>5. pc' = "cleared" => mask' = Turned(Highest(Start, items))'
      BY <2>1, <2>3 DEF Inv, Turned, Highest, ReverseBits
    <2>. QED
      BY <2>1, <2>2, <2>4, <2>5 DEF Inv
  <1>. QED
    BY <1>1, <1>2, ClearStep, DrainStep DEF Next

LEMMA Invariance == Spec => []Inv
  BY InitInv, InvStep, PTL DEF Spec
-----------------------------------------------------------------------------
(* Masks stay within the word and counts within its width, so that         *)
(* leading_zeros and the shifts are defined (mpmc.rs:545-554, 559-586).    *)
THEOREM TypeCorrect == Spec => []TypeOK
  BY Invariance, PTL DEF Inv

(* compute_request_mask returns the window of Mpmc, past the status bits   *)
(* and wrapping around, for every bias and number of items                 *)
(* (mpmc.rs:271-272 and 558-572).                                          *)
THEOREM RequestsAreWindows == Spec => []RequestIsWindow
  <1>1. Inv => RequestIsWindow
    BY Types, Window DEF Inv, RequestIsWindow
  <1>. QED
    BY <1>1, Invariance, PTL

(* clear_extra_bits keeps the side Mpmc keeps, of any mask of free slots   *)
(* (mpmc.rs:286-296 and 574-587).                                          *)
THEOREM ExtraBitsCleared == Spec => []ClearKeepsOneSide
  <1>1. Inv => ClearKeepsOneSide
    <2>. SUFFICES ASSUME Inv, pc = "cleared"
                  PROVE  SlotsOf(mask) = ClearExtraBits(input, items, bias)
      BY DEF ClearKeepsOneSide
    <2>1. mask = Turned(Highest(Start, items)) /\ input \in SUBSET Slots /\ input \in SUBSET Bits
          /\ Start \in SUBSET Bits /\ Highest(Start, items) \in SUBSET Bits
      BY Types DEF Inv, Highest
    <2>2. CASE bias % 2 = 0
      <3>1. Start = input
        BY <2>1, <2>2, Reversed DEF Start, Turned
      <3>2. SlotsOf(mask) = Highest(Start, items)
        BY <2>1, <2>2, Reversed DEF Turned
      <3>. QED
        BY <2>2, <3>1, <3>2 DEF ClearExtraBits
    <2>3. CASE bias % 2 # 0
      <3>1. mask = Highest(BitsOf(input), items)
        BY <2>1, <2>3 DEF Start, Turned
      <3>. QED
        BY <2>1, <2>3, <3>1, LowestReversed DEF ClearExtraBits
    <2>. QED
      BY <2>2, <2>3
  <1>. QED
    BY <1>1, Invariance, PTL

(* drain_mask visits every slot of any mask once, lowest slot first        *)
(* (mpmc.rs:538-556).                                                      *)
THEOREM DrainVisitsEach == Spec => []DrainVisitsAll
  <1>1. Inv => DrainVisitsAll
    <2>. SUFFICES ASSUME Inv PROVE DrainVisitsAll
      OBVIOUS
    <2>1. Draining /\ TypeOK
      BY DEF Inv
    <2>2. ASSUME pc = "drained" PROVE Len(visited) = Cardinality(input)
      <3>1. Cardinality(Left) = 0 /\ Len(visited) \in Nat
        BY <2>1, <2>2, FS_EmptySet, LenProperties DEF Draining, TypeOK
      <3>. QED
        BY <2>1, <3>1 DEF Draining
    <2>. QED
      BY <2>1, <2>2 DEF Draining, DrainVisitsAll
  <1>. QED
    BY <1>1, Invariance, PTL
==============================================================================
