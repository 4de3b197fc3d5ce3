------------------------ MODULE FreestandingVecProofs -------------------------
(* Proofs about FreestandingVec, for all layouts and bounds. *)
EXTENDS FreestandingVec, Integers, SequenceTheorems, TLAPS

USE DEF LegalLayouts

LEMMA Quotient ==
  ASSUME NEW n \in Nat \ {0}, NEW x \in Nat
  PROVE  /\ x \div n \in Nat /\ x % n \in 0..(n - 1)
         /\ x = (x \div n) * n + (x % n)
         /\ x % n = 0 => x = (x \div n) * n
  <1>1. x \div n \in Nat
    OBVIOUS
  <1>2. x % n \in 0..(n - 1)
    OBVIOUS
  <1>3. x = n * (x \div n) + (x % n)
    OBVIOUS
  <1>. DEFINE q == x \div n
              r == x % n
  <1>4. q \in Nat /\ r \in 0..(n-1) /\ x = n * q + r
    BY <1>1, <1>2, <1>3
  <1>. HIDE DEF q, r
  <1>5. x = q * n + r /\ (r = 0 => x = q * n)
    BY <1>4
  <1>. QED
    BY <1>4, <1>5 DEF q, r

LEMMA Product ==
  ASSUME NEW n \in Nat \ {0}, NEW q \in Nat, NEW r \in 0..(n - 1)
  PROVE  q * n + r \in Nat /\ (q * n + r) % n = r /\ (q * n + r) \div n = q
  <1>1. (q * n + r) % n = r
    OBVIOUS
  <1>2. (q * n + r) \div n = q
    OBVIOUS
  <1>3. q * n + r \in Nat
    OBVIOUS
  <1>. QED
    BY <1>1, <1>2, <1>3

LEMMA RoundUpBound ==
  ASSUME NEW n \in Nat \ {0}, NEW x \in Nat
  PROVE  /\ RoundUp(x, n) \in Nat /\ RoundUp(x, n) >= x /\ RoundUp(x, n) % n = 0
         /\ x % n = 0 => RoundUp(x, n) = x
  <1>. DEFINE y == x + n - 1
              q == y \div n
              r == y % n
  <1>1. y \in Nat /\ n \in Nat
    OBVIOUS
  <1>. HIDE DEF y
  <1>2. q \in Nat /\ r \in 0..(n - 1) /\ y = q * n + r
    BY <1>1, Quotient
  <1>. HIDE DEF q, r
  <1>3. RoundUp(x, n) = q * n
    BY DEF RoundUp, q, y
  <1>. DEFINE p == q * n
  <1>4. p \in Nat /\ p % n = 0
    <2>1. q * n + 0 = q * n /\ 0 \in 0..(n - 1)
      BY <1>2
    <2>. QED
      BY <1>2, <2>1, Product
  <1>5. p >= x
    <2>. HIDE DEF p
    <2>. QED
     BY <1>2, <1>4 DEF y, p
  <1>6. ASSUME x % n = 0 PROVE p = x
    <2>. DEFINE k == x \div n
    <2>1. k \in Nat /\ x = k * n
      BY <1>6, Quotient
    <2>. HIDE DEF k
    <2>2. y = k * n + (n - 1) /\ n - 1 \in 0..(n - 1)
      BY <2>1 DEF y
    <2>3. q = k
      BY <2>1, <2>2, Product DEF q
    <2>. QED
      BY <2>1, <2>3
  <1>. QED
    BY <1>3, <1>4, <1>5, <1>6

LEMMA Multiple ==
  ASSUME NEW n \in Nat \ {0}, NEW q \in Nat
  PROVE  q * n \in Nat /\ (q * n) % n = 0
  OBVIOUS

LEMMA MultiplesOf ==
  ASSUME NEW n \in Nat \ {0}, NEW a \in Nat, NEW b \in Nat, a % n = 0, b % n = 0, NEW k \in Nat
  PROVE  /\ a + b \in Nat /\ (a + b) % n = 0
         /\ k * a \in Nat /\ (k * a) % n = 0
  <1>. DEFINE p == a \div n
              q == b \div n
  <1>1. p \in Nat /\ q \in Nat /\ a = p * n /\ b = q * n
    BY Quotient
  <1>. HIDE DEF p, q
  <1>2. a + b = (p + q) * n /\ p + q \in Nat
    BY <1>1
  <1>3. k * a = (k * p) * n /\ k * p \in Nat
    BY <1>1
  <1>4. (a + b) % n = 0 /\ a + b \in Nat
    <2>. DEFINE d == p + q
    <2>1. d \in Nat /\ a + b = d * n
      BY <1>2
    <2>. HIDE DEF d
    <2>2. d * n \in Nat /\ (d * n) % n = 0
      BY <2>1, Multiple
    <2>. QED
      BY <2>1, <2>2
  <1>5. (k * a) % n = 0 /\ k * a \in Nat
    <2>. DEFINE c == k * p
    <2>1. c \in Nat /\ k * a = c * n
      BY <1>3
    <2>. HIDE DEF c
    <2>2. c * n \in Nat /\ (c * n) % n = 0
      BY <2>1, Multiple
    <2>. QED
      BY <2>1, <2>2
  <1>. QED
    BY <1>4, <1>5

LEMMA MultipleOfMultiple ==
  ASSUME NEW n \in Nat \ {0}, NEW m \in Nat \ {0}, NEW a \in Nat, a % m = 0, m % n = 0
  PROVE  a % n = 0
  <1>. DEFINE p == a \div m
  <1>1. p \in Nat /\ a = p * m
    BY Quotient
  <1>. HIDE DEF p
  <1>2. (p * m) % n = 0
    BY <1>1, MultiplesOf
  <1>. QED
    BY <1>1, <1>2
-----------------------------------------------------------------------------
(* The larger of two alignments, one of which divides the other, is a      *)
(* multiple of both.                                                       *)
LEMMA LargerAlign ==
  ASSUME NEW T \in Types
  PROVE  /\ SpaceAlign(T) \in Nat \ {0}
         /\ SpaceAlign(T) % T.align = 0
  <1>1. /\ T.align \in Nat \ {0} /\ HeaderAlign \in Nat \ {0}
        /\ T.align % HeaderAlign = 0 \/ HeaderAlign % T.align = 0
    BY VecAssumption
  <1>2. \A m \in Nat \ {0}, n \in Nat \ {0} : m % n = 0 => m >= n
    OBVIOUS
  <1>3. \A n \in Nat \ {0} : n % n = 0
    OBVIOUS
  <1>. QED
    BY <1>1, <1>2, <1>3 DEF SpaceAlign, Larger

(* The header fits the space before the values, which ends at an address   *)
(* that is aligned for them; the least capacity has room for one of them   *)
(* (freestanding_vec.rs:29-32 and 42-49).                                  *)
LEMMA Layouts ==
  ASSUME NEW T \in Types
  PROVE  /\ T.size \in Nat /\ T.align \in Nat \ {0} /\ T.size % T.align = 0
         /\ SpaceSize(T) \in Nat /\ SpaceSize(T) >= HeaderSize /\ HeaderSize > 0
         /\ SpaceSize(T) % T.align = 0
         /\ MinNonZeroCap(T) \in Nat /\ MinNonZeroCap(T) >= SpaceSize(T)
  <1>1. /\ T.size \in Nat /\ T.align \in Nat \ {0} /\ T.size % T.align = 0
        /\ HeaderSize \in Nat \ {0}
    BY VecAssumption
  <1>. DEFINE least == Larger(HeaderSize, T.size)
  <1>2. least \in Nat /\ least >= HeaderSize
    BY <1>1 DEF Larger
  <1>. HIDE DEF least
  <1>3. /\ SpaceSize(T) \in Nat /\ SpaceSize(T) >= least
        /\ SpaceSize(T) % SpaceAlign(T) = 0
    BY <1>2, LargerAlign, RoundUpBound DEF SpaceSize, least
  <1>4. SpaceSize(T) % T.align = 0
    BY <1>1, <1>3, LargerAlign, MultipleOfMultiple
  <1>5. MinNonZeroCap(T) \in Nat /\ MinNonZeroCap(T) >= SpaceSize(T)
    <2>. DEFINE n == IF T.size = 1 THEN 8 ELSE IF T.size <= 1024 THEN 4 ELSE 1
    <2>1. n \in {1, 4, 8}
      OBVIOUS
    <2>. HIDE DEF n
    <2>2. n * T.size \in Nat
      BY <1>1, <2>1
    <2>3. MinNonZeroCap(T) = n * T.size + SpaceSize(T)
      BY DEF MinNonZeroCap, n
    <2>. QED
      BY <1>3, <2>2, <2>3
  <1>. QED
    BY <1>1, <1>2, <1>3, <1>4, <1>5

(* The base that pop computes from the sizes in the header is the one push *)
(* computes from the type (freestanding_vec.rs:208-253).                   *)
LEMMA BasesAgree ==
  ASSUME NEW T \in Types, NEW h, h.value_size = T.size, h.alignment = SpaceAlign(T)
  PROVE  PopBase(h) = SpaceSize(T)
  <1>1. RoundUp(HeaderSize, HeaderAlign) = HeaderSize
    BY VecAssumption, RoundUpBound
  <1>. QED
    BY <1>1 DEF PopBase, SpaceSize
-----------------------------------------------------------------------------
HeaderType == [metadata : 1..MaxInits, value_size : Nat, alignment : Nat \ {0}, len : 0..MaxLen,
               capacity : Nat]

(* What the header says of the block and where the values are. *)
Described ==
  /\ header.value_size = home.size /\ header.alignment = SpaceAlign(home)
  /\ block = [size |-> header.capacity, align |-> header.alignment]
  /\ header.len = Len(values)
  /\ \A i \in 1..Len(values) :
       values[i] = [at |-> SpaceSize(home) + (i - 1) * home.size, type |-> home]
  /\ SpaceSize(home) + header.len * home.size <= header.capacity
  /\ header.metadata <= inits

(* Which metadata values are dropped: all that there were but the one in   *)
(* the header.                                                             *)
Dropped(k) == k <= inits /\ ~(block # NoBlock /\ k = header.metadata)

Inv ==
  /\ TypeOK
  /\ home # NoType <=> block # NoBlock
  /\ data = Block <=> block # NoBlock
  /\ home # NoType => Described
  /\ \A k \in 1..MaxInits : drops[k] = IF Dropped(k) THEN 1 ELSE 0
  /\ ~misuse
  /\ phase = "dropped" => block = NoBlock

LEMMA Nones ==
  /\ \A T \in Types : T # NoType /\ Dangling(T) # Block /\ Dangling(T) \in Nat \ {0}
  /\ \A a \in Nat, n \in Nat \ {0} : [size |-> a, align |-> n] # NoBlock
  BY VecAssumption, LargerAlign DEF NoType, NoBlock, Block, Dangling

(* The pointer tells the truth; is_allocated may take a pointer that       *)
(* dangles for another type for a block, but no block for a dangling one.  *)
LEMMA Allocated ==
  ASSUME Inv
  PROVE  /\ data = Block => /\ IsAllocated /\ block # NoBlock
                            /\ home \in Types /\ home # NoType /\ Described
         /\ data # Block => block = NoBlock /\ home = NoType
         /\ home # NoType => data = Block
         /\ ~IsAllocated => data # Block
  BY Nones DEF Inv, TypeOK, IsAllocated

(* What init leaves behind if it does not panic. *)
LEMMA FreshVec ==
  ASSUME Inv, NEW k \in 1..MaxInits, NEW cap \in Nat, cap >= SpaceSize(ty),
         phase # "dropped", BeginInit(k), header' = FreshHeader(k, cap),
         block' = [size |-> cap, align |-> SpaceAlign(ty)], data' = Block, home' = ty,
         misuse' = FALSE, drops' = [j \in 1..MaxInits |-> IF j < k THEN 1 ELSE 0]
  PROVE  Inv'
  <1>1. /\ ty \in Types /\ values = <<>> /\ UNCHANGED <<ty, values, phase>> /\ inits' = k
        /\ phase' # "dropped"
    BY DEF Inv, TypeOK, BeginInit
  <1>2. /\ SpaceSize(ty) \in Nat /\ ty.size \in Nat /\ SpaceAlign(ty) \in Nat \ {0}
        /\ block' # NoBlock /\ home' # NoType
    BY <1>1, Layouts, LargerAlign, Nones
  <1>3. /\ header'.metadata = k /\ header'.value_size = ty.size /\ header'.len = 0
        /\ header'.alignment = SpaceAlign(ty) /\ header'.capacity = cap
    BY DEF FreshHeader
  <1>4. TypeOK'
    <2>1. header' \in HeaderType
      BY <1>2, VecAssumption DEF FreshHeader, HeaderType
    <2>2. \A j \in 1..MaxInits : (IF j < k THEN 1 ELSE 0) \in Nat
      OBVIOUS
    <2>3. drops' \in [1..MaxInits -> Nat]
      BY <2>2
    <2>. QED
      BY <1>1, <1>2, <2>1, <2>3 DEF Inv, TypeOK, HeaderType
  <1>5. Described'
    BY <1>1, <1>2, <1>3 DEF Described
  <1>6. \A j \in 1..MaxInits : drops'[j] = IF Dropped(j)' THEN 1 ELSE 0
    BY <1>1, <1>2, <1>3 DEF Dropped
  <1>. QED
    BY <1>1, <1>2, <1>4, <1>5, <1>6 DEF Inv

(* How the drop of the old metadata shows in the counts.                   *)
LEMMA DropsOfInit ==
  ASSUME Inv, NEW k \in 1..MaxInits, k = inits + 1, NEW S,
         S = (IF block # NoBlock THEN {header.metadata} ELSE {}),
         NEW S2 \in {{}, {k}}, DropMetadata(S \cup S2)
  PROVE  drops' = [j \in 1..MaxInits |-> IF j < k \/ j \in S2 THEN 1 ELSE 0]
  <1>1. /\ inits \in 1..MaxInits /\ drops \in [1..MaxInits -> Nat]
        /\ \A j \in 1..MaxInits : drops[j] = IF Dropped(j) THEN 1 ELSE 0
        /\ block # NoBlock => header.metadata <= inits
    BY DEF Inv, TypeOK, Described
  <1>2. ASSUME NEW j \in 1..MaxInits
        PROVE  (IF j \in S \cup S2 THEN drops[j] + 1 ELSE drops[j])
                 = IF j < k \/ j \in S2 THEN 1 ELSE 0
    BY <1>1 DEF Dropped
  <1>3. DOMAIN drops = 1..MaxInits
    BY <1>1
  <1>. QED
    BY <1>2, <1>3 DEF DropMetadata
-----------------------------------------------------------------------------
LEMMA InitInv == Init => Inv
  <1>. SUFFICES ASSUME Init PROVE Inv
    OBVIOUS
  <1>1. /\ ty \in Types /\ home = ty /\ values = <<>> /\ data = Block
        /\ block = [size |-> MinNonZeroCap(ty), align |-> SpaceAlign(ty)]
        /\ header = FreshHeader(1, MinNonZeroCap(ty))
        /\ inits = 1 /\ drops = [k \in 1..MaxInits |-> 0] /\ misuse = FALSE /\ phase = "held"
    BY DEF Init
  <1>2. /\ MinNonZeroCap(ty) \in Nat /\ MinNonZeroCap(ty) >= SpaceSize(ty)
        /\ SpaceSize(ty) \in Nat /\ ty.size \in Nat /\ SpaceAlign(ty) \in Nat \ {0}
        /\ block # NoBlock /\ home # NoType
    BY <1>1, Layouts, LargerAlign, Nones
  <1>3. /\ header.metadata = 1 /\ header.value_size = ty.size /\ header.len = 0
        /\ header.alignment = SpaceAlign(ty) /\ header.capacity = MinNonZeroCap(ty)
    BY <1>1 DEF FreshHeader
  <1>4. header \in HeaderType
    BY <1>1, <1>2, VecAssumption DEF FreshHeader, HeaderType
  <1>5. TypeOK
    <2>1. drops \in [1..MaxInits -> Nat] /\ inits \in 1..MaxInits
      BY <1>1, VecAssumption
    <2>2. values \in Seq([at : Nat, type : Types])
      BY <1>1, EmptySeq
    <2>. QED
      BY <1>1, <1>2, <1>4, <2>1, <2>2 DEF TypeOK, HeaderType
  <1>6. Described
    BY <1>1, <1>2, <1>3 DEF Described
  <1>. QED
    BY <1>1, <1>2, <1>3, <1>5, <1>6 DEF Inv, Dropped

(* What reserve makes of the capacity (freestanding_vec.rs:141-167). *)
LEMMA ReservedBound ==
  ASSUME NEW h, h.len \in Nat, h.capacity \in Nat, NEW extra \in Nat, ty \in Types,
         extra = 0 => h.capacity >= RequiredCap(h, 0)
  PROVE  /\ Reserved(h, extra) \in Nat /\ RequiredCap(h, extra) \in Nat
         /\ Reserved(h, extra) >= RequiredCap(h, extra)
  <1>. DEFINE used == h.len * ty.size
  <1>1. used \in Nat /\ SpaceSize(ty) \in Nat
    BY Layouts
  <1>2. RequiredCap(h, extra) = used + SpaceSize(ty) + extra
    BY DEF RequiredCap
  <1>. HIDE DEF used
  <1>3. RequiredCap(h, extra) \in Nat
    BY <1>1, <1>2
  <1>. QED
    BY <1>3 DEF Reserved, Larger

(* The block is reallocated with the layout it was allocated with. *)
LEMMA ReserveKeeps ==
  ASSUME Inv, data = Block, header.alignment = SpaceAlign(ty), NEW extra, Reserve(header, extra)
  PROVE  /\ block' = [size |-> Reserved(header, extra), align |-> SpaceAlign(ty)]
         /\ misuse' = FALSE
  <1>1. block = [size |-> header.capacity, align |-> SpaceAlign(ty)] /\ misuse = FALSE
    BY Allocated DEF Described, Inv, TypeOK
  <1>. QED
    BY <1>1 DEF Reserve

LEMMA PushStep == Inv /\ Push => Inv'
  <1>. SUFFICES ASSUME Inv, Push PROVE Inv'
    OBVIOUS
  <1>. DEFINE cap == Reserved(header, ty.size)
              v == [at |-> PushAddress, type |-> ty]
  <1>0. TypeOK /\ ty \in Types /\ home = ty /\ header.len \in Nat /\ header.capacity \in Nat
        /\ ty.size \in Nat
    BY Layouts DEF Inv, TypeOK, Push
  <1>1. home # NoType /\ Described /\ block # NoBlock /\ data = Block
    BY <1>0, Nones, Allocated DEF Inv
  <1>2. /\ header.len < MaxLen
        /\ header' = [header EXCEPT !.len = @ + 1, !.capacity = cap]
        /\ values' = Append(values, v)
        /\ UNCHANGED <<ty, home, data, inits, drops, phase>>
        /\ Reserve(header, ty.size)
    BY DEF Push
  <1>3. block' = [size |-> cap, align |-> SpaceAlign(ty)] /\ misuse' = FALSE
    BY <1>0, <1>1, <1>2, ReserveKeeps DEF Described
  <1>4. header.len * ty.size + SpaceSize(ty) <= header.capacity
    <2>1. header.len * ty.size \in Nat /\ SpaceSize(ty) \in Nat
      BY <1>0, Layouts
    <2>. DEFINE used == header.len * ty.size
    <2>2. SpaceSize(ty) + used <= header.capacity
      BY <1>0, <1>1 DEF Described
    <2>. HIDE DEF used
    <2>3. used + SpaceSize(ty) <= header.capacity
      BY <1>0, <2>1, <2>2 DEF used
    <2>. QED
      BY <2>3 DEF used
  <1>5. cap \in Nat /\ cap >= RequiredCap(header, ty.size)
    <2>1. header.capacity >= RequiredCap(header, 0)
      <3>. DEFINE used == header.len * ty.size
      <3>1. used \in Nat /\ SpaceSize(ty) \in Nat /\ used + SpaceSize(ty) <= header.capacity
        BY <1>0, <1>4, Layouts
      <3>2. RequiredCap(header, 0) = used + SpaceSize(ty) + 0
        BY DEF RequiredCap
      <3>. HIDE DEF used
      <3>. QED
        BY <1>0, <3>1, <3>2
    <2>. QED
      BY <1>0, <2>1, ReservedBound
  <1>6. SpaceSize(ty) + (header.len + 1) * ty.size <= cap
    <2>. DEFINE used == header.len * ty.size
                more == (header.len + 1) * ty.size
    <2>1. used \in Nat /\ more = used + ty.size /\ SpaceSize(ty) \in Nat
      BY <1>0, Layouts
    <2>2. RequiredCap(header, ty.size) = used + SpaceSize(ty) + ty.size
      BY DEF RequiredCap
    <2>. HIDE DEF used, more, cap
    <2>3. SpaceSize(ty) + more <= cap
      BY <1>0, <1>5, <2>1, <2>2
    <2>. QED
      BY <2>3 DEF more
  <1>. HIDE DEF cap
  <1>7. /\ header'.metadata = header.metadata /\ header'.value_size = header.value_size
        /\ header'.alignment = header.alignment /\ header'.len = header.len + 1
        /\ header'.capacity = cap
        /\ header' \in HeaderType
    <2>1. header \in HeaderType
      BY <1>0 DEF TypeOK, HeaderType
    <2>2. header.len \in 0..MaxLen /\ MaxLen \in Nat
      BY <2>1, VecAssumption DEF HeaderType
    <2>3. header.len + 1 \in 0..MaxLen
      BY <1>0, <1>2, <2>2
    <2>. QED
      BY <1>2, <1>5, <2>1, <2>3 DEF HeaderType
  <1>8. v \in [at : Nat, type : Types]
    <2>1. PushAddress \in Nat
      BY <1>0, Layouts DEF PushAddress
    <2>. QED
      BY <1>0, <2>1
  <1>9. /\ values' \in Seq([at : Nat, type : Types]) /\ Len(values') = Len(values) + 1
        /\ Len(values) \in Nat
        /\ \A i \in 1..Len(values) : values'[i] = values[i]
        /\ values'[Len(values) + 1] = v
    <2>. HIDE DEF v
    <2>. QED
      BY <1>0, <1>2, <1>8, AppendProperties, LenProperties DEF TypeOK
  <1>10. TypeOK'
    BY <1>0, <1>2, <1>3, <1>5, <1>7, <1>9, LargerAlign DEF TypeOK, HeaderType
  <1>11. Described'
    <2>1. v = [at |-> SpaceSize(ty) + header.len * ty.size, type |-> ty]
      BY DEF PushAddress
    <2>2. ASSUME NEW i \in 1..Len(values')
          PROVE  values'[i] = [at |-> SpaceSize(home) + (i - 1) * home.size, type |-> home]
      <3>. HIDE DEF v
      <3>1. CASE i \in 1..Len(values)
        BY <1>1, <1>9, <3>1 DEF Described
      <3>2. CASE i = Len(values) + 1
        <4>1. i - 1 = header.len
          BY <1>0, <1>1, <1>9, <3>2 DEF Described
        <4>. QED
          BY <1>0, <1>9, <2>1, <3>2, <4>1
      <3>. QED
        BY <1>9, <3>1, <3>2
    <2>. HIDE DEF v
    <2>. QED
      BY <1>0, <1>1, <1>2, <1>3, <1>6, <1>7, <1>9, <2>2 DEF Described
  <1>12. block' # NoBlock
    BY <1>0, <1>3, <1>5, LargerAlign, Nones
  <1>13. \A k \in 1..MaxInits : Dropped(k)' <=> Dropped(k)
    BY <1>1, <1>2, <1>7, <1>12 DEF Dropped
  <1>. QED
    BY <1>1, <1>2, <1>3, <1>10, <1>11, <1>12, <1>13 DEF Inv

(* A sequence without its last element. *)
LEMMA WithoutLast ==
  ASSUME NEW S, NEW s \in Seq(S), s # <<>>
  PROVE  /\ SubSeq(s, 1, Len(s) - 1) \in Seq(S)
         /\ Len(SubSeq(s, 1, Len(s) - 1)) = Len(s) - 1
         /\ \A i \in 1..Len(SubSeq(s, 1, Len(s) - 1)) : SubSeq(s, 1, Len(s) - 1)[i] = s[i]
  <1>. DEFINE n == Len(s) - 1
  <1>1. Len(s) \in Nat \ {0} /\ n \in Nat /\ 1..n \subseteq 1..Len(s)
    BY EmptySeq, LenProperties
  <1>2. \A i \in 1..n : s[i] \in S
    BY <1>1, ElementOfSeq
  <1>. HIDE DEF n
  <1>3. /\ SubSeq(s, 1, n) \in Seq(S)
        /\ Len(SubSeq(s, 1, n)) = IF 1 <= n THEN n - 1 + 1 ELSE 0
        /\ \A i \in 1..(n - 1 + 1) : SubSeq(s, 1, n)[i] = s[1 + i - 1]
    BY <1>1, <1>2, SubSeqProperties
  <1>4. Len(SubSeq(s, 1, n)) = n
    BY <1>1, <1>3
  <1>5. \A i \in 1..n : SubSeq(s, 1, n)[i] = s[i]
    BY <1>1, <1>3
  <1>. QED
    BY <1>3, <1>4, <1>5 DEF n

LEMMA PopStep == Inv /\ Pop => Inv'
  <1>. SUFFICES ASSUME Inv, Pop PROVE Inv'
    OBVIOUS
  <1>0. TypeOK /\ home # NoType /\ Described /\ header.len \in Nat \ {0} /\ home \in Types
    BY Allocated DEF Inv, TypeOK, Pop
  <1>1. /\ header' = [header EXCEPT !.len = @ - 1]
        /\ values' = SubSeq(values, 1, Len(values) - 1)
        /\ UNCHANGED <<ty, home, data, block, inits, drops, misuse, phase>>
    BY DEF Pop
  <1>2. /\ header'.metadata = header.metadata /\ header'.value_size = header.value_size
        /\ header'.alignment = header.alignment /\ header'.len = header.len - 1
        /\ header'.capacity = header.capacity
        /\ header' \in HeaderType
    <2>1. header \in HeaderType
      BY <1>0 DEF TypeOK, HeaderType
    <2>2. header.len \in 0..MaxLen /\ MaxLen \in Nat
      BY <2>1, VecAssumption DEF HeaderType
    <2>3. header.len - 1 \in 0..MaxLen
      BY <1>0, <2>2
    <2>. QED
      BY <1>1, <2>1, <2>3 DEF HeaderType
  <1>3. /\ values' \in Seq([at : Nat, type : Types]) /\ Len(values') = Len(values) - 1
        /\ Len(values) \in Nat \ {0}
        /\ \A i \in 1..Len(values') : values'[i] = values[i]
    <2>. DEFINE S == [at : Nat, type : Types]
    <2>1. Len(values) = header.len /\ values \in Seq(S)
      BY <1>0 DEF Described, TypeOK
    <2>. HIDE DEF S
    <2>2. values # <<>>
      BY <1>0, <2>1, EmptySeq
    <2>3. /\ values' \in Seq(S) /\ Len(values') = Len(values) - 1
          /\ \A i \in 1..Len(values') : values'[i] = values[i]
      BY <1>1, <2>1, <2>2, WithoutLast
    <2>4. values' \in Seq([at : Nat, type : Types])
      BY <2>3 DEF S
    <2>. QED
      BY <1>0, <2>1, <2>3, <2>4
  <1>4. SpaceSize(home) + (header.len - 1) * home.size <= header.capacity
    <2>. DEFINE used == header.len * home.size
                less == (header.len - 1) * home.size
    <2>1. home.size \in Nat /\ SpaceSize(home) \in Nat
      BY <1>0, Layouts
    <2>2. used \in Nat /\ less \in Nat /\ used = less + home.size
      BY <1>0, <2>1
    <2>3. SpaceSize(home) + used <= header.capacity /\ header.capacity \in Nat
      BY <1>0 DEF Described, TypeOK
    <2>. HIDE DEF used, less
    <2>4. SpaceSize(home) + less <= header.capacity
      BY <2>1, <2>2, <2>3
    <2>. QED
      BY <2>4 DEF less
  <1>5. TypeOK'
    BY <1>0, <1>1, <1>2, <1>3 DEF TypeOK, HeaderType
  <1>6. Described'
    BY <1>0, <1>1, <1>2, <1>3, <1>4 DEF Described
  <1>. QED
    BY <1>0, <1>1, <1>2, <1>5, <1>6 DEF Inv, Dropped

(* init, when it need not free the block or has freed it, leaves a vector  *)
(* that is fresh (freestanding_vec.rs:172-206).                            *)
LEMMA InitStep ==
  ASSUME Inv, phase = "held", NEW k \in 1..MaxInits,
         InitRealigns(k) \/ InitAllocates(k) \/ InitReuses(k)
  PROVE  Inv'
  <1>0. TypeOK /\ ty \in Types /\ BeginInit(k) /\ k = inits + 1
    BY DEF Inv, TypeOK, InitRealigns, InitAllocates, InitReuses, BeginInit
  <1>1. /\ MinNonZeroCap(ty) \in Nat /\ MinNonZeroCap(ty) >= SpaceSize(ty)
        /\ SpaceSize(ty) \in Nat /\ ty.size \in Nat
    BY <1>0, Layouts
  <1>2. CASE InitRealigns(k)
    <2>1. /\ data = Block /\ Deallocate({}) /\ Allocate(k)
      BY <1>2 DEF InitRealigns, MustRealign, BeginInit
    <2>2. Described /\ block # NoBlock /\ misuse = FALSE
      BY <2>1, Allocated DEF Inv, TypeOK
    <2>3. misuse' = FALSE /\ DropMetadata({header.metadata} \cup {})
      BY <2>1, <2>2 DEF Deallocate, Described
    <2>4. drops' = [j \in 1..MaxInits |-> IF j < k THEN 1 ELSE 0]
      BY <1>0, <2>2, <2>3, DropsOfInit
    <2>. QED
      BY <1>0, <1>1, <2>1, <2>3, <2>4, FreshVec DEF Allocate
  <1>3. CASE InitAllocates(k)
    <2>1. ~IsAllocated /\ Allocate(k) /\ UNCHANGED <<drops, misuse>>
      BY <1>3 DEF InitAllocates
    <2>2. block = NoBlock /\ misuse' = FALSE
      BY <2>1, Allocated DEF Inv, TypeOK
    <2>3. drops' = [j \in 1..MaxInits |-> IF j < k THEN 1 ELSE 0]
      <3>1. /\ drops \in [1..MaxInits -> Nat] /\ inits \in Nat
            /\ \A j \in 1..MaxInits : drops[j] = IF j < k THEN 1 ELSE 0
        BY <1>0, <2>2 DEF Inv, TypeOK, Dropped
      <3>. QED
        BY <2>1, <3>1
    <2>. QED
      BY <1>0, <1>1, <2>1, <2>2, <2>3, FreshVec DEF Allocate
  <1>4. CASE InitReuses(k)
    <2>. DEFINE missing == IF header.capacity < MinNonZeroCap(ty)
                           THEN MinNonZeroCap(ty) - header.capacity ELSE 0
                cap == Reserved(header, missing)
    <2>1. /\ IsAllocated /\ data = Block /\ ~MustRealign /\ Reserve(header, missing)
          /\ header' = FreshHeader(k, cap) /\ DropMetadata({header.metadata})
          /\ home' = ty /\ UNCHANGED data
      BY <1>4 DEF InitReuses, BeginInit, ReplacedByInit
    <2>2. /\ Described /\ block # NoBlock /\ data = Block /\ header.alignment = SpaceAlign(ty)
          /\ header.len = 0 /\ header.capacity \in Nat
      <3>1. Described /\ block # NoBlock /\ data = Block /\ header.alignment = SpaceAlign(ty)
        BY <2>1, Allocated DEF Inv, MustRealign
      <3>2. values = <<>>
        BY <1>0 DEF BeginInit
      <3>. QED
        BY <1>0, <3>1, <3>2 DEF Described, TypeOK
    <2>3. missing \in Nat /\ (missing = 0 => header.capacity >= MinNonZeroCap(ty))
      BY <1>1, <2>2
    <2>. HIDE DEF missing
    <2>4. \A extra \in Nat : RequiredCap(header, extra) = SpaceSize(ty) + extra
      BY <1>1, <2>2 DEF RequiredCap
    <2>5. cap \in Nat /\ cap >= SpaceSize(ty)
      <3>1. missing = 0 => header.capacity >= RequiredCap(header, 0)
        BY <1>1, <2>2, <2>3, <2>4
      <3>2. cap \in Nat /\ cap >= RequiredCap(header, missing)
        BY <1>0, <2>2, <2>3, <3>1, ReservedBound
      <3>. HIDE DEF cap
      <3>. QED
        BY <1>1, <2>3, <2>4, <3>2
    <2>6. block' = [size |-> cap, align |-> SpaceAlign(ty)] /\ misuse' = FALSE
      BY <2>1, <2>2, ReserveKeeps
    <2>7. drops' = [j \in 1..MaxInits |-> IF j < k THEN 1 ELSE 0]
      <3>1. /\ DropMetadata({header.metadata} \cup {})
            /\ {header.metadata} = IF block # NoBlock THEN {header.metadata} ELSE {}
        BY <2>1, <2>2
      <3>. QED
        BY <1>0, <3>1, DropsOfInit
    <2>. HIDE DEF cap
    <2>8. data' = Block
      BY <2>1, <2>2
    <2>. QED
      BY <1>0, <2>1, <2>5, <2>6, <2>7, <2>8, FreshVec
  <1>. QED
    BY <1>2, <1>3, <1>4

(* An init that panics leaves no block, and has dropped its argument       *)
(* (freestanding_vec.rs:60-88 and 172-177).                                *)
LEMMA InitPanicsStep ==
  ASSUME Inv, NEW k \in 1..MaxInits, InitPanics(k)
  PROVE  Inv'
  <1>1. /\ BeginInit(k) /\ data = Block /\ Deallocate({k}) /\ block' = NoBlock
        /\ data' = Dangling(ty) /\ home' = NoType /\ header' = header
    BY DEF InitPanics, MustRealign, DataAtPanic, BeginInit
  <1>2. /\ TypeOK /\ ty \in Types /\ Described /\ block # NoBlock /\ misuse = FALSE
        /\ k = inits + 1 /\ inits' = k /\ UNCHANGED <<ty, values, phase>>
    BY <1>1, Allocated DEF Inv, TypeOK, BeginInit
  <1>3. misuse' = FALSE /\ DropMetadata({header.metadata} \cup {k})
    BY <1>1, <1>2 DEF Deallocate, Described
  <1>4. drops' = [j \in 1..MaxInits |-> IF j < k \/ j \in {k} THEN 1 ELSE 0]
    BY <1>2, <1>3, DropsOfInit
  <1>5. /\ drops' \in [1..MaxInits -> Nat]
        /\ \A j \in 1..MaxInits : drops'[j] = IF j <= k THEN 1 ELSE 0
    <2>1. \A j \in 1..MaxInits : (IF j < k \/ j \in {k} THEN 1 ELSE 0) \in Nat
      OBVIOUS
    <2>2. \A j \in 1..MaxInits : j < k \/ j \in {k} <=> j <= k
      OBVIOUS
    <2>. QED
      BY <1>4, <2>1, <2>2
  <1>6. TypeOK'
    BY <1>1, <1>2, <1>3, <1>5 DEF TypeOK, NoBlock, Dangling
  <1>7. data' # Block
    BY <1>1, <1>2, Nones
  <1>. QED
    BY <1>1, <1>2, <1>3, <1>5, <1>6, <1>7 DEF Inv, Dropped

LEMMA DropStep == Inv /\ Drop => Inv'
  <1>. SUFFICES ASSUME Inv, Drop PROVE Inv'
    OBVIOUS
  <1>0. /\ TypeOK /\ ty \in Types /\ phase' = "dropped" /\ UNCHANGED <<ty, header, values, inits>>
        /\ misuse = FALSE
    BY DEF Inv, TypeOK, Drop
  <1>1. CASE IsAllocated
    <2>1. /\ data = Block /\ Deallocate({})
          /\ block' = NoBlock /\ data' = Dangling(ty) /\ home' = NoType
      BY <1>1 DEF Drop
    <2>2. Described /\ block # NoBlock /\ data' # Block
      BY <1>0, <2>1, Allocated, Nones
    <2>3. misuse' = FALSE
      BY <1>0, <2>1, <2>2 DEF Deallocate, Described
    <2>4. /\ drops' \in [1..MaxInits -> Nat]
          /\ \A k \in 1..MaxInits : drops'[k] = IF k <= inits THEN 1 ELSE 0
      <3>1. /\ drops \in [1..MaxInits -> Nat] /\ header.metadata <= inits
            /\ \A k \in 1..MaxInits : drops[k] = IF Dropped(k) THEN 1 ELSE 0
        BY <1>0, <2>2 DEF Inv, TypeOK, Described
      <3>2. drops' = [k \in 1..MaxInits |-> IF k = header.metadata THEN drops[k] + 1 ELSE drops[k]]
        BY <2>1, <3>1 DEF Deallocate, DropMetadata
      <3>3. \A k \in 1..MaxInits :
              (IF k = header.metadata THEN drops[k] + 1 ELSE drops[k]) = IF k <= inits THEN 1 ELSE 0
        BY <2>2, <3>1 DEF Dropped
      <3>4. \A k \in 1..MaxInits :
              (IF k = header.metadata THEN drops[k] + 1 ELSE drops[k]) \in Nat
        BY <3>1
      <3>. QED
        BY <3>2, <3>3, <3>4
    <2>5. TypeOK'
      BY <1>0, <2>1, <2>3, <2>4 DEF TypeOK, NoBlock, Dangling
    <2>. QED
      BY <1>0, <2>1, <2>2, <2>3, <2>4, <2>5 DEF Inv, Dropped
  <1>2. CASE ~IsAllocated
    <2>1. UNCHANGED <<misuse, drops, block, data, home>>
      BY <1>2 DEF Drop
    <2>2. home = NoType /\ block = NoBlock
      BY <1>2, Allocated
    <2>3. TypeOK'
      BY <1>0, <2>1 DEF TypeOK
    <2>. QED
      BY <1>0, <2>1, <2>2, <2>3 DEF Inv, Dropped
  <1>. QED
    BY <1>1, <1>2

LEMMA CastStep ==
  ASSUME Inv, NEW T \in Types, Cast(T)
  PROVE  Inv'
  <1>1. /\ ty' = T
        /\ UNCHANGED <<home, data, block, header, values, inits, drops, misuse, phase>>
    BY DEF Cast
  <1>2. TypeOK'
    BY <1>1 DEF Inv, TypeOK
  <1>. QED
    BY <1>1, <1>2 DEF Inv, Described, Dropped

(* A call that strays changes nothing: the process is gone. *)
LEMMA StrayStep ==
  ASSUME Inv, UseStrays \/ InitStrays \/ DropStrays
  PROVE  Inv'
  <1>1. /\ phase' \in {"use", "init", "drop"}
        /\ UNCHANGED <<ty, home, data, block, header, values, inits, drops, misuse>>
    BY DEF UseStrays, InitStrays, DropStrays, Stray
  <1>2. TypeOK'
    BY <1>1 DEF Inv, TypeOK
  <1>. QED
    BY <1>1, <1>2 DEF Inv, Described, Dropped

LEMMA Stutter == Inv /\ UNCHANGED vars => Inv'
  <1>. SUFFICES ASSUME Inv, UNCHANGED vars PROVE Inv'
    OBVIOUS
  <1>1. TypeOK'
    BY DEF vars, Inv, TypeOK
  <1>. QED
    BY <1>1 DEF vars, Inv, Described, Dropped

LEMMA InvStep == Inv /\ [Next]_vars => Inv'
  BY CastStep, PushStep, PopStep, InitStep, InitPanicsStep, DropStep, StrayStep, Stutter
  DEF Next, Finished

LEMMA Invariance == Spec => []Inv
  BY InitInv, InvStep, PTL DEF Spec
-----------------------------------------------------------------------------
(* The value at index i, counted from 1, as push wrote it. *)
LEMMA ValueAt ==
  ASSUME Inv, home # NoType, NEW i \in 1..Len(values)
  PROVE  /\ values[i].at = SpaceSize(home) + (i - 1) * home.size /\ values[i].type = home
         /\ home \in Types /\ i \in Nat \ {0} /\ Len(values) \in Nat
  <1>1. /\ home \in Types /\ Len(values) \in Nat
        /\ values[i] = [at |-> SpaceSize(home) + (i - 1) * home.size, type |-> home]
    BY LenProperties DEF Inv, TypeOK, Described
  <1>. QED
    BY <1>1

(* Layouts, addresses and the fields of the header keep their types. *)
THEOREM TypeCorrect == Spec => []TypeOK
  BY Invariance, PTL DEF Inv

LEMMA SameAddress == Inv => PopsWhatWasPushed
  <1>. SUFFICES ASSUME Inv, home # NoType
                PROVE  /\ header.len = Len(values)
                       /\ values # <<>> => PopAddress = values[Len(values)].at
    BY DEF PopsWhatWasPushed
  <1>1. Described /\ home \in Types /\ header.len \in Nat /\ values \in Seq([at : Nat, type : Types])
    BY DEF Inv, TypeOK
  <1>2. header.len = Len(values)
    BY <1>1 DEF Described
  <1>3. ASSUME values # <<>> PROVE PopAddress = values[Len(values)].at
    <2>1. Len(values) # 0
      BY <1>1, <1>3, EmptySeq
    <2>2. Len(values) \in 1..Len(values)
      BY <1>1, <1>2, <2>1
    <2>3. values[Len(values)].at = SpaceSize(home) + (Len(values) - 1) * home.size
      BY <2>2, ValueAt
    <2>4. PopBase(header) = SpaceSize(home) /\ header.value_size = home.size
      BY <1>1, BasesAgree DEF Described
    <2>. QED
      BY <1>2, <2>3, <2>4 DEF PopAddress
  <1>. QED
    BY <1>2, <1>3

(* pop computes, from the sizes the header keeps of the type of the last   *)
(* init, the address push computed from that type, under whatever type the *)
(* vector is held when it is called (freestanding_vec.rs:208-253).         *)
THEOREM PopFindsPush == Spec => []PopsWhatWasPushed
  BY SameAddress, Invariance, PTL

(* Values lie behind the header, aligned, one after the other, and inside  *)
(* the block (freestanding_vec.rs:29-32, 141-167 and 208-219).             *)
THEOREM ValuesInBlock == Spec => []ValuesFit
  <1>1. Inv => ValuesFit
    <2>. SUFFICES ASSUME Inv, home # NoType
                  PROVE  /\ HeaderSize <= block.size
                         /\ \A i \in 1..Len(values) :
                              /\ values[i].at >= HeaderSize
                              /\ values[i].at % values[i].type.align = 0
                              /\ block.align % values[i].type.align = 0
                              /\ values[i].at + values[i].type.size
                                   <= IF i = Len(values) THEN block.size ELSE values[i + 1].at
      BY DEF ValuesFit
    <2>. DEFINE base == SpaceSize(home)
                size == home.size
                Offset(n) == n * size
    <2>1. /\ Described /\ home \in Types /\ header.capacity \in Nat /\ header.len \in Nat
          /\ block.size = header.capacity /\ block.align = SpaceAlign(home)
          /\ header.len = Len(values)
      <3>1. Described /\ home \in Types /\ TypeOK
        BY DEF Inv, TypeOK
      <3>. QED
        BY <3>1 DEF Described, TypeOK
    <2>2. /\ base \in Nat /\ base >= HeaderSize /\ base % home.align = 0 /\ HeaderSize \in Nat
          /\ size \in Nat /\ size % home.align = 0 /\ home.align \in Nat \ {0}
          /\ SpaceAlign(home) % home.align = 0
      BY <2>1, Layouts, LargerAlign, VecAssumption
    <2>3. base + Offset(Len(values)) <= block.size
      BY <2>1 DEF Described
    <2>. HIDE DEF base, size, Offset
    <2>4. \A n \in Nat : Offset(n) \in Nat /\ Offset(n) % home.align = 0
      BY <2>2, MultiplesOf DEF Offset
    <2>5. \A n \in Nat : Offset(n + 1) = Offset(n) + size
      BY <2>2 DEF Offset
    <2>6. HeaderSize <= block.size
      <3>1. Offset(Len(values)) \in Nat /\ block.size \in Nat
        BY <2>1, <2>4
      <3>. QED
        BY <2>2, <2>3, <3>1
    <2>7. ASSUME NEW i \in 1..Len(values)
          PROVE  /\ values[i].at >= HeaderSize
                 /\ values[i].at % values[i].type.align = 0
                 /\ block.align % values[i].type.align = 0
                 /\ values[i].at + values[i].type.size
                      <= IF i = Len(values) THEN block.size ELSE values[i + 1].at
      <3>1. values[i].at = base + Offset(i - 1) /\ values[i].type = home /\ i - 1 \in Nat
        BY ValueAt DEF base, size, Offset
      <3>2. Offset(i) = Offset(i - 1) + size
        BY <2>5, <3>1
      <3>3. Offset(i - 1) \in Nat /\ Offset(i - 1) % home.align = 0
        BY <2>4, <3>1
      <3>4. (base + Offset(i - 1)) % home.align = 0
        BY <2>2, <3>3, MultiplesOf
      <3>5. CASE i = Len(values)
        <4>1. base + Offset(i - 1) + size <= block.size
          BY <2>2, <2>3, <3>2, <3>3, <3>5
        <4>. QED
          BY <2>1, <2>2, <3>1, <3>3, <3>4, <3>5, <4>1 DEF size
      <3>6. CASE i # Len(values)
        <4>1. i + 1 \in 1..Len(values) /\ (i + 1) - 1 = i
          BY <2>1, <3>6
        <4>2. values[i + 1].at = base + Offset(i)
          BY <4>1, ValueAt DEF base, size, Offset
        <4>3. values[i].at + values[i].type.size <= values[i + 1].at
          BY <2>2, <3>1, <3>2, <3>3, <4>2 DEF size
        <4>. QED
          BY <2>1, <2>2, <3>1, <3>3, <3>4, <3>6, <4>3
      <3>. QED
        BY <3>5, <3>6
    <2>. QED
      BY <2>6, <2>7
  <1>. QED
    BY <1>1, Invariance, PTL

(* The allocator is always given the layout it was asked for, also by a    *)
(* drop or an init under another type (freestanding_vec.rs:76-81 and       *)
(* 156-158).                                                               *)
THEOREM LayoutsAgree == Spec => []LayoutsMatch
  BY Invariance, PTL DEF Inv, LayoutsMatch

(* No metadata value leaks, not even that of a vector which has been       *)
(* dropped, and none is dropped twice, panics of the drop in deallocate    *)
(* included (freestanding_vec.rs:60-84 and 172-206).                       *)
THEOREM MetadataExactlyOnce == Spec => []MetadataDroppedOnce
  <1>1. Inv => MetadataDroppedOnce
    <2>. SUFFICES ASSUME Inv, NEW k \in 1..inits
                  PROVE  drops[k] = IF /\ phase # "dropped" /\ block # NoBlock
                                         /\ k = header.metadata
                                      THEN 0 ELSE 1
      BY DEF MetadataDroppedOnce
    <2>1. inits \in 1..MaxInits /\ MaxInits \in Nat
      BY VecAssumption DEF Inv, TypeOK
    <2>2. k \in 1..MaxInits /\ k <= inits
      BY <2>1
    <2>. QED
      BY <2>2 DEF Inv, Dropped
  <1>. QED
    BY <1>1, Invariance, PTL
==============================================================================
