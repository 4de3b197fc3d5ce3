--------------------------- MODULE FreestandingVec ---------------------------
(***************************************************************************)
(* vecs/src/freestanding_vec.rs: a vector behind a single pointer, whose   *)
(* element type may be erased or changed.  Its header and its values share *)
(* one allocation.                                                         *)
(*                                                                         *)
(* Memory is modelled by layouts: a type is a size and an alignment, and   *)
(* addresses are offsets from the start of the allocation.  push computes  *)
(* an address from the element type, pop from what init left in the        *)
(* header; casts are the transmutes, raw round trips and pointer casts     *)
(* that change the type between the calls.  The caller keeps to the Safety *)
(* section of from_raw.                                                    *)
(*                                                                         *)
(* A vector whose init panicked has no block, but its pointer still tells  *)
(* for which type it dangles.  What reads a header through it strays and   *)
(* ends the process: such an address lies in the first page of memory.     *)
(***************************************************************************)
EXTENDS Naturals, Sequences

CONSTANTS
  Types,        \* layouts of the element types, [size, align]
  HeaderSize,   \* size_of::<Header<M>>()
  HeaderAlign,  \* align_of::<Header<M>>()
  MaxLen,       \* bound: the values a vector holds
  MaxInits      \* bound: the calls of init, the one in new included

(* Sizes are multiples of alignments, and alignments are powers of two. *)
LegalLayouts ==
  /\ Types # {} /\ Types \subseteq [size : Nat, align : Nat \ {0}]
  /\ HeaderSize \in Nat \ {0} /\ HeaderAlign \in Nat \ {0}
  /\ HeaderSize % HeaderAlign = 0
  /\ \A T \in Types : /\ T.size % T.align = 0
                      /\ T.align % HeaderAlign = 0 \/ HeaderAlign % T.align = 0
  /\ MaxLen \in Nat /\ MaxInits \in Nat \ {0}

ASSUME VecAssumption == LegalLayouts

VARIABLES
  ty,      \* T: the element type under which the vector is held
  home,    \* the element type of the last init, while its header is intact
  data,    \* the pointer: Block, or the address of a dangling one
  block,   \* the live allocation, with the layout the allocator was given
  header,  \* Header<M>
  values,  \* where each value was written, and its type
  inits,   \* calls of init; numbers the metadata values
  drops,   \* how often each metadata value has been dropped
  misuse,  \* the allocator was given a layout that is not the block's
  phase    \* "held", "dropped", or what strayed: "use", "init" or "drop"

vars == <<ty, home, data, block, header, values, inits, drops, misuse, phase>>
-----------------------------------------------------------------------------
Block == 0
NoBlock == [size |-> 0, align |-> 0]
NoType == [size |-> 0, align |-> 0]

Larger(a, b) == IF a > b THEN a ELSE b
RoundUp(a, align) == ((a + align - 1) \div align) * align

(* union HeaderSpace<M, T> *)
SpaceAlign(T) == Larger(HeaderAlign, T.align)
SpaceSize(T) == RoundUp(Larger(HeaderSize, T.size), SpaceAlign(T))

MinNonZeroCap(T) ==
  (IF T.size = 1 THEN 8 ELSE IF T.size <= 1024 THEN 4 ELSE 1) * T.size + SpaceSize(T)

(* Mutant: the alignment of the element instead of the header's. *)
DanglingElement(T) == T.align

(* NonNull::<HeaderSpace<M, T>>::dangling() *)
Dangling(T) == SpaceAlign(T)

IsAllocated == data # Dangling(ty)

(* The header is read through a pointer that dangles.                      *)
Stray(call) ==
  /\ data # Block /\ phase' = call
  /\ UNCHANGED <<ty, home, data, block, header, values, inits, drops, misuse>>

(* Mutant: the header is forgotten. *)
RequiredForValues(h, extra) == h.len * ty.size + extra

RequiredCap(h, extra) == h.len * ty.size + SpaceSize(ty) + extra

(* The capacity after reserve(extra). *)
Reserved(h, extra) ==
  IF extra = 0 \/ h.capacity >= RequiredCap(h, extra) THEN h.capacity
  ELSE Larger(2 * h.capacity, RequiredCap(h, extra))

(* reserve: the block is reallocated unless it is large enough. *)
Reserve(h, extra) ==
  LET cap == Reserved(h, extra)
  IN  IF cap = h.capacity THEN UNCHANGED <<block, misuse>>
      ELSE /\ block' = [size |-> cap, align |-> SpaceAlign(ty)]
           /\ misuse' = (misuse \/ block # [size |-> h.capacity, align |-> SpaceAlign(ty)])

DropMetadata(S) == drops' = [k \in DOMAIN drops |-> IF k \in S THEN drops[k] + 1 ELSE drops[k]]

(* deallocate gives the block back with the layout of the header, and      *)
(* drops the metadata last.  dropped are the arguments that go with it.    *)
Deallocate(dropped) ==
  /\ misuse' = (misuse \/ block # [size |-> header.capacity, align |-> header.alignment])
  /\ DropMetadata({header.metadata} \cup dropped)

FreshHeader(k, cap) ==
  [metadata |-> k, value_size |-> ty.size, alignment |-> SpaceAlign(ty), len |-> 0,
   capacity |-> cap]
-----------------------------------------------------------------------------
(* FreestandingVec::new *)
Init ==
  /\ ty \in Types /\ home = ty /\ values = <<>>
  /\ data = Block /\ block = [size |-> MinNonZeroCap(ty), align |-> SpaceAlign(ty)]
  /\ header = FreshHeader(1, MinNonZeroCap(ty))
  /\ inits = 1 /\ drops = [k \in 1..MaxInits |-> 0]
  /\ misuse = FALSE /\ phase = "held"

(* from_raw(into_raw()), transmute or a pointer cast.  A pointer cast that *)
(* ends, by a panic or not, takes the type back to the owner's.            *)
Cast(T) ==
  /\ ty' = T
  /\ UNCHANGED <<home, data, block, header, values, inits, drops, misuse, phase>>

(* Where push writes: data.add(1).cast::<T>().add(len). *)
PushAddress == SpaceSize(ty) + header.len * ty.size

(* push is legal under the type of the last init only. *)
Push ==
  /\ ty = home /\ header.len < MaxLen
  /\ Reserve(header, ty.size)
  /\ header' = [header EXCEPT !.len = @ + 1, !.capacity = Reserved(header, ty.size)]
  /\ values' = Append(values, [at |-> PushAddress, type |-> ty])
  /\ UNCHANGED <<ty, home, data, inits, drops, phase>>

(* Mutant: values that are larger than the header are not expected. *)
BaseOfSmallValues(h) == RoundUp(RoundUp(HeaderSize, HeaderAlign), h.alignment)

(* pop's base, from the sizes in the header alone; HeaderSpace<M, ()> is   *)
(* the header itself.                                                      *)
PopBase(h) == RoundUp(Larger(RoundUp(HeaderSize, HeaderAlign), h.value_size), h.alignment)

PopAddress == PopBase(header) + (header.len - 1) * header.value_size

(* pop, under whatever type: the length is decremented before f is called, *)
(* so that the value is f's also when f panics.                            *)
Pop ==
  /\ data = Block /\ header.len > 0
  /\ header' = [header EXCEPT !.len = @ - 1]
  /\ values' = SubSeq(values, 1, Len(values) - 1)
  /\ UNCHANGED <<ty, home, data, block, inits, drops, misuse, phase>>

(* pop, push and is_empty read the length without asking is_allocated      *)
(* (but for an assertion of debug builds).                                 *)
UseStrays == Stray("use")
-----------------------------------------------------------------------------
(* Mutant: the alignment of the allocation is not looked at. *)
NeverRealign == FALSE

(* init must free a block of another alignment. *)
MustRealign == IsAllocated /\ header.alignment # SpaceAlign(ty)

(* init is called on an empty vector, with the metadata k.  It reads the   *)
(* header of what it takes for allocated.                                  *)
BeginInit(k) ==
  /\ k = inits + 1 /\ k <= MaxInits /\ values = <<>>
  /\ IsAllocated => data = Block
  /\ inits' = k /\ UNCHANGED <<ty, values, phase>>

InitStrays == values = <<>> /\ IsAllocated /\ Stray("init")

Allocate(k) ==
  /\ data' = Block /\ block' = [size |-> MinNonZeroCap(ty), align |-> SpaceAlign(ty)]
  /\ header' = FreshHeader(k, MinNonZeroCap(ty)) /\ home' = ty

(* Mutant: the old metadata is dropped before the pointer is cleared. *)
DataAtPanicTooEarly == data

(* deallocate has cleared the pointer when it drops the metadata. *)
DataAtPanic == Dangling(ty)

InitRealigns(k) == BeginInit(k) /\ MustRealign /\ Deallocate({}) /\ Allocate(k)

(* Dropping the old metadata panics in deallocate: init never completes,   *)
(* and its argument is dropped as well.                                    *)
InitPanics(k) ==
  /\ BeginInit(k) /\ MustRealign /\ Deallocate({k})
  /\ block' = NoBlock /\ data' = DataAtPanic /\ home' = NoType /\ UNCHANGED header

InitAllocates(k) ==
  BeginInit(k) /\ ~IsAllocated /\ Allocate(k) /\ UNCHANGED <<drops, misuse>>

(* Mutant: the header is written with ptr.write. *)
LeakedByInit == {}

(* *ptr = header drops the old header.  A panic in there does not keep the *)
(* new one from being written.                                             *)
ReplacedByInit == {header.metadata}

(* The allocation is kept, after growing to the least capacity. *)
InitReuses(k) ==
  LET missing == IF header.capacity < MinNonZeroCap(ty)
                 THEN MinNonZeroCap(ty) - header.capacity ELSE 0
  IN  /\ BeginInit(k) /\ IsAllocated /\ ~MustRealign
      /\ Reserve(header, missing)
      /\ header' = FreshHeader(k, Reserved(header, missing))
      /\ DropMetadata(ReplacedByInit)
      /\ home' = ty /\ UNCHANGED data

(* Drop: the values, if any are left, leak. *)
Drop ==
  /\ phase' = "dropped"
  /\ IF IsAllocated
     THEN /\ data = Block /\ Deallocate({})
          /\ block' = NoBlock /\ data' = Dangling(ty) /\ home' = NoType
     ELSE UNCHANGED <<misuse, drops, block, data, home>>
  /\ UNCHANGED <<ty, header, values, inits>>

(* deallocate reads the header of what it takes for allocated.             *)
DropStrays == IsAllocated /\ Stray("drop")

Finished == phase # "held" /\ UNCHANGED vars

Next == \/ /\ phase = "held"
           /\ \/ \E T \in Types : Cast(T)
              \/ Push \/ Pop \/ Drop
              \/ UseStrays \/ InitStrays \/ DropStrays
              \/ \E k \in 1..MaxInits :
                   InitRealigns(k) \/ InitPanics(k) \/ InitAllocates(k) \/ InitReuses(k)
        \/ Finished

Spec == Init /\ [][Next]_vars
-----------------------------------------------------------------------------
(* Type invariant: layouts, addresses and the fields of the header. *)
TypeOK ==
  /\ ty \in Types /\ home \in Types \cup {NoType}
  /\ data \in {Block} \cup {SpaceAlign(T) : T \in Types}
  /\ block \in [size : Nat, align : Nat]
  /\ header \in [metadata : 1..MaxInits, value_size : Nat, alignment : Nat \ {0}, len : 0..MaxLen,
                 capacity : Nat]
  /\ values \in Seq([at : Nat, type : Types])
  /\ inits \in 1..MaxInits /\ drops \in [1..MaxInits -> Nat]
  /\ misuse \in BOOLEAN /\ phase \in {"held", "dropped", "use", "init", "drop"}

(* pop finds the value that was pushed last where push wrote it, also      *)
(* after the element type was erased (freestanding_vec.rs:208-253).        *)
PopsWhatWasPushed ==
  home # NoType =>
    /\ header.len = Len(values)
    /\ values # <<>> => PopAddress = values[Len(values)].at

(* Values lie behind the header and inside the allocation, aligned for     *)
(* their type, and do not overlap (freestanding_vec.rs:141-167 and         *)
(* 208-219).                                                               *)
ValuesFit ==
  home # NoType =>
    /\ HeaderSize <= block.size
    /\ \A i \in 1..Len(values) :
         LET v == values[i]
         IN  /\ v.at >= HeaderSize /\ v.at % v.type.align = 0
             /\ block.align % v.type.align = 0
             /\ v.at + v.type.size <= IF i = Len(values) THEN block.size ELSE values[i + 1].at

(* realloc and dealloc are given the layout the block was allocated with,  *)
(* whatever the type is by then (freestanding_vec.rs:76-81 and 156-158).   *)
LayoutsMatch == ~misuse

(* Every metadata value is dropped exactly once: when it is replaced, when *)
(* the block goes, as it has by the end of a drop, or as the argument of   *)
(* an init that panicked.  A vector that init left in the middle is not    *)
(* freed again (freestanding_vec.rs:75-83 and 172-206).                    *)
MetadataDroppedOnce ==
  \A k \in 1..inits :
    drops[k] = IF phase # "dropped" /\ block # NoBlock /\ k = header.metadata THEN 0 ELSE 1

(* freestanding_vec.rs:60-64: deallocate returns without reading a header  *)
(* if the vector is not allocated, "See the                                *)
(* panic_in_drop_due_to_init_alignment_change test for an example of when  *)
(* this is possible".                                                      *)
DropReturns == phase # "drop"
==============================================================================
