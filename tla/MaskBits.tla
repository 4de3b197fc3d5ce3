------------------------------ MODULE MaskBits -------------------------------
(***************************************************************************)
(* compute_request_mask, clear_extra_bits and drain_mask of                *)
(* bags/src/mpmc.rs, on words.  A word is the set of its 1 bits, bit 0     *)
(* being the lowest; the two lowest bits are the status bits and slot i is *)
(* bit W - 1 - i.  A behaviour is one call: the loops take a step per turn.*)
(***************************************************************************)
EXTENDS SlotMasks, Sequences

CONSTANTS Items,   \* the numbers of available items a caller may have
          Masks    \* the sets of slots clear_extra_bits and drain_mask are given

ASSUME MaskAssumption == Items \subseteq Nat \ {0} /\ Masks \subseteq SUBSET Slots

VARIABLES pc,       \* where the call is
          items,    \* available_items or max
          bias,     \* Sender::bias
          input,    \* the slots of the mask the call was given
          mask,     \* the local mask
          setBits,  \* clear_extra_bits' count
          visited   \* the slots drain_mask has applied its closure to

args == <<items, bias, input>>
vars == <<pc, args, mask, setBits, visited>>
-----------------------------------------------------------------------------
W == N + 2
Bits == 0..(W - 1)
StatusBits == {0, 1}

BitsOf(S) == {W - 1 - i : i \in S}
SlotsOf(m) == {W - 1 - b : b \in m}

ShiftLeft(m, k) == {b + k : b \in m} \cap Bits
RotateRight(m, k) == {(b + W - k) % W : b \in m}

(* Mutant: off by one. *)
ReverseTooFar(m) == {W - 2 - b : b \in m}

ReverseBits(m) == {W - 1 - b : b \in m}

(* high_bit >> k, which is an arithmetic shift of an i32. *)
HighBitShifted(k) == {b \in Bits : b >= W - 1 - k}

(* mask & (mask - 1): the lowest 1 bit is cleared. *)
ClearLowestBit(m) == m \ {CHOOSE b \in m : \A c \in m : b <= c}

LeadingZeros(m) == IF m = {} THEN W ELSE W - 1 - CHOOSE b \in m : \A c \in m : b >= c

(* Mutant: the rotation does not make room for the status bits. *)
ComputeTooHigh(available, b) ==
  LET m == HighBitShifted(available - 1)
      overstepped == RotateRight(m, b)
  IN  IF b = 0 THEN m ELSE (overstepped \cap HighBitShifted(b - 1)) \cup ShiftLeft(overstepped, 2)

(* compute_request_mask: the window is rotated past the status bits; what  *)
(* wrapped around is kept, the rest is shifted back over them.             *)
Compute(available, b) ==
  LET m == HighBitShifted(available - 1)
      overstepped == RotateRight(m, b + Cardinality(StatusBits))
  IN  IF b = 0 THEN m
      ELSE (overstepped \cap HighBitShifted(b - 1))
             \cup ShiftLeft(overstepped, Cardinality(StatusBits))

AtMostN(k) == IF k < N THEN k ELSE N

(* A call arrives with its arguments. *)
Init ==
  /\ items \in Items /\ bias \in Slots
  /\ \/ pc = "request" /\ input = {}
     \/ pc \in {"clear", "drain"} /\ input \in Masks /\ bias \in {0, 1}
  /\ mask = BitsOf(input) /\ setBits = 0 /\ visited = <<>>

ComputeRequestMask ==
  /\ pc = "request" /\ pc' = "requested"
  /\ mask' = Compute(AtMostN(items), bias)
  /\ UNCHANGED <<args, setBits, visited>>

(* clear_extra_bits: the direction is the parity of the bias. *)
Turned(m) == IF bias % 2 = 0 THEN ReverseBits(m) ELSE m

BeginClear ==
  /\ pc = "clear" /\ pc' = "clearing"
  /\ setBits' = Cardinality(mask) /\ mask' = Turned(mask)
  /\ UNCHANGED <<args, visited>>

(* Mutant: one bit too few is cleared. *)
MoreThanOneExtra == setBits > items + 1

Extra == setBits > items

ClearOne ==
  /\ pc = "clearing" /\ Extra
  /\ mask' = ClearLowestBit(mask) /\ setBits' = setBits - 1
  /\ UNCHANGED <<pc, args, visited>>

EndClear ==
  /\ pc = "clearing" /\ ~Extra /\ pc' = "cleared"
  /\ mask' = Turned(mask)
  /\ UNCHANGED <<args, setBits, visited>>

(* Mutant: the loop stops before the last slot. *)
StopEarly(i) == i >= N - 1

StopAt(i) == i >= N

(* One turn of drain_mask. *)
DrainOne ==
  LET i == LeadingZeros(mask)
  IN  /\ pc = "drain"
      /\ IF StopAt(i) THEN pc' = "drained" /\ UNCHANGED <<mask, visited>>
                      ELSE /\ visited' = Append(visited, i)
                           /\ mask' = mask \ {W - i - 1}
                           /\ UNCHANGED pc
      /\ UNCHANGED <<args, setBits>>

Finished == pc \in {"requested", "cleared", "drained"} /\ UNCHANGED vars

Next == ComputeRequestMask \/ BeginClear \/ ClearOne \/ EndClear \/ DrainOne \/ Finished

Spec == Init /\ [][Next]_vars
-----------------------------------------------------------------------------
TypeOK == /\ pc \in {"request", "requested", "clear", "clearing", "cleared", "drain", "drained"}
          /\ items \in Items /\ bias \in Slots /\ input \in SUBSET Slots
          /\ mask \in SUBSET Bits /\ setBits \in 0..W /\ visited \in Seq(Slots)

(* compute_request_mask returns the cyclic window Mpmc requests, and never *)
(* a status bit, which the debug_assert of mpmc.rs:272 also demands.       *)
RequestIsWindow ==
  pc = "requested" => /\ mask \cap StatusBits = {}
                      /\ SlotsOf(mask) = RequestMask(items, bias)

(* clear_extra_bits keeps as many free slots as there are items, on the    *)
(* side Mpmc keeps, whatever the mask; so a retry asks for free slots only *)
(* and never for more than it can fill (mpmc.rs:286-296).                  *)
ClearKeepsOneSide ==
  pc = "cleared" => SlotsOf(mask) = ClearExtraBits(input, items, bias)

(* drain_mask applies its closure to every slot of the mask exactly once,  *)
(* lowest slot first.                                                      *)
DrainVisitsAll ==
  /\ \A k \in 1..Len(visited) :
       visited[k] = NextOf(input \ {visited[j] : j \in 1..(k - 1)})
  /\ pc = "drained" => Len(visited) = Cardinality(input)
==============================================================================
