------------------------------ MODULE SlotMasks ------------------------------
(***************************************************************************)
(* What the bit tricks of bags/src/mpmc.rs compute, as sets of slots.      *)
(* Mpmc uses these definitions; MaskBits shows that compute_request_mask,  *)
(* clear_extra_bits and drain_mask implement them bit by bit.              *)
(***************************************************************************)
EXTENDS Naturals, FiniteSets

CONSTANT N   \* the number of slots (30)

ASSUME SlotCount == N \in Nat \ {0}

Slots == 0..(N - 1)

(* The k lowest and the k highest elements of a set of slots. *)
Lowest(S, k) == {i \in S : Cardinality({j \in S : j < i}) < k}
Highest(S, k) == {i \in S : Cardinality({j \in S : j > i}) < k}

(* Mutant: one slot more than there are items. *)
RequestOneMore(items, bias) == {i \in Slots : (i + N - bias) % N <= items}

(* compute_request_mask: as many slots as there are items, starting at the *)
(* bias and wrapping around.                                               *)
RequestMask(items, bias) == {i \in Slots : (i + N - bias) % N < items}

(* clear_extra_bits: trimmed on the side that the parity of the bias tells *)
(* (mpmc.rs:291).                                                          *)
ClearExtraBits(free, items, bias) ==
  IF bias % 2 = 0 THEN Highest(free, items) ELSE Lowest(free, items)

(* drain_mask visits the highest bit, which is the lowest slot, first. *)
NextOf(S) == CHOOSE i \in S : \A j \in S : i <= j
==============================================================================
