------------------------------ MODULE MCMaskBits -----------------------------
(* MaskBits at its real size: 30 slots in a 32-bit word. *)
EXTENDS MaskBits

RealItems == 1..31

(* Contiguous, wrapped and scattered masks, the empty and the full one. *)
MixedMasks ==
  {RequestMask(k, b) : k \in {0, 1, 2, 5, 16, 29, 30}, b \in {0, 1, 7, 14, 28, 29}}
    \cup {{i \in 0..29 : i % m = r} : m \in {2, 3, 7}, r \in {0, 1}}
==============================================================================
