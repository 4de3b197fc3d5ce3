-------------------------- MODULE MCFreestandingVec --------------------------
(* Layouts for TLC: zero-sized, small, of the alignment of the header but  *)
(* larger than it, over-aligned, and beyond the 1024 bytes that change the *)
(* least capacity.                                                         *)
EXTENDS FreestandingVec

MixedTypes == {[size |-> 0, align |-> 1], [size |-> 1, align |-> 1], [size |-> 48, align |-> 8],
               [size |-> 16, align |-> 16], [size |-> 2048, align |-> 16],
               [size |-> 64, align |-> 64]}
==============================================================================
