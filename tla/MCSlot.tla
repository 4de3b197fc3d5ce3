------------------------------- MODULE MCSlot --------------------------------
(* Model-checking instances of Slot. *)
EXTENDS Slot, TLC

SenderSymmetry == Permutations(Senders)
==============================================================================
