---------------------------- MODULE MCClosureVec -----------------------------
(* Layouts of closures for TLC: one that captures nothing, and larger or   *)
(* over-aligned ones.                                                      *)
EXTENDS ClosureVec

ClosureTypes == {[size |-> 0, align |-> 1], [size |-> 24, align |-> 8],
                 [size |-> 64, align |-> 64]}
==============================================================================
