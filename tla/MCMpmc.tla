------------------------------- MODULE MCMpmc --------------------------------
(* Model-checking instances of Mpmc. *)
EXTENDS Mpmc, TLC

HandleSymmetry == Permutations(Senders \ Borrowers) \cup Permutations(Receivers \ Borrowers)
==============================================================================
