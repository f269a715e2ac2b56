----------------------------- MODULE MCSharedMem -----------------------------
(* Instances of SharedMem for TLC. *)
EXTENDS SharedMem, TLC

\* Page frames are interchangeable, and so are the slots other than First.
Symmetry == Permutations(Frame) \cup Permutations(Proc \ {First})
=============================================================================
