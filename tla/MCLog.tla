------------------------------- MODULE MCLog -------------------------------
(* Instances of Log for TLC. *)
EXTENDS Log, TLC

\* Callers and blocks are interchangeable.
Symmetry == Permutations(Caller) \cup Permutations(Block)
=============================================================================
