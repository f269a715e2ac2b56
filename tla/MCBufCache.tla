----------------------------- MODULE MCBufCache -----------------------------
(* Instances of BufCache for TLC. *)
EXTENDS BufCache, TLC

Symmetry == Permutations(Proc) \cup Permutations(Block)
=============================================================================
