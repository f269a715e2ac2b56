------------------------------- MODULE MCPipe -------------------------------
(* Instances of Pipe for TLC. *)
EXTENDS Pipe, TLC

\* The slots other than First run the same programs, and no step looks at a byte.
Symmetry == Permutations(Proc \ {First}) \cup Permutations(Byte)
=============================================================================
