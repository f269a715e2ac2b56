------------------------------- MODULE MCProc -------------------------------
(* Instances of Proc for TLC. *)
EXTENDS Proc, TLC

\* The CPUs run the same code: permuting them maps behaviours to behaviours.
\* (Used without liveness only.)
CpuSymmetry == Permutations(Cpu)

\* Arguments of kill(): every pid that can be in use, but not 0.
LivePids == 1..MaxPid

\* Arguments of kill(): pids of processes other than init.
OtherPids == 2..MaxPid
=============================================================================
