----------------------------- MODULE MCManager -----------------------------
(* Manager for TLC: goroutines and incarnations are interchangeable, and   *)
(* so are machines, where each goroutine has every role and only a state   *)
(* property is checked.                                                    *)
EXTENDS Manager, TLC

Symmetry ==
  Permutations(Machines) \cup Permutations(Procs) \cup Permutations(VMs)

=============================================================================
