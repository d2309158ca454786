------------------------------ MODULE MCThread ------------------------------
(* Instances of Thread for TLC: created threads are interchangeable. *)
EXTENDS Thread, TLC

Symmetry == Permutations(Threads) \cup Permutations(Objects) \cup Permutations(Args)
=============================================================================
