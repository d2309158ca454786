----------------------------- MODULE MCFileMap -----------------------------
(* Instances of FileMap for TLC: clients are interchangeable. *)
EXTENDS FileMap, TLC

Symmetry == Permutations(Clients)
=============================================================================
