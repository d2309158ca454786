---------------------------- MODULE MCGrpTemps ----------------------------
(* Instances of GrpTemps for TLC.  Buffer identities are interchangeable. *)
EXTENDS GrpTemps, TLC

BufSymmetry == Permutations(BufIds)

\* The instances are ones where no size_t sum can wrap.
ASSUME InstanceRepresentable == Representable
=============================================================================
