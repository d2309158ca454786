----------------------------- MODULE MCStrDict -----------------------------
(* Instances of StrDict for TLC.  Three strings collide: they have one length *)
(* and one hash.  Nodes, and data pointers, are interchangeable.              *)
EXTENDS StrDict, TLC

CONSTANTS a, b, c, d, e

\* Integer keys of two binary digits: a, b and e collide.
MCIKey == [k \in Keys |-> CASE k \in {a, b, e} -> <<0, 1>>
                            [] k = c -> <<0, 0>>
                            [] k = d -> <<1, 0>>]

Symmetry == Permutations(Nodes) \cup Permutations(Values)
=============================================================================
