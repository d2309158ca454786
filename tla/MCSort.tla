------------------------------- MODULE MCSort -------------------------------
(* An instance of Sort for TLC: all arrays of up to MaxSize elements of a few *)
(* ranks.  An element is its rank and where it was.                           *)
EXTENDS Sort

CONSTANTS Ranks, MaxSize

MCElems == Ranks \X (0 .. MaxSize - 1)
MCRank == [e \in MCElems |-> e[1]]

\* The comparator says yes to any two elements of rank 1.
MCTies == {p \in MCElems \X MCElems : p[1][1] = 1 /\ p[2][1] = 1}

MCInputs ==
  UNION {{[k \in 0 .. n - 1 |-> <<r[k], k>>] : r \in [0 .. n - 1 -> Ranks]}
           : n \in 0 .. MaxSize}
=============================================================================
