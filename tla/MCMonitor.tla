----------------------------- MODULE MCMonitor -----------------------------
(* Two threads that put and two that take share a store with one place: each *)
(* kind can be asleep while the other may go on.                             *)
EXTENDS Monitor

CONSTANTS p1, p2, t1, t2

MCRole == [t \in Threads |-> IF t \in {p1, p2} THEN "put" ELSE "take"]
MCRounds == [t \in Threads |-> IF t \in {p1, t2} THEN 2 ELSE 1]
=============================================================================
