------------------------------- MODULE Buffer -------------------------------
(***************************************************************************)
(* What a monitor built from a mutex and condition variables promises: the *)
(* threads put into and take from a store of bounded size one at a time,   *)
(* each as often as it was asked to.                                       *)
(***************************************************************************)
EXTENDS Naturals

CONSTANTS
  Threads,    \* The threads that use the store.
  Role,       \* Whether a thread puts or takes.
  Rounds,     \* How often each does so.
  Capacity    \* How much the store holds.

VARIABLES
  level,      \* How much is in the store.
  left        \* How often each thread has still to put or take.

Init == level = 0 /\ left = Rounds

\* A thread may go on: there is room, or something to take.
Ready(t, l) == IF Role[t] = "put" THEN l < Capacity ELSE l > 0

\* The store after it.
Changed(t, l) == IF Role[t] = "put" THEN l + 1 ELSE l - 1

Serve(t) ==
  /\ left[t] > 0 /\ Ready(t, level)
  /\ level' = Changed(t, level)
  /\ left' = [left EXCEPT ![t] = @ - 1]

Next == \E t \in Threads : Serve(t)

Spec == Init /\ [][Next]_<<level, left>>
=============================================================================
