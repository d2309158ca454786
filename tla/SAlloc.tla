------------------------------- MODULE SAlloc -------------------------------
(***************************************************************************)
(* What struct cop_salloc_iface (cop_alloc.h) promises to a client of a    *)
(* stack-like allocator, whichever implementation is behind it: alloc      *)
(* grants memory nothing else is using or returns NULL and changes         *)
(* nothing; restore gives up exactly what was allocated since the matching *)
(* save.                                                                   *)
(***************************************************************************)
EXTENDS Naturals, Sequences

VARIABLES
  live,    \* Blocks the client may still use, oldest first.
  marks,   \* For each outstanding save, how many blocks were live then.
  ret      \* What the last call returned: "void", "null" or "block".

vars == <<live, marks, ret>>

\* Two blocks share no byte. A block of size zero has no bytes to share.
Disjoint(b, c) ==
  \/ b.size = 0 \/ c.size = 0
  \/ b.seg # c.seg
  \/ b.off + b.size <= c.off
  \/ c.off + c.size <= b.off

Init == live = <<>> /\ marks = <<>> /\ ret = "void"

\* alloc returned memory: it is nobody else's.
Grant ==
  /\ Len(live') = Len(live) + 1
  /\ LET b == live'[Len(live')]
     IN  /\ live' = Append(live, b)
         /\ \A i \in DOMAIN live : Disjoint(live[i], b)
  /\ marks' = marks
  /\ ret' = "block"

\* alloc returned NULL, or init failed: nothing the client holds changes.
Refuse == ret' = "null" /\ UNCHANGED <<live, marks>>

Save == marks' = Append(marks, Len(live)) /\ live' = live /\ ret' = "void"

\* Back to the state of save number m; the mark itself stays usable.
Restore(m) ==
  /\ live' = SubSeq(live, 1, marks[m])
  /\ marks' = SubSeq(marks, 1, m)
  /\ ret' = "void"

\* The allocator is initialised or freed: nothing is live.
Reset == live' = <<>> /\ marks' = <<>> /\ ret' = "void"

Next == Grant \/ Refuse \/ Save \/ Reset \/ \E m \in DOMAIN marks : Restore(m)

Spec == Init /\ [][Next]_vars
=============================================================================
