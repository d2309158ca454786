--------------------------- MODULE MCVirtualAlloc ---------------------------
(* An instance of VirtualAlloc in which no size_t sum can wrap. *)
EXTENDS VirtualAlloc

ASSUME InstanceRepresentable == Representable
=============================================================================
