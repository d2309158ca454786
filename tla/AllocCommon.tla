---------------------------- MODULE AllocCommon ----------------------------
(***************************************************************************)
(* What the two allocators of libcop/cop_alloc.c share: size_t arithmetic, *)
(* the rounding of an address to a boundary, and what a client keeps of a  *)
(* save.                                                                   *)
(***************************************************************************)
EXTENDS Naturals

CONSTANT SIZE_MAX

ASSUME SizeMaxOK == SIZE_MAX \in Nat

\* size_t arithmetic; no sum of the code exceeds SIZE_MAX twice over.
Wrap(x) == IF x > SIZE_MAX THEN x - (SIZE_MAX + 1) ELSE x

\* The boundaries a request may name, up to a page.
PowersOfTwo == {1, 2, 4, 8, 16, 32, 64, 128, 256, 512, 1024, 2048, 4096}

\* How far val is below the next multiple of align, a power of two.
AlignOffset(val, align) == (align - (val % align)) % align

\* An outstanding save: the value returned and how many blocks were live then.
Marks == [tok : Nat, n : Nat]
=============================================================================
