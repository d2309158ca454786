---------------------------- MODULE VirtualAlloc ----------------------------
(***************************************************************************)
(* The virtual-memory stack allocator of libcop/cop_alloc.c: it reserves a *)
(* range of addresses (mmap with PROT_NONE, or VirtualAlloc on Windows),   *)
(* makes a growing prefix of it accessible (mprotect, or VirtualAlloc      *)
(* again), and allocates by moving one offset.  No call loops or calls     *)
(* back, so each is one action; the allocator is not thread-safe           *)
(* (cop_alloc.h:52).                                                       *)
(***************************************************************************)
EXTENDS AllocCommon, Sequences

CONSTANTS
  Bases,          \* Addresses the reservation may start at.
  Sizes, Aligns,  \* The arguments of alloc; align 0 asks for the default.
  ReserveSizes, DefaultAligns, GrowSizes,  \* The arguments of init.
  PageSizes,      \* What cop_memory_query_page_size may return, 0 on error.
  Neighbours,     \* Bytes that may be mapped right after the reservation.
  MaxSpace,       \* The longest mapping the address space has room for.
  MaxLive, MaxMarks  \* Bounds on the client: live blocks, nested saves.

ASSUME ConstantsOK ==
  /\ Bases \subseteq Nat /\ Sizes \subseteq Nat
  /\ ReserveSizes \subseteq Nat \ {0} /\ GrowSizes \subseteq Nat
  /\ PageSizes \subseteq Nat /\ Neighbours \subseteq Nat
  /\ Aligns \subseteq PowersOfTwo \cup {0}
  /\ DefaultAligns \subseteq PowersOfTwo
  /\ MaxSpace \in Nat
  /\ MaxLive \in Nat /\ MaxMarks \in Nat

\* No sum of init or alloc leaves size_t.  The code does not check this: it is
\* a hypothesis of every theorem, and TLC evaluates it on every instance.
Representable ==
  /\ \A sz \in Sizes, a \in Aligns \cup DefaultAligns, g \in GrowSizes,
        ps \in PageSizes : MaxSpace + a + sz + g + ps <= SIZE_MAX
  /\ \A x \in ReserveSizes \cup GrowSizes, ps \in PageSizes : x + ps <= SIZE_MAX

VARIABLES
  platform,       \* The branch of the code that was compiled.
  reserve_sz, grow_sz, protect_sz, used_sz, default_align, base,
  ready,          \* Between a successful init and the next free.
  accessible,     \* Bytes from base on that the kernel lets us read and write.
  neighbour,      \* Bytes mapped right after the reservation by someone else.
  live,           \* Blocks the client may still use, oldest first.
  marks,          \* Outstanding saves: the value returned, the blocks then live.
  ret             \* What the last call returned.

conf_vars == <<platform, reserve_sz, grow_sz, default_align, base, ready, neighbour>>
vars == <<conf_vars, protect_sz, used_sz, accessible, live, marks, ret>>

\* Slip: rounds down.
RoundDown(x, unit) == unit * (x \div unit)

\* x rounded up to a multiple of unit, as init and alloc compute it.
RoundUp(x, unit) == unit * (Wrap(x + unit - 1) \div unit)

Init ==
  /\ platform \in {"posix", "windows"}
  /\ reserve_sz = 0 /\ grow_sz = 0 /\ protect_sz = 0 /\ used_sz = 0
  /\ default_align = 0 /\ base = 0
  /\ ready = FALSE /\ accessible = 0 /\ neighbour = 0
  /\ live = <<>> /\ marks = <<>> /\ ret = "void"

GrowSize(grow_arg, ps) == IF grow_arg = 0 THEN ps ELSE RoundUp(grow_arg, ps)

\* What init stores before it asks for the reservation.
Settings(reserve_arg, align_arg, grow_arg, ps) ==
  /\ reserve_sz' = RoundUp(reserve_arg, ps)
  /\ default_align' = align_arg
  /\ grow_sz' = GrowSize(grow_arg, ps)
  /\ used_sz' = 0 /\ protect_sz' = 0

\* cop_alloc_virtual_init, when the page size is known and the range reserved.
VirtualInit(reserve_arg, align_arg, grow_arg, ps, addr, near) ==
  /\ ~ready
  /\ ps # 0
  /\ addr % ps = 0
  /\ RoundUp(reserve_arg, ps) + near <= MaxSpace
  /\ Settings(reserve_arg, align_arg, grow_arg, ps)
  /\ base' = addr /\ neighbour' = near /\ accessible' = 0
  /\ ready' = TRUE /\ ret' = "void"
  /\ UNCHANGED <<platform, live, marks>>

\* ... when there is no room for it: MAP_FAILED or NULL is left in base.
VirtualInitNoRoom(reserve_arg, align_arg, grow_arg, ps) ==
  /\ ~ready
  /\ ps # 0
  /\ Settings(reserve_arg, align_arg, grow_arg, ps)
  /\ base' = IF platform = "windows" THEN 0 ELSE SIZE_MAX
  /\ ret' = "null"
  /\ UNCHANGED <<platform, ready, neighbour, accessible, live, marks>>

\* ... when the page size is not known.
VirtualInitFail ==
  /\ ~ready /\ platform = "posix" /\ 0 \in PageSizes
  /\ ret' = "null"
  /\ UNCHANGED <<conf_vars, protect_sz, used_sz, accessible, live, marks>>

EffAlign(align) == IF align = 0 THEN default_align ELSE align

\* Slip: the padding aligns the offset instead of the address.
OffsetUnbased(align) == used_sz + AlignOffset(used_sz, align)

\* Where alloc puts the next block.
Offset(align) == Wrap(used_sz + AlignOffset(base + used_sz, align))

\* What alloc asks to be made accessible, for a block that ends at x.
NewProtect(x) == RoundUp(x, grow_sz)

\* Slip: the new block starts where the last one ended, without padding.
GrantUnpadded(offset, size, align) ==
  /\ used_sz' = Wrap(used_sz + size)
  /\ live' = Append(live, [seg |-> base, off |-> offset, size |-> size,
                           align |-> align])
  /\ ret' = "block"
  /\ UNCHANGED <<conf_vars, marks>>

\* The end of a successful alloc.
Grant(offset, size, align) ==
  /\ used_sz' = Wrap(offset + size)
  /\ live' = Append(live, [seg |-> base, off |-> offset, size |-> size,
                           align |-> align])
  /\ ret' = "block"
  /\ UNCHANGED <<conf_vars, marks>>

\* How much from base on can be made accessible: mprotect requires only that
\* every page is mapped, by whomever; pages are committed in a reservation only.
Mapped == IF platform = "windows" THEN reserve_sz ELSE reserve_sz + neighbour

Calling == ready /\ Len(live) < MaxLive

\* aalloc_align_alloc, inside what is already protected.
AllocWithin(size, align_arg) ==
  LET align == EffAlign(align_arg)
      offset == Offset(align)
  IN  /\ Calling
      /\ Wrap(offset + size) <= protect_sz
      /\ Grant(offset, size, align)
      /\ UNCHANGED <<protect_sz, accessible>>

\* aalloc_align_alloc, when more of the range is made accessible.
AllocProtect(size, align_arg) ==
  LET align  == EffAlign(align_arg)
      offset == Offset(align)
      new_sz == NewProtect(Wrap(offset + size))
  IN  /\ Calling
      /\ Wrap(offset + size) > protect_sz
      /\ new_sz <= Mapped
      /\ protect_sz' = new_sz
      /\ accessible' = IF new_sz > accessible THEN new_sz ELSE accessible
      /\ Grant(offset, size, align)

\* aalloc_align_alloc, when that fails: before changing anything or, with
\* mprotect, at the first page that is not mapped.
AllocFail(size, align_arg) ==
  LET align  == EffAlign(align_arg)
      new_sz == NewProtect(Wrap(Offset(align) + size))
  IN  /\ Calling
      /\ Wrap(Offset(align) + size) > protect_sz
      /\ accessible' \in {accessible} \cup
                         IF platform = "posix" /\ new_sz > Mapped THEN {Mapped} ELSE {}
      /\ ret' = "null"
      /\ UNCHANGED <<conf_vars, protect_sz, used_sz, live, marks>>

\* aalloc_save
Save ==
  /\ ready
  /\ Len(marks) < MaxMarks
  /\ marks' = Append(marks, [tok |-> used_sz, n |-> Len(live)])
  /\ ret' = "void"
  /\ UNCHANGED <<conf_vars, protect_sz, used_sz, accessible, live>>

\* aalloc_restore, with the value of save number m.  The client gives up what
\* it allocated, and every save it made, after that save.
Restore(m) ==
  /\ ready
  /\ used_sz' = marks[m].tok
  /\ live' = SubSeq(live, 1, marks[m].n)
  /\ marks' = SubSeq(marks, 1, m)
  /\ ret' = "void"
  /\ UNCHANGED <<conf_vars, protect_sz, accessible>>

\* cop_alloc_virtual_free: the range is given back; what it held is nobody's any more.
VirtualFree ==
  /\ ready
  /\ ready' = FALSE /\ accessible' = 0
  /\ live' = <<>> /\ marks' = <<>> /\ ret' = "void"
  /\ UNCHANGED <<platform, reserve_sz, grow_sz, protect_sz, used_sz, default_align, base,
                 neighbour>>

Next ==
  \/ \E r \in ReserveSizes, a \in DefaultAligns, g \in GrowSizes,
        ps \in PageSizes, addr \in Bases, near \in Neighbours :
       VirtualInit(r, a, g, ps, addr, near)
  \/ \E r \in ReserveSizes, a \in DefaultAligns, g \in GrowSizes, ps \in PageSizes :
       VirtualInitNoRoom(r, a, g, ps)
  \/ VirtualInitFail
  \/ \E sz \in Sizes, a \in Aligns :
       AllocWithin(sz, a) \/ AllocProtect(sz, a) \/ AllocFail(sz, a)
  \/ Save
  \/ \E m \in DOMAIN marks : Restore(m)
  \/ VirtualFree

Spec == Init /\ [][Next]_vars

-----------------------------------------------------------------------------
(* What the offsets, the client's blocks and its saves may be. *)

Blocks == [seg : Nat, off : Nat, size : Nat, align : Nat \ {0}]

TypeOK ==
  /\ platform \in {"posix", "windows"}
  /\ reserve_sz \in Nat /\ grow_sz \in Nat /\ protect_sz \in Nat
  /\ used_sz \in Nat /\ default_align \in Nat /\ base \in Nat
  /\ ready \in BOOLEAN /\ accessible \in Nat /\ neighbour \in Nat
  /\ ready => grow_sz > 0 /\ default_align > 0
  /\ live \in Seq(Blocks) /\ marks \in Seq(Marks)
  /\ ret \in {"void", "null", "block"}

\* Every block in use can be read and written, even after an mprotect that
\* failed halfway, and lies in the reservation.  alloc never compares with
\* reserve_sz: the latter rests on Windows on what may be committed, and
\* elsewhere on nothing being mapped right after the reservation.
BlocksAccessible ==
  \A k \in DOMAIN live :
    /\ live[k].seg = base
    /\ live[k].off + live[k].size <= accessible
    /\ neighbour = 0 \/ platform = "windows" => live[k].off + live[k].size <= reserve_sz

\* A block lies on the boundary its request named (cop_alloc.h:56-58), also
\* where that is coarser than the page the reservation starts on.
BlocksAligned ==
  \A k \in DOMAIN live : (base + live[k].off) % live[k].align = 0

\* What a save returned separates what was allocated before from after it.
MarksSeparate ==
  \A m \in DOMAIN marks : \A k \in DOMAIN live :
    IF k <= marks[m].n THEN live[k].off + live[k].size <= marks[m].tok
                       ELSE live[k].off >= marks[m].tok

\* The reserved range behaves as the stack allocator cop_alloc.h describes.
SA == INSTANCE SAlloc WITH marks <- [k \in DOMAIN marks |-> marks[k].n]
Implements == SA!Spec

\* The inductive invariant: everything the client holds ends below used_sz, in
\* the order it was allocated, and used_sz never passes what is accessible.
IInv ==
  /\ TypeOK
  /\ ~ready => live = <<>> /\ marks = <<>>
  /\ ready =>
       /\ used_sz <= protect_sz /\ protect_sz <= accessible
       /\ accessible <= Mapped /\ reserve_sz + neighbour <= MaxSpace
       /\ default_align \in DefaultAligns
       /\ \E g \in GrowSizes, ps \in PageSizes : grow_sz <= g + ps
  /\ \A k \in DOMAIN live :
       live[k].seg = base /\ live[k].off + live[k].size <= used_sz
  /\ \A j, k \in DOMAIN live :
       j < k => live[j].off + live[j].size <= live[k].off
  /\ \A m \in DOMAIN marks : marks[m].tok <= used_sz /\ marks[m].n <= Len(live)
  /\ \A l, m \in DOMAIN marks :
       l < m => marks[l].tok <= marks[m].tok /\ marks[l].n <= marks[m].n
  /\ MarksSeparate
=============================================================================
