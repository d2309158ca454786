------------------------- MODULE VirtualAllocProofs -------------------------
(***************************************************************************)
(* Theorems about the virtual-memory allocator, for every set of sizes,    *)
(* alignments, page sizes and addresses: type correctness, that blocks are *)
(* accessible and aligned, that saves separate blocks, and that it         *)
(* implements the stack-allocator contract.                                *)
(***************************************************************************)
EXTENDS VirtualAlloc, TLAPS

-----------------------------------------------------------------------------
(* size_t arithmetic, alignment and sequences.                              *)

\* size_t arithmetic is exact on what size_t can represent.
LEMMA WrapExact ==
  ASSUME NEW x \in Nat, x <= SIZE_MAX
  PROVE  Wrap(x) = x
BY SizeMaxOK, SMT DEF Wrap

\* aalloc_alignoffset never skips a whole boundary.
LEMMA OffsetRange ==
  ASSUME NEW v \in Nat, NEW a \in Nat \ {0}
  PROVE  AlignOffset(v, a) \in Nat /\ AlignOffset(v, a) < a
BY SMT DEF AlignOffset

\* aalloc_alignoffset reaches a boundary.
LEMMA OffsetAligns ==
  ASSUME NEW v \in Nat, NEW a \in Nat \ {0}
  PROVE  (v + AlignOffset(v, a)) % a = 0
BY SMT DEF AlignOffset

\* What Append does to a sequence, element by element.
LEMMA AppendFacts ==
  ASSUME NEW S, NEW q \in Seq(S), NEW e \in S
  PROVE  /\ Append(q, e) \in Seq(S)
         /\ Len(Append(q, e)) = Len(q) + 1
         /\ DOMAIN Append(q, e) = 1 .. Len(q) + 1
         /\ \A i \in 1 .. Len(q) : Append(q, e)[i] = q[i]
         /\ Append(q, e)[Len(q) + 1] = e
OBVIOUS

\* What SubSeq keeps of a prefix, element by element.
LEMMA PrefixFacts ==
  ASSUME NEW S, NEW q \in Seq(S), NEW n \in 0 .. Len(q)
  PROVE  /\ SubSeq(q, 1, n) \in Seq(S)
         /\ Len(SubSeq(q, 1, n)) = n
         /\ DOMAIN SubSeq(q, 1, n) = 1 .. n
         /\ \A i \in 1 .. n : SubSeq(q, 1, n)[i] = q[i]
OBVIOUS

\* The saves, as the contract sees them: only the number of blocks then live.
LEMMA MarksMap ==
  ASSUME NEW q \in Seq(Marks), NEW k \in Marks, NEW m \in DOMAIN q
  PROVE  LET f(r) == [i \in DOMAIN r |-> r[i].n]
         IN  /\ f(Append(q, k)) = Append(f(q), k.n)
             /\ f(SubSeq(q, 1, m)) = SubSeq(f(q), 1, m)
<1> DEFINE f(r) == [i \in DOMAIN r |-> r[i].n]
<1>1. /\ Len(q) \in Nat /\ DOMAIN q = 1 .. Len(q) /\ m \in 0 .. Len(q)
      /\ \A i \in DOMAIN q : q[i] \in Marks
  OBVIOUS
<1>2. f(q) \in Seq(Nat) /\ Len(f(q)) = Len(q) /\ DOMAIN f(q) = 1 .. Len(q)
  BY <1>1 DEF Marks
<1>3. k.n \in Nat
  BY DEF Marks
<1>4. /\ DOMAIN Append(q, k) = 1 .. Len(q) + 1
      /\ \A i \in 1 .. Len(q) : Append(q, k)[i] = q[i]
      /\ Append(q, k)[Len(q) + 1] = k
  BY <1>1, AppendFacts
<1>5. /\ Append(f(q), k.n) \in Seq(Nat)
      /\ DOMAIN Append(f(q), k.n) = 1 .. Len(q) + 1
      /\ \A i \in 1 .. Len(q) : Append(f(q), k.n)[i] = f(q)[i]
      /\ Append(f(q), k.n)[Len(q) + 1] = k.n
  BY <1>2, <1>3, AppendFacts
<1>6. f(Append(q, k)) = Append(f(q), k.n)
  BY <1>1, <1>2, <1>4, <1>5
<1>7. /\ DOMAIN SubSeq(q, 1, m) = 1 .. m
      /\ \A i \in 1 .. m : SubSeq(q, 1, m)[i] = q[i]
  BY <1>1, PrefixFacts
<1>8. /\ SubSeq(f(q), 1, m) \in Seq(Nat)
      /\ DOMAIN SubSeq(f(q), 1, m) = 1 .. m
      /\ \A i \in 1 .. m : SubSeq(f(q), 1, m)[i] = f(q)[i]
  BY <1>1, <1>2, PrefixFacts
<1>9. f(SubSeq(q, 1, m)) = SubSeq(f(q), 1, m)
  BY <1>1, <1>2, <1>7, <1>8
<1> QED
  BY <1>6, <1>9

-----------------------------------------------------------------------------
(* Facts about the operators of the model. *)

\* Rounding up reaches x, and by less than one unit.
LEMMA RoundUpFacts ==
  ASSUME NEW x \in Nat, NEW u \in Nat \ {0}, x + u <= SIZE_MAX
  PROVE  /\ RoundUp(x, u) \in Nat
         /\ x <= RoundUp(x, u) /\ RoundUp(x, u) <= x + u - 1
<1> DEFINE y == x + u - 1
<1>1. y \in Nat /\ y <= SIZE_MAX
  BY SizeMaxOK
<1>2. Wrap(y) = y
  BY <1>1, WrapExact
<1>3. /\ y \div u \in Nat
      /\ y = u * (y \div u) + (y % u)
      /\ y % u \in Nat /\ y % u < u
      /\ u * (y \div u) \in Nat
  BY <1>1, SMT
<1>4. RoundUp(x, u) = u * (y \div u)
  BY <1>2 DEF RoundUp
<1> HIDE DEF y
<1> DEFINE z == u * (y \div u)
           r == y % u
<1>5. z \in Nat /\ r \in Nat /\ r < u /\ y = z + r
  BY <1>3
<1> HIDE DEF z, r
<1>6. x <= z /\ z <= x + u - 1
  BY <1>1, <1>5, SMT DEF y
<1> QED
  BY <1>4, <1>5, <1>6 DEF z

\* What can be made accessible is mapped, and on Windows reserved.
LEMMA MappedFacts ==
  ASSUME TypeOK
  PROVE  /\ Mapped \in Nat /\ Mapped <= reserve_sz + neighbour
         /\ neighbour = 0 \/ platform = "windows" => Mapped = reserve_sz
  BY DEF TypeOK, Mapped

\* It changes only with the reservation.
LEMMA MappedKept == ASSUME UNCHANGED conf_vars PROVE Mapped' = Mapped
  BY DEF conf_vars, Mapped

\* The numbers in what the client holds.
LEMMA ClientTyped ==
  ASSUME TypeOK
  PROVE  /\ \A k \in DOMAIN live :
              live[k].off \in Nat /\ live[k].size \in Nat
         /\ \A m \in DOMAIN marks : marks[m].tok \in Nat /\ marks[m].n \in Nat
<1>1. \A k \in DOMAIN live : live[k] \in Blocks
  BY DEF TypeOK
<1>2. \A m \in DOMAIN marks : marks[m] \in Marks
  BY DEF TypeOK
<1>3. \A k \in DOMAIN live : live[k].off \in Nat /\ live[k].size \in Nat
  BY <1>1 DEF Blocks
<1> QED
  BY <1>2, <1>3 DEF Marks

\* Where alloc puts a block: on its boundary, past what is in use, with no sum
\* leaving size_t.
LEMMA OffsetFacts ==
  ASSUME IInv, Representable, ready, NEW sz \in Sizes, NEW a \in Aligns
  PROVE  LET align == EffAlign(a)
             offset == Offset(align)
         IN  /\ align \in Nat \ {0} /\ sz \in Nat
             /\ offset \in Nat /\ used_sz <= offset
             /\ Wrap(offset + sz) = offset + sz
             /\ (base + offset) % align = 0
             /\ NewProtect(offset + sz) \in Nat
             /\ offset + sz <= NewProtect(offset + sz)
<1> DEFINE align == EffAlign(a)
           pad == AlignOffset(base + used_sz, align)
<1>1. /\ align \in Nat \ {0} /\ align \in Aligns \cup DefaultAligns
  BY ConstantsOK DEF EffAlign, IInv, TypeOK, PowersOfTwo
<1>2. /\ used_sz \in Nat /\ base \in Nat /\ grow_sz \in Nat \ {0}
      /\ used_sz <= MaxSpace
  <2>1. /\ used_sz \in Nat /\ base \in Nat /\ grow_sz \in Nat \ {0}
        /\ protect_sz \in Nat /\ accessible \in Nat
        /\ reserve_sz \in Nat /\ neighbour \in Nat
    BY DEF IInv, TypeOK
  <2>2. /\ used_sz <= protect_sz /\ protect_sz <= accessible /\ accessible <= Mapped
        /\ reserve_sz + neighbour <= MaxSpace
    BY DEF IInv
  <2>3. Mapped \in Nat /\ Mapped <= reserve_sz + neighbour
    BY MappedFacts DEF IInv
  <2> QED
    BY <2>1, <2>2, <2>3, ConstantsOK
<1>3. PICK g \in GrowSizes, ps \in PageSizes : grow_sz <= g + ps
  BY DEF IInv
<1>4. MaxSpace + align + sz + g + ps <= SIZE_MAX
  BY <1>1 DEF Representable
<1>5. /\ sz \in Nat /\ MaxSpace \in Nat /\ SIZE_MAX \in Nat
      /\ g \in Nat /\ ps \in Nat
  BY ConstantsOK, SizeMaxOK
<1>6. pad \in Nat /\ pad < align /\ ((base + used_sz) + pad) % align = 0
  <2>1. base + used_sz \in Nat
    BY <1>2
  <2>2. pad \in Nat /\ pad < align
    BY <1>1, <2>1, OffsetRange
  <2>3. ((base + used_sz) + pad) % align = 0
    BY <1>1, <2>1, OffsetAligns
  <2> QED
    BY <2>2, <2>3
<1> HIDE DEF align, pad
<1>7. /\ used_sz + pad \in Nat /\ used_sz + pad <= SIZE_MAX
      /\ used_sz + pad + sz \in Nat /\ used_sz + pad + sz <= SIZE_MAX
      /\ used_sz + pad + sz + grow_sz <= SIZE_MAX
  BY <1>1, <1>2, <1>3, <1>4, <1>5, <1>6, SMT
<1>8. Offset(align) = used_sz + pad
  BY <1>7, WrapExact DEF Offset, pad
<1>9. Wrap(used_sz + pad + sz) = used_sz + pad + sz
  BY <1>7, WrapExact
<1>10. base + (used_sz + pad) = (base + used_sz) + pad
  BY <1>2, <1>6
<1>11. /\ NewProtect(used_sz + pad + sz) \in Nat
       /\ used_sz + pad + sz <= NewProtect(used_sz + pad + sz)
  BY <1>2, <1>7, RoundUpFacts DEF NewProtect
<1> QED
  BY <1>1, <1>2, <1>5, <1>6, <1>7, <1>8, <1>9, <1>10, <1>11 DEF align

-----------------------------------------------------------------------------
(* Every action preserves the inductive invariant and alignment. *)

\* What both ways to succeed do to the client.
LEMMA GrantKeeps ==
  ASSUME IInv, BlocksAligned, Representable, ready,
         NEW sz \in Sizes, NEW a \in Aligns,
         Grant(Offset(EffAlign(a)), sz, EffAlign(a)),
         protect_sz' \in Nat, accessible' \in Nat,
         Offset(EffAlign(a)) + sz <= protect_sz', protect_sz' <= accessible',
         accessible' <= Mapped
  PROVE  IInv' /\ BlocksAligned'
<1> DEFINE align == EffAlign(a)
           offset == Offset(align)
           b == [seg |-> base, off |-> offset, size |-> sz, align |-> align]
<1>1. /\ align \in Nat \ {0} /\ sz \in Nat
      /\ offset \in Nat /\ used_sz <= offset
      /\ Wrap(offset + sz) = offset + sz
      /\ (base + offset) % align = 0
  BY OffsetFacts
<1>2. /\ used_sz' = offset + sz /\ live' = Append(live, b) /\ ret' = "block"
      /\ UNCHANGED <<platform, reserve_sz, grow_sz, default_align, base, ready,
                     neighbour, marks>>
      /\ Mapped' = Mapped
  BY <1>1, MappedKept DEF Grant, conf_vars
<1>3. b \in Blocks
  BY <1>1 DEF Blocks, IInv, TypeOK
<1>4. b.seg = base /\ b.off = offset /\ b.size = sz /\ b.align = align
  OBVIOUS
<1> HIDE DEF b, offset, align
<1>5. /\ live \in Seq(Blocks) /\ Len(live) \in Nat /\ DOMAIN live = 1 .. Len(live)
      /\ used_sz \in Nat
  BY DEF IInv, TypeOK
<1>6. /\ live' \in Seq(Blocks) /\ Len(live') = Len(live) + 1
      /\ DOMAIN live' = 1 .. Len(live) + 1
      /\ live'[Len(live) + 1] = b
      /\ \A k \in 1 .. Len(live) : live'[k] = live[k]
  BY <1>2, <1>3, <1>5, AppendFacts
<1>7. /\ \A k \in DOMAIN live : live[k].off \in Nat /\ live[k].size \in Nat
      /\ \A m \in DOMAIN marks : marks[m].tok \in Nat /\ marks[m].n \in Nat
  BY ClientTyped DEF IInv
<1>8. /\ \A k \in DOMAIN live :
           live[k].seg = base /\ live[k].off + live[k].size <= used_sz
      /\ \A j, k \in DOMAIN live :
           j < k => live[j].off + live[j].size <= live[k].off
      /\ \A m \in DOMAIN marks : marks[m].tok <= used_sz /\ marks[m].n <= Len(live)
      /\ \A m \in DOMAIN marks : \A k \in DOMAIN live :
           IF k <= marks[m].n THEN live[k].off + live[k].size <= marks[m].tok
                              ELSE live[k].off >= marks[m].tok
      /\ \A k \in DOMAIN live : (base + live[k].off) % live[k].align = 0
  BY DEF IInv, MarksSeparate, BlocksAligned
<1>9. \A k \in DOMAIN live' : k \in DOMAIN live \/ k = Len(live) + 1
  BY <1>5, <1>6
<1>10. \A k \in DOMAIN live' :
         live'[k].seg = base' /\ live'[k].off + live'[k].size <= used_sz'
  BY <1>1, <1>2, <1>4, <1>5, <1>6, <1>7, <1>8
<1>11. \A j, k \in DOMAIN live' :
         j < k => live'[j].off + live'[j].size <= live'[k].off
  <2> SUFFICES ASSUME NEW j \in DOMAIN live', NEW k \in DOMAIN live', j < k
               PROVE  live'[j].off + live'[j].size <= live'[k].off
    OBVIOUS
  <2>1. j \in DOMAIN live /\ live'[j] = live[j]
    BY <1>5, <1>6
  <2>2. CASE k \in DOMAIN live
    BY <1>5, <1>6, <1>8, <2>1, <2>2
  <2>3. CASE k = Len(live) + 1
    <3>1. live[j].off + live[j].size <= used_sz
      BY <1>8, <2>1
    <3>2. live'[k].off = offset
      BY <1>4, <1>6, <2>3
    <3>3. live[j].off + live[j].size \in Nat
      BY <1>7, <2>1
    <3> QED
      BY <1>1, <1>5, <2>1, <3>1, <3>2, <3>3
  <2> QED
    BY <1>9, <2>2, <2>3
<1>12. \A m \in DOMAIN marks' :
         marks'[m].tok <= used_sz' /\ marks'[m].n <= Len(live')
  BY <1>1, <1>2, <1>5, <1>6, <1>7, <1>8
<1>13. ASSUME NEW m \in DOMAIN marks', NEW k \in DOMAIN live'
       PROVE  IF k <= marks'[m].n THEN live'[k].off + live'[k].size <= marks'[m].tok
                                  ELSE live'[k].off >= marks'[m].tok
  <2>1. m \in DOMAIN marks /\ marks'[m] = marks[m]
    BY <1>2
  <2>2. CASE k \in DOMAIN live
    BY <1>5, <1>6, <1>8, <2>1, <2>2
  <2>3. CASE k = Len(live) + 1
    <3>1. marks[m].n \in Nat /\ marks[m].tok \in Nat
      BY <1>7, <2>1
    <3>2. marks[m].n <= Len(live) /\ marks[m].tok <= used_sz
      BY <1>8, <2>1
    <3>3. live'[k].off = offset
      BY <1>4, <1>6, <2>3
    <3>4. ~(k <= marks[m].n)
      BY <1>5, <2>3, <3>1, <3>2
    <3>5. offset >= marks[m].tok
      BY <1>1, <1>5, <3>1, <3>2
    <3> QED
      BY <2>1, <3>3, <3>4, <3>5
  <2> QED
    BY <1>9, <2>2, <2>3
<1>14. \A k \in DOMAIN live' : (base' + live'[k].off) % live'[k].align = 0
  <2>1. \A k \in DOMAIN live : (base' + live'[k].off) % live'[k].align = 0
    BY <1>2, <1>5, <1>6, <1>8
  <2>2. (base' + live'[Len(live) + 1].off) % live'[Len(live) + 1].align = 0
    BY <1>1, <1>2, <1>4, <1>6
  <2> QED
    BY <1>9, <2>1, <2>2
<1>15. TypeOK'
  BY <1>1, <1>2, <1>6 DEF IInv, TypeOK
<1>16. IInv'
  <2>1. offset + sz <= protect_sz'
    BY DEF offset, align
  <2>2. \A l, m \in DOMAIN marks' :
          l < m => marks'[l].tok <= marks'[m].tok /\ marks'[l].n <= marks'[m].n
    BY <1>2 DEF IInv
  <2>3. /\ ready' /\ used_sz' <= protect_sz' /\ protect_sz' <= accessible'
        /\ accessible' <= Mapped'
        /\ reserve_sz' + neighbour' <= MaxSpace
        /\ default_align' \in DefaultAligns
    BY <1>2, <2>1 DEF IInv
  <2>4. \E g \in GrowSizes, ps \in PageSizes : grow_sz' <= g + ps
    BY <1>2 DEF IInv
  <2>5. MarksSeparate'
    BY <1>13 DEF MarksSeparate
  <2> QED
    BY <1>10, <1>11, <1>12, <1>15, <2>2, <2>3, <2>4, <2>5 DEF IInv
<1> QED
  BY <1>14, <1>16 DEF BlocksAligned


\* Calls that change neither the offsets of the allocator nor the client, except
\* that an mprotect that failed halfway leaves more accessible.
LEMMA IdleStep ==
  ASSUME IInv, BlocksAligned,
         UNCHANGED <<conf_vars, protect_sz, used_sz, live, marks>>,
         accessible' \in Nat, accessible <= accessible',
         ready => accessible' <= Mapped,
         ret' \in {"void", "null", "block"}
  PROVE  IInv' /\ BlocksAligned'
<1>1. /\ protect_sz \in Nat /\ accessible \in Nat
  BY DEF IInv, TypeOK
<1>2. TypeOK'
  BY DEF IInv, TypeOK, conf_vars
<1>3. MarksSeparate'
  BY DEF IInv, MarksSeparate
<1>4. ready' =>
        /\ used_sz' <= protect_sz' /\ protect_sz' <= accessible'
        /\ accessible' <= Mapped'
        /\ reserve_sz' + neighbour' <= MaxSpace
        /\ default_align' \in DefaultAligns
        /\ \E g \in GrowSizes, ps \in PageSizes : grow_sz' <= g + ps
  BY <1>1, MappedKept DEF IInv, conf_vars
<1>5. IInv'
  BY <1>2, <1>3, <1>4 DEF IInv, conf_vars
<1> QED
  BY <1>5 DEF BlocksAligned, conf_vars

\* What init stores is typed, and grows by at least a page.
LEMMA SettingsFacts ==
  ASSUME Representable,
         NEW r \in ReserveSizes, NEW a \in DefaultAligns, NEW g \in GrowSizes,
         NEW ps \in PageSizes, ps # 0, Settings(r, a, g, ps)
  PROVE  /\ reserve_sz' \in Nat /\ default_align' = a /\ a \in Nat \ {0}
         /\ grow_sz' \in Nat \ {0} /\ grow_sz' <= g + ps
         /\ used_sz' = 0 /\ protect_sz' = 0
         /\ reserve_sz' = RoundUp(r, ps)
<1>1. /\ r \in Nat \ {0} /\ a \in Nat \ {0} /\ g \in Nat /\ ps \in Nat \ {0}
  BY ConstantsOK DEF PowersOfTwo
<1>2. r + ps <= SIZE_MAX /\ g + ps <= SIZE_MAX
  BY DEF Representable
<1>3. /\ RoundUp(r, ps) \in Nat
      /\ RoundUp(g, ps) \in Nat /\ g <= RoundUp(g, ps)
      /\ RoundUp(g, ps) <= g + ps - 1
  BY <1>1, <1>2, RoundUpFacts
<1>4. /\ GrowSize(g, ps) \in Nat /\ GrowSize(g, ps) > 0
      /\ GrowSize(g, ps) <= g + ps
  BY <1>1, <1>3 DEF GrowSize
<1> QED
  BY <1>1, <1>3, <1>4 DEF Settings

LEMMA VirtualInitStep ==
  ASSUME IInv, Representable,
         NEW r \in ReserveSizes, NEW a \in DefaultAligns, NEW g \in GrowSizes,
         NEW ps \in PageSizes, NEW addr \in Bases, NEW near \in Neighbours,
         VirtualInit(r, a, g, ps, addr, near)
  PROVE  IInv' /\ BlocksAligned'
<1>1. addr \in Nat /\ near \in Nat /\ ps # 0 /\ Settings(r, a, g, ps)
  BY ConstantsOK DEF VirtualInit
<1>2. /\ reserve_sz' \in Nat /\ default_align' = a /\ a \in Nat \ {0}
      /\ grow_sz' \in Nat \ {0} /\ grow_sz' <= g + ps
      /\ used_sz' = 0 /\ protect_sz' = 0 /\ reserve_sz' = RoundUp(r, ps)
  BY <1>1, SettingsFacts
<1>3. /\ base' = addr /\ neighbour' = near /\ accessible' = 0 /\ ready' = TRUE
      /\ ret' = "void" /\ platform' = platform
      /\ RoundUp(r, ps) + near <= MaxSpace
  BY DEF VirtualInit
<1>4. /\ live' = <<>> /\ marks' = <<>> /\ DOMAIN live' = {} /\ DOMAIN marks' = {}
  BY DEF VirtualInit, IInv
<1>5. TypeOK'
  BY <1>1, <1>2, <1>3, <1>4 DEF IInv, TypeOK
<1>6. Mapped' \in Nat
  BY <1>1, <1>2, <1>3 DEF Mapped
<1>7. /\ used_sz' <= protect_sz' /\ protect_sz' <= accessible'
      /\ accessible' <= Mapped'
      /\ reserve_sz' + neighbour' <= MaxSpace
      /\ default_align' \in DefaultAligns
      /\ grow_sz' <= g + ps
  BY <1>2, <1>3, <1>6
<1>8. MarksSeparate' /\ BlocksAligned'
  BY <1>4 DEF MarksSeparate, BlocksAligned
<1>9. IInv'
  BY <1>4, <1>5, <1>7, <1>8 DEF IInv
<1> QED
  BY <1>8, <1>9

\* An init that finds no room leaves an allocator that is not in use.
LEMMA NoRoomStep ==
  ASSUME IInv, Representable,
         NEW r \in ReserveSizes, NEW a \in DefaultAligns, NEW g \in GrowSizes,
         NEW ps \in PageSizes, VirtualInitNoRoom(r, a, g, ps)
  PROVE  IInv' /\ BlocksAligned'
<1>1. ps # 0 /\ Settings(r, a, g, ps)
  BY DEF VirtualInitNoRoom
<1>2. /\ reserve_sz' \in Nat /\ default_align' \in Nat \ {0}
      /\ grow_sz' \in Nat \ {0} /\ used_sz' = 0 /\ protect_sz' = 0
  BY <1>1, SettingsFacts
<1>3. base' \in Nat /\ ret' = "null"
  BY SizeMaxOK DEF VirtualInitNoRoom
<1>4. /\ ready' = FALSE /\ live' = <<>> /\ marks' = <<>>
      /\ DOMAIN live' = {} /\ DOMAIN marks' = {}
      /\ UNCHANGED <<platform, neighbour, accessible>>
  BY DEF VirtualInitNoRoom, IInv, TypeOK
<1>5. TypeOK'
  <2>1. live' \in Seq(Blocks) /\ marks' \in Seq(Marks)
    BY <1>4
  <2> QED
    BY <1>2, <1>3, <1>4, <2>1 DEF IInv, TypeOK
<1>6. MarksSeparate' /\ BlocksAligned'
  BY <1>4 DEF MarksSeparate, BlocksAligned
<1>7. IInv'
  BY <1>4, <1>5, <1>6 DEF IInv
<1> QED
  BY <1>6, <1>7

LEMMA AllocWithinStep ==
  ASSUME IInv, BlocksAligned, Representable, NEW sz \in Sizes, NEW a \in Aligns,
         AllocWithin(sz, a)
  PROVE  IInv' /\ BlocksAligned'
<1>1. /\ ready /\ Grant(Offset(EffAlign(a)), sz, EffAlign(a))
      /\ Wrap(Offset(EffAlign(a)) + sz) <= protect_sz
      /\ protect_sz' = protect_sz /\ accessible' = accessible
  BY DEF AllocWithin, Calling
<1>2. Wrap(Offset(EffAlign(a)) + sz) = Offset(EffAlign(a)) + sz
  BY <1>1, OffsetFacts
<1>3. /\ protect_sz \in Nat /\ accessible \in Nat /\ protect_sz <= accessible
      /\ accessible <= Mapped
  BY <1>1 DEF IInv, TypeOK
<1> QED
  BY <1>1, <1>2, <1>3, GrantKeeps

LEMMA AllocProtectStep ==
  ASSUME IInv, BlocksAligned, Representable, NEW sz \in Sizes, NEW a \in Aligns,
         AllocProtect(sz, a)
  PROVE  IInv' /\ BlocksAligned'
<1> DEFINE end == Offset(EffAlign(a)) + sz
<1>1. ready /\ Grant(Offset(EffAlign(a)), sz, EffAlign(a))
  BY DEF AllocProtect, Calling
<1>2. Wrap(end) = end /\ NewProtect(end) \in Nat /\ end <= NewProtect(end)
  BY <1>1, OffsetFacts
<1>3. /\ protect_sz' = NewProtect(end)
      /\ NewProtect(end) <= Mapped
      /\ accessible' = IF NewProtect(end) > accessible THEN NewProtect(end)
                                                       ELSE accessible
  BY <1>2 DEF AllocProtect
<1> HIDE DEF end
<1>4. accessible \in Nat /\ accessible <= Mapped /\ Mapped \in Nat
  BY <1>1, MappedFacts DEF IInv, TypeOK
<1>5. /\ protect_sz' \in Nat /\ accessible' \in Nat /\ protect_sz' <= accessible'
      /\ accessible' <= Mapped
  BY <1>2, <1>3, <1>4
<1>6. end <= protect_sz'
  BY <1>2, <1>3
<1> QED
  BY <1>1, <1>5, <1>6, GrantKeeps DEF end

LEMMA AllocFailStep ==
  ASSUME IInv, BlocksAligned, NEW sz \in Sizes, NEW a \in Aligns, AllocFail(sz, a)
  PROVE  IInv' /\ BlocksAligned'
<1>1. ready /\ accessible \in Nat /\ accessible <= Mapped /\ Mapped \in Nat
  BY MappedFacts DEF IInv, TypeOK, AllocFail, Calling
<1>2. accessible' \in {accessible, Mapped}
  BY DEF AllocFail
<1>3. accessible' \in Nat /\ accessible <= accessible' /\ accessible' <= Mapped
  BY <1>1, <1>2
<1>4. /\ UNCHANGED <<conf_vars, protect_sz, used_sz, live, marks>>
      /\ ret' = "null"
  BY DEF AllocFail
<1> QED
  BY <1>3, <1>4, IdleStep

\* A save names what is used and all the blocks below it.
LEMMA SaveStep ==
  ASSUME IInv, BlocksAligned, Save
  PROVE  IInv' /\ BlocksAligned'
<1> DEFINE s == [tok |-> used_sz, n |-> Len(live)]
           M == Len(marks)
<1>1. /\ marks \in Seq(Marks) /\ live \in Seq(Blocks) /\ used_sz \in Nat
      /\ Len(live) \in Nat /\ DOMAIN live = 1 .. Len(live)
      /\ M \in Nat /\ DOMAIN marks = 1 .. M
  BY DEF IInv, TypeOK
<1>2. s \in Marks /\ s.tok = used_sz /\ s.n = Len(live)
  BY <1>1 DEF Marks
<1>3. /\ marks' = Append(marks, s) /\ ret' = "void"
      /\ UNCHANGED <<conf_vars, protect_sz, used_sz, accessible, live>>
  BY DEF Save
<1> HIDE DEF s
<1>4. /\ marks' \in Seq(Marks) /\ DOMAIN marks' = 1 .. M + 1
      /\ marks'[M + 1] = s /\ \A m \in 1 .. M : marks'[m] = marks[m]
  BY <1>1, <1>2, <1>3, AppendFacts
<1>5. \A m \in DOMAIN marks' : m \in DOMAIN marks \/ m = M + 1
  BY <1>1, <1>4
<1>6. /\ \A k \in DOMAIN live : live[k].off \in Nat /\ live[k].size \in Nat
      /\ \A m \in DOMAIN marks : marks[m].tok \in Nat /\ marks[m].n \in Nat
  BY ClientTyped DEF IInv
<1>7. \A m \in DOMAIN marks' :
        marks'[m].tok <= used_sz' /\ marks'[m].n <= Len(live')
  <2>1. \A m \in DOMAIN marks : marks[m].tok <= used_sz /\ marks[m].n <= Len(live)
    BY DEF IInv
  <2>2. s.tok <= used_sz /\ s.n <= Len(live)
    BY <1>1, <1>2
  <2> QED
    BY <1>1, <1>3, <1>4, <1>5, <2>1, <2>2
<1>8. \A l, m \in DOMAIN marks' :
        l < m => marks'[l].tok <= marks'[m].tok /\ marks'[l].n <= marks'[m].n
  <2> SUFFICES ASSUME NEW l \in DOMAIN marks', NEW m \in DOMAIN marks', l < m
               PROVE  marks'[l].tok <= marks'[m].tok /\ marks'[l].n <= marks'[m].n
    OBVIOUS
  <2>1. l \in DOMAIN marks /\ marks'[l] = marks[l]
    BY <1>1, <1>4
  <2>2. /\ marks[l].tok <= used_sz /\ marks[l].n <= Len(live)
        /\ m \in DOMAIN marks => marks[l].tok <= marks[m].tok
                                   /\ marks[l].n <= marks[m].n
    BY <2>1 DEF IInv
  <2> QED
    BY <1>1, <1>2, <1>4, <1>5, <2>1, <2>2
<1>9. MarksSeparate'
  <2> SUFFICES ASSUME NEW m \in DOMAIN marks', NEW k \in DOMAIN live
               PROVE  IF k <= marks'[m].n
                        THEN live[k].off + live[k].size <= marks'[m].tok
                        ELSE live[k].off >= marks'[m].tok
    BY <1>3 DEF MarksSeparate
  <2>1. CASE m \in DOMAIN marks
    BY <1>1, <1>4, <2>1 DEF IInv, MarksSeparate
  <2>2. CASE m = M + 1
    <3>1. live[k].off + live[k].size <= used_sz
      BY DEF IInv
    <3>2. k <= Len(live)
      BY <1>1
    <3> QED
      BY <1>2, <1>4, <2>2, <3>1, <3>2
  <2> QED
    BY <1>5, <2>1, <2>2
<1>10. TypeOK'
  BY <1>3, <1>4 DEF IInv, TypeOK, conf_vars
<1>11. ready' =>
        /\ used_sz' <= protect_sz' /\ protect_sz' <= accessible'
        /\ accessible' <= Mapped'
        /\ reserve_sz' + neighbour' <= MaxSpace
        /\ default_align' \in DefaultAligns
        /\ \E g \in GrowSizes, ps \in PageSizes : grow_sz' <= g + ps
  BY <1>3, MappedKept DEF IInv, conf_vars
<1>12. ready /\ ready' = ready
  BY <1>3 DEF Save, conf_vars
<1>13. /\ \A k \in DOMAIN live' :
            live'[k].seg = base' /\ live'[k].off + live'[k].size <= used_sz'
       /\ \A j, k \in DOMAIN live' :
            j < k => live'[j].off + live'[j].size <= live'[k].off
  BY <1>3 DEF IInv, conf_vars
<1>14. IInv'
  BY <1>7, <1>8, <1>9, <1>10, <1>11, <1>12, <1>13 DEF IInv
<1> QED
  BY <1>3, <1>14 DEF BlocksAligned, conf_vars

\* What restore leaves was below the save all along.
LEMMA RestoreStep ==
  ASSUME IInv, BlocksAligned, NEW m \in DOMAIN marks, Restore(m)
  PROVE  IInv' /\ BlocksAligned'
<1> DEFINE N == marks[m].n
<1>1. /\ marks \in Seq(Marks) /\ live \in Seq(Blocks) /\ used_sz \in Nat
      /\ Len(live) \in Nat /\ DOMAIN live = 1 .. Len(live)
      /\ Len(marks) \in Nat /\ DOMAIN marks = 1 .. Len(marks)
  BY DEF IInv, TypeOK
<1>2. /\ marks[m].tok \in Nat /\ N \in 0 .. Len(live)
      /\ marks[m].tok <= used_sz
  BY <1>1, ClientTyped DEF IInv
<1>3. /\ ready /\ used_sz' = marks[m].tok
      /\ live' = SubSeq(live, 1, N) /\ marks' = SubSeq(marks, 1, m)
      /\ ret' = "void" /\ UNCHANGED <<conf_vars, protect_sz, accessible>>
  BY DEF Restore
<1>4. /\ live' \in Seq(Blocks) /\ Len(live') = N /\ DOMAIN live' = 1 .. N
      /\ \A k \in 1 .. N : live'[k] = live[k] /\ k \in DOMAIN live
  BY <1>1, <1>2, <1>3, PrefixFacts
<1>5. m \in 0 .. Len(marks)
  BY <1>1
<1>6. /\ marks' \in Seq(Marks) /\ DOMAIN marks' = 1 .. m
      /\ \A l \in 1 .. m : marks'[l] = marks[l] /\ l \in DOMAIN marks
  BY <1>1, <1>3, <1>5, PrefixFacts
<1> HIDE DEF N
<1>7. \A k \in DOMAIN live' :
        live'[k].seg = base' /\ live'[k].off + live'[k].size <= used_sz'
  <2> SUFFICES ASSUME NEW k \in 1 .. N
               PROVE  live[k].seg = base /\ live[k].off + live[k].size <= used_sz'
    BY <1>3, <1>4 DEF conf_vars
  <2>1. k \in DOMAIN live /\ k <= marks[m].n
    BY <1>2, <1>4 DEF N
  <2>2. live[k].off + live[k].size <= marks[m].tok /\ live[k].seg = base
    BY <2>1 DEF IInv, MarksSeparate
  <2> QED
    BY <1>3, <2>2
<1>8. \A j, k \in DOMAIN live' :
        j < k => live'[j].off + live'[j].size <= live'[k].off
  BY <1>4 DEF IInv
<1>9. \A l \in DOMAIN marks' :
        marks'[l].tok <= used_sz' /\ marks'[l].n <= Len(live')
  <2> SUFFICES ASSUME NEW l \in 1 .. m
               PROVE  marks[l].tok <= marks[m].tok /\ marks[l].n <= N
    BY <1>3, <1>4, <1>6
  <2>1. l \in DOMAIN marks /\ (l < m \/ l = m)
    BY <1>1, <1>6
  <2>2. l < m => marks[l].tok <= marks[m].tok /\ marks[l].n <= marks[m].n
    BY <2>1 DEF IInv
  <2> QED
    BY <1>2, <2>1, <2>2 DEF N
<1>10. \A k, l \in DOMAIN marks' :
         k < l => marks'[k].tok <= marks'[l].tok /\ marks'[k].n <= marks'[l].n
  BY <1>6 DEF IInv
<1>11. MarksSeparate'
  BY <1>4, <1>6 DEF IInv, MarksSeparate
<1>12. TypeOK'
  BY <1>2, <1>3, <1>4, <1>6 DEF IInv, TypeOK, conf_vars
<1>13. protect_sz \in Nat /\ used_sz <= protect_sz /\ protect_sz <= accessible
  BY <1>3 DEF IInv, TypeOK
<1>14. /\ used_sz' <= protect_sz' /\ protect_sz' <= accessible'
       /\ accessible' <= Mapped'
       /\ reserve_sz' + neighbour' <= MaxSpace
       /\ default_align' \in DefaultAligns
       /\ \E g \in GrowSizes, ps \in PageSizes : grow_sz' <= g + ps
  <2>1. used_sz' <= protect_sz'
    BY <1>1, <1>2, <1>3, <1>13
  <2>2. /\ reserve_sz' = reserve_sz /\ neighbour' = neighbour
        /\ default_align' = default_align /\ grow_sz' = grow_sz
        /\ protect_sz' = protect_sz /\ accessible' = accessible
        /\ Mapped' = Mapped
    BY <1>3, MappedKept DEF conf_vars
  <2>3. /\ accessible <= Mapped
        /\ reserve_sz + neighbour <= MaxSpace
        /\ default_align \in DefaultAligns
        /\ \E g \in GrowSizes, ps \in PageSizes : grow_sz <= g + ps
    BY <1>3 DEF IInv
  <2> QED
    BY <1>13, <2>1, <2>2, <2>3
<1>15. ready'
  BY <1>3 DEF conf_vars
<1>16. IInv'
  BY <1>7, <1>8, <1>9, <1>10, <1>11, <1>12, <1>14, <1>15 DEF IInv
<1>17. \A k \in 1 .. N : (base + live[k].off) % live[k].align = 0
  BY <1>4 DEF BlocksAligned
<1> QED
  BY <1>3, <1>4, <1>16, <1>17 DEF BlocksAligned, conf_vars

LEMMA VirtualFreeStep ==
  ASSUME IInv, VirtualFree
  PROVE  IInv' /\ BlocksAligned'
<1>1. /\ live' = <<>> /\ marks' = <<>> /\ DOMAIN live' = {} /\ DOMAIN marks' = {}
      /\ ready' = FALSE
  BY DEF VirtualFree
<1>2. TypeOK'
  <2>1. /\ live' \in Seq(Blocks) /\ marks' \in Seq(Marks) /\ ret' = "void"
        /\ accessible' \in Nat
    BY <1>1 DEF VirtualFree
  <2>2. UNCHANGED <<platform, reserve_sz, grow_sz, protect_sz, used_sz,
                   default_align, base, neighbour>>
    BY DEF VirtualFree
  <2> QED
    BY <1>1, <2>1, <2>2 DEF IInv, TypeOK
<1>3. MarksSeparate' /\ BlocksAligned'
  BY <1>1 DEF MarksSeparate, BlocksAligned
<1>4. IInv'
  BY <1>1, <1>2, <1>3 DEF IInv
<1> QED
  BY <1>3, <1>4


LEMMA InitIInv == Init => IInv
<1> SUFFICES ASSUME Init PROVE IInv
  OBVIOUS
<1>1. DOMAIN live = {} /\ DOMAIN marks = {}
  BY DEF Init
<1>2. TypeOK
  <2>1. live \in Seq(Blocks) /\ marks \in Seq(Marks)
    BY DEF Init
  <2> QED
    BY <2>1 DEF Init, TypeOK
<1>3. MarksSeparate
  BY <1>1 DEF MarksSeparate
<1> QED
  BY <1>1, <1>2, <1>3 DEF Init, IInv

\* One case per action: the invariant is inductive, and keeps blocks aligned, as
\* long as no sum leaves size_t.
LEMMA NextIInv ==
  ASSUME Representable
  PROVE  IInv /\ BlocksAligned /\ [Next]_vars => IInv' /\ BlocksAligned'
<1> SUFFICES ASSUME IInv, BlocksAligned, [Next]_vars
             PROVE  IInv' /\ BlocksAligned'
  OBVIOUS
<1>1. ASSUME NEW r \in ReserveSizes, NEW a \in DefaultAligns, NEW g \in GrowSizes,
             NEW ps \in PageSizes, NEW addr \in Bases, NEW near \in Neighbours,
             VirtualInit(r, a, g, ps, addr, near)
      PROVE  IInv' /\ BlocksAligned'
  BY <1>1, VirtualInitStep
<1>2. CASE VirtualInitFail \/ UNCHANGED vars
  <2>1. /\ UNCHANGED <<conf_vars, protect_sz, used_sz, live, marks>>
        /\ accessible' = accessible /\ ret' \in {"null", ret}
    BY <1>2 DEF VirtualInitFail, vars
  <2>2. /\ accessible \in Nat /\ (ready => accessible <= Mapped)
        /\ ret \in {"void", "null", "block"}
    BY DEF IInv, TypeOK
  <2> QED
    BY <2>1, <2>2, IdleStep
<1>3. ASSUME NEW sz \in Sizes, NEW a \in Aligns, AllocWithin(sz, a)
      PROVE  IInv' /\ BlocksAligned'
  BY <1>3, AllocWithinStep
<1>4. ASSUME NEW sz \in Sizes, NEW a \in Aligns, AllocProtect(sz, a)
      PROVE  IInv' /\ BlocksAligned'
  BY <1>4, AllocProtectStep
<1>5. ASSUME NEW sz \in Sizes, NEW a \in Aligns, AllocFail(sz, a)
      PROVE  IInv' /\ BlocksAligned'
  BY <1>5, AllocFailStep
<1>6. CASE Save
  BY <1>6, SaveStep
<1>7. ASSUME NEW m \in DOMAIN marks, Restore(m)
      PROVE  IInv' /\ BlocksAligned'
  BY <1>7, RestoreStep
<1>8. CASE VirtualFree
  BY <1>8, VirtualFreeStep
<1>9. ASSUME NEW r \in ReserveSizes, NEW a \in DefaultAligns, NEW g \in GrowSizes,
             NEW ps \in PageSizes, VirtualInitNoRoom(r, a, g, ps)
      PROVE  IInv' /\ BlocksAligned'
  BY <1>9, NoRoomStep
<1> QED
  BY <1>1, <1>2, <1>3, <1>4, <1>5, <1>6, <1>7, <1>8, <1>9 DEF Next

\* The inductive invariant and alignment hold in every reachable state.
THEOREM Inductive ==
  ASSUME Representable PROVE Spec => [](IInv /\ BlocksAligned)
<1>1. Init => BlocksAligned
  BY DEF Init, BlocksAligned
<1> QED
  BY <1>1, InitIInv, NextIInv, PTL DEF Spec

\* The variables of the allocator and what it tells its client stay typed.
THEOREM TypeCorrect == ASSUME Representable PROVE Spec => []TypeOK
<1>1. IInv => TypeOK
  BY DEF IInv
<1> QED
  BY <1>1, Inductive, PTL

\* Every block in use can be read and written, whichever mprotect failed before,
\* and lies in the reservation on Windows, or if nothing is mapped right after it.
THEOREM Accessibility == ASSUME Representable PROVE Spec => []BlocksAccessible
<1>1. IInv => BlocksAccessible
  <2> SUFFICES ASSUME IInv, NEW k \in DOMAIN live
               PROVE  /\ live[k].seg = base
                      /\ live[k].off + live[k].size <= accessible
                      /\ neighbour = 0 \/ platform = "windows" =>
                           live[k].off + live[k].size <= reserve_sz
    BY DEF BlocksAccessible
  <2>1. live # <<>>
    OBVIOUS
  <2>2. ready
    BY <2>1 DEF IInv, TypeOK
  <2>3. /\ used_sz <= protect_sz /\ protect_sz <= accessible
        /\ accessible <= Mapped
        /\ live[k].seg = base /\ live[k].off + live[k].size <= used_sz
    BY <2>2 DEF IInv
  <2>4. /\ used_sz \in Nat /\ protect_sz \in Nat /\ accessible \in Nat
        /\ Mapped \in Nat
        /\ neighbour = 0 \/ platform = "windows" => Mapped = reserve_sz
    BY MappedFacts DEF IInv, TypeOK
  <2>5. live[k].off + live[k].size \in Nat
    BY ClientTyped DEF IInv
  <2> QED
    BY <2>3, <2>4, <2>5
<1> QED
  BY <1>1, Inductive, PTL

\* An allocated block starts at a multiple of its alignment, however coarse.
THEOREM Alignment == ASSUME Representable PROVE Spec => []BlocksAligned
BY Inductive, PTL

\* What a save returned keeps separating older blocks from newer ones.
THEOREM Separation == ASSUME Representable PROVE Spec => []MarksSeparate
<1>1. IInv => MarksSeparate
  BY DEF IInv
<1> QED
  BY <1>1, Inductive, PTL

-----------------------------------------------------------------------------
(* The allocator implements the stack-allocator contract. *)

\* A grant is of memory no block in use shares.
LEMMA GrantImplements ==
  ASSUME IInv, Representable, ready, NEW sz \in Sizes, NEW a \in Aligns,
         Grant(Offset(EffAlign(a)), sz, EffAlign(a))
  PROVE  SA!Grant
<1> DEFINE align == EffAlign(a)
           offset == Offset(align)
           b == [seg |-> base, off |-> offset, size |-> sz, align |-> align]
<1>1. /\ live' = Append(live, b) /\ marks' = marks /\ ret' = "block"
  BY DEF Grant
<1>2. /\ offset \in Nat /\ used_sz <= offset /\ sz \in Nat
      /\ align \in Nat \ {0}
  BY OffsetFacts
<1>3. b \in Blocks /\ b.off = offset
  BY <1>2 DEF Blocks, IInv, TypeOK
<1> HIDE DEF b, offset, align
<1>4. live \in Seq(Blocks) /\ used_sz \in Nat
  BY DEF IInv, TypeOK
<1>5. /\ Len(live') = Len(live) + 1 /\ live'[Len(live) + 1] = b
  BY <1>1, <1>3, <1>4, AppendFacts
<1>6. \A k \in DOMAIN live : SA!Disjoint(live[k], b)
  <2> SUFFICES ASSUME NEW k \in DOMAIN live
               PROVE  live[k].off + live[k].size <= b.off
    BY DEF SA!Disjoint
  <2>1. live[k].off + live[k].size <= used_sz
    BY DEF IInv
  <2>2. live[k].off + live[k].size \in Nat
    BY ClientTyped DEF IInv
  <2> QED
    BY <1>2, <1>3, <1>4, <2>1, <2>2
<1>7. live'[Len(live')] = b
  BY <1>5
<1> QED
  BY <1>1, <1>5, <1>6, <1>7 DEF SA!Grant

\* Every call is a step of the contract.
LEMMA StepImplements ==
  ASSUME Representable, IInv, [Next]_vars
  PROVE  [SA!Next]_SA!vars
<1>1. live \in Seq(Blocks) /\ marks \in Seq(Marks)
  BY DEF IInv, TypeOK
<1>2. ASSUME NEW sz \in Sizes, NEW a \in Aligns, AllocWithin(sz, a)
      PROVE  SA!Next
  BY <1>2, GrantImplements DEF AllocWithin, Calling, SA!Next
<1>3. ASSUME NEW sz \in Sizes, NEW a \in Aligns, AllocProtect(sz, a)
      PROVE  SA!Next
  <2>1. ready /\ Grant(Offset(EffAlign(a)), sz, EffAlign(a))
    BY <1>3 DEF AllocProtect, Calling
  <2> QED
    BY <2>1, GrantImplements DEF SA!Next
<1>4. ASSUME live' = live, marks' = marks, ret' = "null"
      PROVE  SA!Next
  BY <1>4 DEF SA!Refuse, SA!Next
<1>5. CASE \/ VirtualInitFail \/ \E sz \in Sizes, a \in Aligns : AllocFail(sz, a)
           \/ \E r \in ReserveSizes, a \in DefaultAligns, g \in GrowSizes,
                 ps \in PageSizes : VirtualInitNoRoom(r, a, g, ps)
  BY <1>4, <1>5 DEF VirtualInitFail, VirtualInitNoRoom, AllocFail
<1>6. CASE Save
  <2> DEFINE k == [tok |-> used_sz, n |-> Len(live)]
             f == [i \in DOMAIN marks |-> marks[i].n]
  <2>1. marks' = Append(marks, k) /\ live' = live /\ ret' = "void"
    BY <1>6 DEF Save
  <2>2. k \in Marks /\ k.n = Len(live) /\ Len(live) \in Nat
    BY <1>1 DEF Marks, IInv, TypeOK
  <2> HIDE DEF k
  <2>3. /\ Len(marks) \in Nat /\ DOMAIN marks = 1 .. Len(marks)
        /\ DOMAIN marks' = 1 .. Len(marks) + 1
        /\ \A i \in 1 .. Len(marks) : marks'[i] = marks[i]
        /\ marks'[Len(marks) + 1] = k
    BY <1>1, <2>1, <2>2, AppendFacts
  <2>4. f \in Seq(Nat) /\ Len(f) = Len(marks)
    <3>1. \A i \in DOMAIN marks : marks[i].n \in Nat
      BY ClientTyped DEF IInv
    <3> QED
      BY <2>3, <3>1
  <2>5. /\ Append(f, Len(live)) \in Seq(Nat)
        /\ DOMAIN Append(f, Len(live)) = 1 .. Len(marks) + 1
        /\ \A i \in 1 .. Len(marks) : Append(f, Len(live))[i] = f[i]
        /\ Append(f, Len(live))[Len(marks) + 1] = Len(live)
    BY <2>2, <2>4, AppendFacts
  <2>6. [i \in DOMAIN marks' |-> marks'[i].n] = Append(f, Len(live))
    BY <2>2, <2>3, <2>5
  <2> QED
    BY <2>1, <2>6 DEF SA!Save, SA!Next
<1>7. ASSUME NEW m \in DOMAIN marks, Restore(m)
      PROVE  SA!Next
  <2>1. /\ live' = SubSeq(live, 1, marks[m].n) /\ marks' = SubSeq(marks, 1, m)
        /\ ret' = "void"
    BY <1>7 DEF Restore
  <2>2. [i \in DOMAIN marks' |-> marks'[i].n]
          = SubSeq([i \in DOMAIN marks |-> marks[i].n], 1, m)
    BY <1>1, <2>1, MarksMap
  <2>3. SA!Restore(m)
    BY <2>1, <2>2 DEF SA!Restore
  <2> QED
    BY <2>3 DEF SA!Next
<1>8. ASSUME live' = <<>>, marks' = <<>>, ret' = "void"
      PROVE  SA!Next
  BY <1>8 DEF SA!Reset, SA!Next
<1>9. ASSUME NEW r \in ReserveSizes, NEW a \in DefaultAligns, NEW g \in GrowSizes,
             NEW ps \in PageSizes, NEW addr \in Bases, NEW near \in Neighbours,
             VirtualInit(r, a, g, ps, addr, near)
      PROVE  SA!Next
  <2>1. live = <<>> /\ marks = <<>>
    BY <1>9 DEF VirtualInit, IInv
  <2> QED
    BY <1>8, <1>9, <2>1 DEF VirtualInit
<1>10. CASE VirtualFree
  BY <1>8, <1>10 DEF VirtualFree
<1>11. CASE UNCHANGED vars
  BY <1>11 DEF vars, SA!vars
<1> QED
  BY <1>2, <1>3, <1>5, <1>6, <1>7, <1>9, <1>10, <1>11 DEF Next

\* The reserved range implements the stack-allocator contract of cop_alloc.h.
THEOREM Refinement == ASSUME Representable PROVE Spec => Implements
<1>1. Init => SA!Init
  BY DEF Init, SA!Init
<1>2. IInv /\ [Next]_vars => [SA!Next]_SA!vars
  BY StepImplements
<1> QED
  BY <1>1, <1>2, Inductive, PTL DEF Spec, Implements, SA!Spec
=============================================================================
