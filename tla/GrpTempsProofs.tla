--------------------------- MODULE GrpTempsProofs ---------------------------
(***************************************************************************)
(* Theorems about the group temporaries allocator, for every set of sizes, *)
(* alignments, addresses and buffer identities: type correctness, that     *)
(* blocks are backed by memory, disjoint and aligned, that the assertions  *)
(* of restore hold, and that the chain implements the stack-allocator      *)
(* contract.  All follow from the inductive invariant IInv of GrpTemps.    *)
(***************************************************************************)
EXTENDS GrpTemps, WellFoundedInduction, TLAPS

-----------------------------------------------------------------------------
(* size_t arithmetic, alignment and sequences.                              *)

\* size_t arithmetic is exact on what size_t can represent.
LEMMA WrapExact ==
  ASSUME NEW x \in Nat, x <= SIZE_MAX
  PROVE  Wrap(x) = x
BY SizeMaxOK, SMT DEF Wrap

\* aalloc_alignoffset never skips a whole boundary.
LEMMA OffsetRange ==
  ASSUME NEW v \in Nat, NEW a \in Nat \ {0}
  PROVE  AlignOffset(v, a) \in Nat /\ AlignOffset(v, a) < a
BY SMT DEF AlignOffset

\* aalloc_alignoffset reaches a boundary.
LEMMA OffsetAligns ==
  ASSUME NEW v \in Nat, NEW a \in Nat \ {0}
  PROVE  (v + AlignOffset(v, a)) % a = 0
BY SMT DEF AlignOffset

\* What Append does to a sequence, element by element.
LEMMA AppendFacts ==
  ASSUME NEW S, NEW q \in Seq(S), NEW e \in S
  PROVE  /\ Append(q, e) \in Seq(S)
         /\ Len(Append(q, e)) = Len(q) + 1
         /\ DOMAIN Append(q, e) = 1 .. Len(q) + 1
         /\ \A i \in 1 .. Len(q) : Append(q, e)[i] = q[i]
         /\ Append(q, e)[Len(q) + 1] = e
OBVIOUS

\* What SubSeq keeps of a prefix, element by element.
LEMMA PrefixFacts ==
  ASSUME NEW S, NEW q \in Seq(S), NEW n \in 0 .. Len(q)
  PROVE  /\ SubSeq(q, 1, n) \in Seq(S)
         /\ Len(SubSeq(q, 1, n)) = n
         /\ DOMAIN SubSeq(q, 1, n) = 1 .. n
         /\ \A i \in 1 .. n : SubSeq(q, 1, n)[i] = q[i]
OBVIOUS

\* Front drops the last element.
LEMMA FrontFacts ==
  ASSUME NEW S, NEW q \in Seq(S), q # <<>>
  PROVE  /\ Front(q) \in Seq(S)
         /\ Len(Front(q)) = Len(q) - 1
         /\ DOMAIN Front(q) = 1 .. Len(q) - 1
         /\ \A i \in 1 .. Len(q) - 1 : Front(q)[i] = q[i]
<1>1. Len(q) \in Nat /\ Len(q) # 0
  OBVIOUS
<1>2. Len(q) - 1 \in 0 .. Len(q)
  BY <1>1
<1> QED
  BY <1>2, PrefixFacts DEF Front

\* A nonempty sequence has a last element.
LEMMA LastInDomain ==
  ASSUME NEW S, NEW q \in Seq(S), q # <<>>
  PROVE  /\ Len(q) \in Nat \ {0}
         /\ DOMAIN q = 1 .. Len(q)
         /\ Len(q) \in DOMAIN q
         /\ \A i \in DOMAIN q : q[i] \in S
OBVIOUS

\* The saves, as the contract sees them: only the number of blocks then live.
LEMMA MarksMap ==
  ASSUME NEW q \in Seq(Marks), NEW k \in Marks, NEW m \in DOMAIN q
  PROVE  LET f(r) == [i \in DOMAIN r |-> r[i].n]
         IN  /\ f(Append(q, k)) = Append(f(q), k.n)
             /\ f(SubSeq(q, 1, m)) = SubSeq(f(q), 1, m)
<1> DEFINE f(r) == [i \in DOMAIN r |-> r[i].n]
<1>1. /\ Len(q) \in Nat /\ DOMAIN q = 1 .. Len(q) /\ m \in 0 .. Len(q)
      /\ \A i \in DOMAIN q : q[i] \in Marks
  OBVIOUS
<1>2. f(q) \in Seq(Nat) /\ Len(f(q)) = Len(q) /\ DOMAIN f(q) = 1 .. Len(q)
  BY <1>1 DEF Marks
<1>3. k.n \in Nat
  BY DEF Marks
<1>4. /\ DOMAIN Append(q, k) = 1 .. Len(q) + 1
      /\ \A i \in 1 .. Len(q) : Append(q, k)[i] = q[i]
      /\ Append(q, k)[Len(q) + 1] = k
  BY <1>1, AppendFacts
<1>5. /\ Append(f(q), k.n) \in Seq(Nat)
      /\ DOMAIN Append(f(q), k.n) = 1 .. Len(q) + 1
      /\ \A i \in 1 .. Len(q) : Append(f(q), k.n)[i] = f(q)[i]
      /\ Append(f(q), k.n)[Len(q) + 1] = k.n
  BY <1>2, <1>3, AppendFacts
<1>6. f(Append(q, k)) = Append(f(q), k.n)
  BY <1>1, <1>2, <1>4, <1>5
<1>7. /\ DOMAIN SubSeq(q, 1, m) = 1 .. m
      /\ \A i \in 1 .. m : SubSeq(q, 1, m)[i] = q[i]
  BY <1>1, PrefixFacts
<1>8. /\ SubSeq(f(q), 1, m) \in Seq(Nat)
      /\ DOMAIN SubSeq(f(q), 1, m) = 1 .. m
      /\ \A i \in 1 .. m : SubSeq(f(q), 1, m)[i] = f(q)[i]
  BY <1>1, <1>2, PrefixFacts
<1>9. f(SubSeq(q, 1, m)) = SubSeq(f(q), 1, m)
  BY <1>1, <1>2, <1>7, <1>8
<1> QED
  BY <1>6, <1>9

-----------------------------------------------------------------------------
(* Facts about the operators of the model. *)

\* Assigning the used size of the last buffer changes nothing else.
LEMMA ResizeLast ==
  ASSUME NEW q \in Seq(Buffers), q # <<>>, NEW x \in Nat
  PROVE  LET r == WithUsed(q, x) IN
         /\ r \in Seq(Buffers)
         /\ Len(r) = Len(q) /\ DOMAIN r = DOMAIN q
         /\ \A i \in DOMAIN q :
              /\ r[i].id = q[i].id /\ r[i].base = q[i].base
              /\ r[i].alloc_sz = q[i].alloc_sz /\ r[i].bytes = q[i].bytes
              /\ r[i].below = q[i].below
              /\ r[i].size = IF i = Len(q) THEN x ELSE q[i].size
<1> DEFINE r == WithUsed(q, x)
<1>1. Len(q) \in DOMAIN q
  BY LastInDomain
<1>2. \A i \in DOMAIN q : r[i] = IF i = Len(q) THEN [q[i] EXCEPT !.size = x] ELSE q[i]
  BY <1>1 DEF WithUsed
<1>3. \A i \in DOMAIN q : q[i] \in Buffers
  BY LastInDomain
<1>4. \A i \in DOMAIN q : r[i] \in Buffers
  BY <1>2, <1>3 DEF Buffers
<1>5. r \in Seq(Buffers) /\ Len(r) = Len(q) /\ DOMAIN r = DOMAIN q
  BY <1>4 DEF WithUsed
<1> QED
  BY <1>2, <1>3, <1>5 DEF Buffers

\* Places in a chain.
LEMMA NextPlace ==
  ASSUME NEW n \in Nat \ {0}, NEW i \in 1 .. n - 1
  PROVE  i \in 1 .. n /\ i + 1 \in 1 .. n /\ i # n
OBVIOUS

\* A position that is not the last has a next one.
LEMMA BeforeLast ==
  ASSUME NEW n \in Nat \ {0}, NEW i \in 1 .. n, i # n
  PROVE  i \in 1 .. n - 1 /\ i + 1 \in 1 .. n
OBVIOUS

LEMMA LastOrBefore ==
  ASSUME NEW n \in Nat \ {0}, NEW i \in 1 .. n
  PROVE  i = n \/ i < n
OBVIOUS

\* A buffer is one if its numbers are numbers, and so is a block.
LEMMA BufferTyped ==
  ASSUME NEW id \in BufIds, NEW base \in Nat, NEW alloc_sz \in Nat,
         NEW size \in Nat, NEW bytes \in Nat, NEW below \in Nat
  PROVE  [id |-> id, base |-> base, alloc_sz |-> alloc_sz, size |-> size,
          bytes |-> bytes, below |-> below] \in Buffers
BY DEF Buffers

LEMMA BlockTyped ==
  ASSUME NEW id \in BufIds, NEW off \in Nat, NEW size \in Nat,
         NEW align \in Nat \ {0}, NEW addr \in Nat, NEW pos \in Nat
  PROVE  [seg |-> id, off |-> off, size |-> size, align |-> align,
          addr |-> addr, pos |-> pos] \in Blocks
BY DEF Blocks

-----------------------------------------------------------------------------
(* Facts about a state of the inductive invariant. *)

\* The alignments alloc works with are positive and among those the hypothesis
\* Representable speaks of.
LEMMA EffAlignFacts ==
  ASSUME NEW a \in Aligns, default_align \in DefaultAligns \cup {FallbackAlign},
         default_align > 0
  PROVE  /\ EffAlign(a) \in Nat \ {0}
         /\ EffAlign(a) \in Aligns \cup DefaultAligns \cup {FallbackAlign}
BY ConstantsOK, SMT DEF EffAlign, OrElse, PowersOfTwo

\* The head of a chain in use, and how much the heap can hold of it.
LEMMA HeadFacts ==
  ASSUME IInv, Active
  PROVE  /\ bufs # <<>> /\ bufs \in Seq(Buffers)
         /\ Len(bufs) \in Nat \ {0}
         /\ DOMAIN bufs = 1 .. Len(bufs)
         /\ Len(bufs) \in DOMAIN bufs
         /\ head \in Buffers
         /\ TotalSize \in Nat
         /\ TotalSize = head.below + head.size
         /\ head.size <= head.alloc_sz
         /\ HDR + head.below + head.alloc_sz <= MaxHeap
<1>1. bufs # <<>> /\ bufs \in Seq(Buffers)
  BY DEF IInv, TypeOK, Active
<1>2. /\ Len(bufs) \in Nat \ {0} /\ DOMAIN bufs = 1 .. Len(bufs)
      /\ Len(bufs) \in DOMAIN bufs /\ head \in Buffers
  BY <1>1, LastInDomain DEF head
<1>3. /\ head.size \in Nat /\ head.below \in Nat
      /\ head.alloc_sz \in Nat /\ head.bytes \in Nat
  BY <1>2 DEF Buffers
<1>4. /\ head.size <= head.alloc_sz
      /\ head.bytes = HDR + head.alloc_sz
      /\ head.below + head.bytes <= MaxHeap
      /\ pre_head_size = head.below
  BY <1>2 DEF IInv, ChainInv, head
<1> QED
  BY <1>1, <1>2, <1>3, <1>4, ConstantsOK, SMT DEF TotalSize

\* What save returns fits size_t.
LEMMA TotalFits ==
  ASSUME IInv, Active, Representable
  PROVE  Wrap(TotalSize) = TotalSize
<1>1. TotalSize \in Nat /\ TotalSize <= SIZE_MAX
  <2>1. /\ TotalSize \in Nat /\ head \in Buffers
        /\ TotalSize = head.below + head.size /\ head.size <= head.alloc_sz
        /\ HDR + head.below + head.alloc_sz <= MaxHeap
    BY HeadFacts
  <2>2. head.size \in Nat /\ head.below \in Nat /\ head.alloc_sz \in Nat
    BY <2>1 DEF Buffers
  <2> QED
    BY <2>1, <2>2, ConstantsOK, SizeMaxOK, SMT DEF Representable
<1> QED
  BY <1>1, WrapExact

\* Where alloc puts a block in the head: on its boundary, past what is used,
\* with no sum leaving size_t.
LEMMA StartFacts ==
  ASSUME IInv, Active, Representable, NEW sz \in Sizes, NEW a \in Aligns
  PROVE  LET start == Start(head, EffAlign(a))
         IN  /\ start \in Nat /\ head.size <= start
             /\ Wrap(start) = start /\ Wrap(start + sz) = start + sz
             /\ (head.base + start) % EffAlign(a) = 0
<1> DEFINE align == EffAlign(a)
           pad == AlignOffset(head.base + head.size, align)
<1>1. /\ align \in Nat \ {0}
      /\ align \in Aligns \cup DefaultAligns \cup {FallbackAlign}
  BY EffAlignFacts DEF IInv, ChainInv, TypeOK, Active
<1>2. /\ head.size \in Nat /\ head.base \in Nat /\ head.below \in Nat
      /\ head.alloc_sz \in Nat
      /\ head.size <= head.alloc_sz
      /\ HDR + head.below + head.alloc_sz <= MaxHeap
  BY HeadFacts DEF Buffers
<1>3. pad \in Nat /\ pad < align
  BY <1>1, <1>2, OffsetRange
<1>4. ((head.base + head.size) + pad) % align = 0
  BY <1>1, <1>2, OffsetAligns
<1>5. HDR + MaxHeap + sz + align <= SIZE_MAX
  BY <1>1 DEF Representable
<1>6. sz \in Nat /\ HDR \in Nat /\ MaxHeap \in Nat /\ SIZE_MAX \in Nat
  BY ConstantsOK, SizeMaxOK
<1>7. Start(head, align) = head.size + pad
  BY DEF Start
<1> HIDE DEF align, pad
<1>8. /\ head.size + pad + sz <= SIZE_MAX
      /\ head.size + pad \in Nat /\ head.size + pad + sz \in Nat
      /\ head.size + pad <= SIZE_MAX
  BY <1>1, <1>2, <1>3, <1>5, <1>6, SMT
<1>9. /\ Wrap(head.size + pad) = head.size + pad
      /\ Wrap(head.size + pad + sz) = head.size + pad + sz
  BY <1>8, WrapExact
<1>10. head.base + (head.size + pad) = (head.base + head.size) + pad
  BY <1>2, <1>3, SMT
<1> QED
  BY <1>2, <1>3, <1>4, <1>7, <1>8, <1>9, <1>10 DEF align

\* A pushed buffer holds the request it was pushed for, wherever malloc put it.
LEMMA GrowFacts ==
  ASSUME IInv, Active, Representable,
         NEW sz \in Sizes, NEW a \in Aligns, NEW base \in Bases
  PROVE  LET align == EffAlign(a)
             room  == ActualAlloc(sz, align)
             start == AlignOffset(base, align)
         IN  /\ room \in Nat /\ Wrap(HDR + room) = HDR + room
             /\ start \in Nat /\ start + sz <= room
             /\ Wrap(start + sz) = start + sz
             /\ (base + start) % align = 0
<1> DEFINE align == EffAlign(a)
           start == AlignOffset(base, align)
<1>1. /\ align \in Nat \ {0}
      /\ align \in Aligns \cup DefaultAligns \cup {FallbackAlign}
  BY EffAlignFacts DEF IInv, ChainInv, TypeOK, Active
<1>2. /\ head.size \in Nat /\ head.alloc_sz \in Nat /\ head.below \in Nat
      /\ head.size <= head.alloc_sz
      /\ HDR + head.below + head.alloc_sz <= MaxHeap
  BY HeadFacts DEF Buffers
<1>3. HDR + MaxHeap + sz + align <= SIZE_MAX /\ HDR + 2 * MaxHeap <= SIZE_MAX
  BY <1>1 DEF Representable
<1>4. /\ sz \in Nat /\ HDR \in Nat /\ MaxHeap \in Nat /\ SIZE_MAX \in Nat
      /\ base \in Nat
  BY ConstantsOK, SizeMaxOK
<1>5. start \in Nat /\ start < align /\ (base + start) % align = 0
  BY <1>1, <1>4, OffsetRange, OffsetAligns
<1>6. max_grow \in Nat
  BY DEF IInv, TypeOK
<1> HIDE DEF align, start
<1>7. Wrap(sz + align - 1) = sz + align - 1 /\ sz + align - 1 \in Nat
  <2>1. sz + align - 1 \in Nat /\ sz + align - 1 <= SIZE_MAX
    BY <1>1, <1>3, <1>4, SMT
  <2> QED
    BY <2>1, WrapExact
<1>8. Wrap(head.size * 2) = head.size * 2
  <2>1. head.size * 2 \in Nat /\ head.size * 2 <= SIZE_MAX
    BY <1>2, <1>3, <1>4, SMT
  <2> QED
    BY <2>1, WrapExact
<1> DEFINE room == ActualAlloc(sz, align)
<1>9. /\ room \in Nat /\ sz + align - 1 <= room
      /\ room <= 2 * MaxHeap \/ room <= sz + align
  BY <1>1, <1>2, <1>4, <1>6, <1>7, <1>8, SMT DEF ActualAlloc
<1> HIDE DEF room
<1>10. HDR + room \in Nat /\ HDR + room <= SIZE_MAX
  BY <1>1, <1>3, <1>4, <1>9, SMT
<1>11. start + sz \in Nat /\ start + sz <= room /\ start + sz <= SIZE_MAX
  BY <1>1, <1>4, <1>5, <1>9, <1>10, SMT
<1>12. Wrap(HDR + room) = HDR + room /\ Wrap(start + sz) = start + sz
  BY <1>10, <1>11, WrapExact
<1> QED
  BY <1>5, <1>9, <1>11, <1>12 DEF align, start, room

\* The numbers in what the client holds.
LEMMA ClientTyped ==
  ASSUME TypeOK
  PROVE  /\ \A k \in DOMAIN live :
              live[k].pos \in Nat /\ live[k].size \in Nat /\ live[k].off \in Nat
         /\ \A m \in DOMAIN marks : marks[m].tok \in Nat /\ marks[m].n \in Nat
<1>1. \A k \in DOMAIN live : live[k] \in Blocks
  BY DEF TypeOK
<1>2. \A m \in DOMAIN marks : marks[m] \in Marks
  BY DEF TypeOK
<1>3. \A k \in DOMAIN live :
        live[k].pos \in Nat /\ live[k].size \in Nat /\ live[k].off \in Nat
  BY <1>1 DEF Blocks
<1> QED
  BY <1>2, <1>3 DEF Marks

\* A granted block keeps the client's side of the invariant: it starts where
\* everything older ends.
LEMMA GrantKeepsClient ==
  ASSUME IInv, pc = "idle", pc' = "idle", NEW b \in Blocks,
         live' = Append(live, b), marks' = marks,
         b.pos >= TotalSize, TotalSize' = b.pos + b.size,
         \E i \in DOMAIN bufs' : HeldIn(b, bufs'[i]),
         \A k \in DOMAIN live : live[k].size > 0 =>
            \E i \in DOMAIN bufs' : HeldIn(live[k], bufs'[i])
  PROVE  ClientInv'
<1>1. /\ live \in Seq(Blocks) /\ marks \in Seq(Marks)
      /\ Len(live) \in Nat /\ DOMAIN live = 1 .. Len(live)
  BY DEF IInv, TypeOK
<1>2. /\ Len(live') = Len(live) + 1
      /\ DOMAIN live' = 1 .. Len(live) + 1
      /\ \A k \in 1 .. Len(live) : live'[k] = live[k]
      /\ live'[Len(live) + 1] = b
  BY <1>1, AppendFacts
<1>3. TotalSize \in Nat /\ Limit = TotalSize /\ Limit' = TotalSize'
  BY HeadFacts DEF Active, Limit
<1>4. /\ b.pos \in Nat /\ b.size \in Nat
      /\ \A k \in DOMAIN live : live[k].pos \in Nat /\ live[k].size \in Nat
      /\ \A m \in DOMAIN marks : marks[m].tok \in Nat /\ marks[m].n \in Nat
  BY ClientTyped DEF IInv, Blocks
<1>5. /\ \A k \in DOMAIN live : live[k].pos + live[k].size <= TotalSize
      /\ \A j, k \in DOMAIN live : j < k => live[j].pos + live[j].size <= live[k].pos
      /\ \A m \in DOMAIN marks : marks[m].tok <= TotalSize /\ marks[m].n <= Len(live)
      /\ \A l, m \in DOMAIN marks :
           l < m => marks[l].tok <= marks[m].tok /\ marks[l].n <= marks[m].n
      /\ \A m \in DOMAIN marks : \A k \in DOMAIN live :
           IF k <= marks[m].n THEN live[k].pos + live[k].size <= marks[m].tok
                              ELSE live[k].pos >= marks[m].tok
  BY <1>3 DEF IInv, ClientInv, MarksSeparate
<1>6. \A k \in DOMAIN live' :
        /\ live'[k].pos + live'[k].size <= Limit'
        /\ live'[k].size > 0 => \E i \in DOMAIN bufs' : HeldIn(live'[k], bufs'[i])
  <2> SUFFICES ASSUME NEW k \in DOMAIN live'
               PROVE  /\ live'[k].pos + live'[k].size <= Limit'
                      /\ live'[k].size > 0 =>
                           \E i \in DOMAIN bufs' : HeldIn(live'[k], bufs'[i])
    OBVIOUS
  <2>1. CASE k \in 1 .. Len(live)
    <3>1. k \in DOMAIN live /\ live'[k] = live[k]
      BY <1>1, <1>2, <2>1
    <3>2. /\ live[k].pos \in Nat /\ live[k].size \in Nat
          /\ live[k].pos + live[k].size <= TotalSize
      BY <1>4, <1>5, <3>1
    <3>3. TotalSize <= b.pos + b.size
      BY <1>3, <1>4
    <3>4. live[k].pos + live[k].size <= b.pos + b.size
      BY <1>3, <1>4, <3>2, <3>3
    <3> QED
      BY <1>3, <3>1, <3>4
  <2>2. CASE k = Len(live) + 1
    BY <2>2, <1>2, <1>3, <1>4
  <2> QED
    BY <1>1, <1>2, <2>1, <2>2
<1>7. \A j, k \in DOMAIN live' :
        j < k => live'[j].pos + live'[j].size <= live'[k].pos
  BY <1>1, <1>2, <1>3, <1>4, <1>5
<1>8. \A m \in DOMAIN marks' : marks'[m].tok <= Limit' /\ marks'[m].n <= Len(live')
  BY <1>1, <1>2, <1>3, <1>4, <1>5
<1>9. ASSUME NEW m \in DOMAIN marks', NEW k \in DOMAIN live'
      PROVE  IF k <= marks'[m].n THEN live'[k].pos + live'[k].size <= marks'[m].tok
                                 ELSE live'[k].pos >= marks'[m].tok
  <2>1. /\ m \in DOMAIN marks /\ marks'[m] = marks[m]
        /\ marks[m].n \in Nat /\ marks[m].tok \in Nat
        /\ marks[m].n <= Len(live) /\ marks[m].tok <= TotalSize
    BY <1>4, <1>5
  <2>2. CASE k \in DOMAIN live
    BY <1>1, <1>2, <1>5, <2>1, <2>2
  <2>3. CASE k = Len(live) + 1
    <3>1. ~(k <= marks[m].n)
      BY <1>1, <2>1, <2>3
    <3>2. b.pos >= marks[m].tok
      BY <1>3, <1>4, <2>1
    <3> QED
      BY <1>2, <2>1, <2>3, <3>1, <3>2
  <2> QED
    BY <1>1, <1>2, <2>2, <2>3
<1> QED
  BY <1>5, <1>6, <1>7, <1>8, <1>9 DEF ClientInv, MarksSeparate, Active

-----------------------------------------------------------------------------
(* Every action preserves the inductive invariant. *)

\* What an invariant state knows of each buffer of a chain in use.
LEMMA ChainFacts ==
  ASSUME IInv
  PROVE  \A i \in DOMAIN bufs :
           /\ bufs[i].id \in BufIds /\ bufs[i].base \in Nat
           /\ bufs[i].size \in Nat /\ bufs[i].below \in Nat
           /\ bufs[i].alloc_sz \in Nat /\ bufs[i].bytes \in Nat
<1>1. \A i \in DOMAIN bufs : bufs[i] \in Buffers
  BY DEF IInv, TypeOK
<1> QED
  BY <1>1 DEF Buffers

\* Changing how much of the head is used keeps the chain in order.
LEMMA ResizeKeepsChain ==
  ASSUME IInv, Active, Active', NEW x \in Nat, x <= head.alloc_sz,
         bufs' = WithUsed(bufs, x),
         UNCHANGED <<pre_head_size, heap, default_align>>
  PROVE  /\ ChainInv' /\ bufs' \in Seq(Buffers) /\ bufs' # <<>>
         /\ Len(bufs') = Len(bufs) /\ DOMAIN bufs' = DOMAIN bufs
         /\ TotalSize' = head.below + x
         /\ \A i \in DOMAIN bufs :
              /\ bufs'[i].id = bufs[i].id /\ bufs'[i].base = bufs[i].base
              /\ bufs'[i].below = bufs[i].below
              /\ bufs'[i].size = IF i = Len(bufs) THEN x ELSE bufs[i].size
<1>1. /\ bufs # <<>> /\ bufs \in Seq(Buffers) /\ Len(bufs) \in Nat \ {0}
      /\ DOMAIN bufs = 1 .. Len(bufs) /\ Len(bufs) \in DOMAIN bufs
  BY HeadFacts
<1>2. /\ bufs' \in Seq(Buffers)
      /\ Len(bufs') = Len(bufs) /\ DOMAIN bufs' = DOMAIN bufs
      /\ \A i \in DOMAIN bufs :
           /\ bufs'[i].id = bufs[i].id /\ bufs'[i].base = bufs[i].base
           /\ bufs'[i].alloc_sz = bufs[i].alloc_sz
           /\ bufs'[i].bytes = bufs[i].bytes
           /\ bufs'[i].below = bufs[i].below
           /\ bufs'[i].size = IF i = Len(bufs) THEN x ELSE bufs[i].size
  BY <1>1, ResizeLast
<1>3. bufs' # <<>>
  BY <1>1, <1>2
<1>4. \A i \in DOMAIN bufs : bufs[i].below \in Nat /\ bufs[i].size \in Nat
  BY ChainFacts
<1>5. /\ \A i \in DOMAIN bufs' :
           /\ bufs'[i].id \in heap'
           /\ bufs'[i].size <= bufs'[i].alloc_sz
           /\ bufs'[i].bytes = HDR + bufs'[i].alloc_sz
           /\ bufs'[i].below + bufs'[i].bytes <= MaxHeap
      /\ \A i, j \in DOMAIN bufs' : i # j => bufs'[i].id # bufs'[j].id
  <2>1. \A i \in DOMAIN bufs :
          /\ bufs[i].id \in heap
          /\ bufs[i].size <= bufs[i].alloc_sz
          /\ bufs[i].bytes = HDR + bufs[i].alloc_sz
          /\ bufs[i].below + bufs[i].bytes <= MaxHeap
    BY DEF IInv, ChainInv
  <2>2. \A i, j \in DOMAIN bufs : i # j => bufs[i].id # bufs[j].id
    BY DEF IInv, ChainInv
  <2>3. x <= bufs[Len(bufs)].alloc_sz
    BY DEF head
  <2>4. \A i, j \in DOMAIN bufs' : i # j => bufs'[i].id # bufs'[j].id
    BY <1>2, <2>2
  <2> QED
    BY <1>1, <1>2, <2>1, <2>3, <2>4
<1>6. \A i, j \in DOMAIN bufs' :
        i < j => bufs'[i].below + bufs'[i].size <= bufs'[j].below
  BY <1>1, <1>2 DEF IInv, ChainInv
<1>7. /\ bufs'[1].below = 0
      /\ \A i \in 1 .. Len(bufs') - 1 :
           bufs'[i].below + bufs'[i].size = bufs'[i + 1].below
  <2>1. /\ bufs[1].below = 0
        /\ \A i \in 1 .. Len(bufs) - 1 :
             bufs[i].below + bufs[i].size = bufs[i + 1].below
    BY DEF IInv, ChainInv
  <2>2. 1 \in DOMAIN bufs
    BY <1>1
  <2>3. ASSUME NEW i \in 1 .. Len(bufs) - 1
        PROVE  bufs'[i].below + bufs'[i].size = bufs'[i + 1].below
    <3>1. i \in DOMAIN bufs /\ i + 1 \in DOMAIN bufs /\ i # Len(bufs)
      BY <1>1, NextPlace
    <3> QED
      BY <1>2, <2>1, <3>1
  <2> QED
    BY <1>2, <2>1, <2>2, <2>3
<1>8. /\ pre_head_size' = head'.below
      /\ default_align' \in DefaultAligns \cup {FallbackAlign}
  BY <1>1, <1>2 DEF IInv, ChainInv, head
<1>9. TotalSize' = head.below + x
  BY <1>1, <1>2, <1>8 DEF TotalSize, head
<1> QED
  BY <1>2, <1>3, <1>5, <1>6, <1>7, <1>8, <1>9 DEF ChainInv, Active

LEMMA AllocFromHeadStep ==
  ASSUME IInv, Representable, NEW sz \in Sizes, NEW a \in Aligns,
         AllocFromHead(sz, a)
  PROVE  IInv' /\ TotalSize' = EndOf(Len(live))'
<1> DEFINE start == Start(head, EffAlign(a))
           b == Block(head, start, sz, EffAlign(a))
<1>1. pc = "idle" /\ pc' = "idle" /\ Active /\ Active'
  BY DEF AllocFromHead, Calling, Active
<1>2. /\ start \in Nat /\ head.size <= start
      /\ Wrap(start) = start /\ Wrap(start + sz) = start + sz
  BY <1>1, StartFacts
<1>3. /\ head.base \in Nat /\ head.below \in Nat /\ head.size \in Nat
      /\ head.id \in BufIds /\ head.alloc_sz \in Nat /\ sz \in Nat
      /\ TotalSize = head.below + head.size
      /\ Len(bufs) \in DOMAIN bufs
  BY <1>1, HeadFacts, ConstantsOK DEF Buffers
<1>4. EffAlign(a) \in Nat \ {0}
  BY <1>1, EffAlignFacts DEF IInv, TypeOK, ChainInv, Active
<1>5. /\ start + sz <= head.alloc_sz
      /\ bufs' = WithUsed(bufs, start + sz)
      /\ live' = Append(live, b) /\ marks' = marks /\ ret' = "block"
      /\ UNCHANGED <<pre_head_size, heap, max_grow, default_align,
                     s, total_size, deallocate>>
  <2>1. ~(start + sz > head.alloc_sz)
    BY <1>2 DEF AllocFromHead, NeedsBuffer
  <2> QED
    BY <1>2, <1>3, <2>1 DEF AllocFromHead, conf_vars, local_vars
<1>6. /\ b \in Blocks /\ b.seg = head.id /\ b.off = start /\ b.size = sz
      /\ b.addr = head.base + start /\ b.pos = head.below + start
  <2>1. /\ start \in Nat /\ EffAlign(a) \in Nat \ {0} /\ sz \in Nat
        /\ head.id \in BufIds /\ head.base \in Nat /\ head.below \in Nat
    BY <1>2, <1>3, <1>4
  <2>2. head.base + start \in Nat /\ head.below + start \in Nat
    BY <2>1
  <2>3. b = [seg |-> head.id, off |-> start, size |-> sz, align |-> EffAlign(a),
             addr |-> head.base + start, pos |-> head.below + start]
    BY DEF Block
  <2> HIDE DEF start, b
  <2>4. b \in Blocks
    BY <2>1, <2>2, <2>3, BlockTyped
  <2> QED
    BY <2>3, <2>4
<1> HIDE DEF start, b
<1>7. /\ ChainInv' /\ bufs' \in Seq(Buffers) /\ bufs' # <<>>
      /\ Len(bufs') = Len(bufs) /\ DOMAIN bufs' = DOMAIN bufs
      /\ TotalSize' = head.below + (start + sz)
      /\ \A i \in DOMAIN bufs :
           /\ bufs'[i].id = bufs[i].id /\ bufs'[i].base = bufs[i].base
           /\ bufs'[i].below = bufs[i].below
           /\ bufs'[i].size = IF i = Len(bufs) THEN start + sz ELSE bufs[i].size
  BY <1>1, <1>2, <1>3, <1>5, ResizeKeepsChain
<1>8. HeldIn(b, bufs'[Len(bufs)])
  <2>1. /\ bufs'[Len(bufs)].id = head.id /\ bufs'[Len(bufs)].base = head.base
        /\ bufs'[Len(bufs)].below = head.below
        /\ bufs'[Len(bufs)].size = start + sz
    BY <1>3, <1>7 DEF head
  <2>2. b.off + b.size <= start + sz
    BY <1>2, <1>3, <1>6
  <2> QED
    BY <1>6, <2>1, <2>2 DEF HeldIn
<1>9. \A k \in DOMAIN live : live[k].size > 0 =>
        \E i \in DOMAIN bufs' : HeldIn(live[k], bufs'[i])
  <2> SUFFICES ASSUME NEW k \in DOMAIN live, live[k].size > 0
               PROVE  \E i \in DOMAIN bufs' : HeldIn(live[k], bufs'[i])
    OBVIOUS
  <2>1. PICK i \in DOMAIN bufs : HeldIn(live[k], bufs[i])
    BY DEF IInv, ClientInv
  <2>2. live[k].off \in Nat /\ live[k].size \in Nat /\ bufs[i].size \in Nat
    BY ClientTyped, ChainFacts DEF IInv
  <2>3. bufs[i].size <= bufs'[i].size
    <3>1. bufs'[i].size = IF i = Len(bufs) THEN start + sz ELSE bufs[i].size
      BY <1>7
    <3>2. head.size <= start + sz
      BY <1>2, <1>3
    <3> QED
      BY <2>2, <3>1, <3>2 DEF head
  <2>4. bufs'[i].size \in Nat
    <3>1. start + sz \in Nat
      BY <1>2, <1>3
    <3> QED
      BY <1>7, <2>2, <3>1
  <2>5. live[k].off + live[k].size <= bufs[i].size
    BY <2>1 DEF HeldIn
  <2>6. live[k].off + live[k].size <= bufs'[i].size
    BY <2>2, <2>3, <2>4, <2>5
  <2>7. HeldIn(live[k], bufs'[i])
    BY <1>7, <2>1, <2>6 DEF HeldIn
  <2> QED
    BY <2>7, <1>7
<1>10. ClientInv'
  <2>1. b.pos >= TotalSize /\ TotalSize' = b.pos + b.size
    BY <1>2, <1>3, <1>6, <1>7
  <2> QED
    BY <1>1, <1>3, <1>5, <1>6, <1>7, <1>8, <1>9, <2>1, GrantKeepsClient
<1>11. TypeOK'
  <2>1. live' \in Seq(Blocks)
    BY <1>5, <1>6, AppendFacts DEF IInv, TypeOK
  <2> QED
    BY <1>1, <1>5, <1>7, <2>1 DEF IInv, TypeOK
<1>12. TotalSize' = EndOf(Len(live))'
  <2>1. TotalSize' = b.pos + b.size
    BY <1>2, <1>3, <1>6, <1>7
  <2>2. Len(live') = Len(live) + 1 /\ Len(live) \in Nat /\ live'[Len(live) + 1] = b
    BY <1>5, <1>6, AppendFacts DEF IInv, TypeOK
  <2> QED
    BY <2>1, <2>2 DEF EndOf
<1> QED
  BY <1>1, <1>7, <1>10, <1>11, <1>12 DEF IInv, RestoreInv

LEMMA AllocGrowStep ==
  ASSUME IInv, Representable, NEW sz \in Sizes, NEW a \in Aligns,
         NEW id \in BufIds, NEW base \in Bases, AllocGrow(sz, a, id, base)
  PROVE  IInv' /\ TotalSize' = EndOf(Len(live))'
<1> DEFINE align == EffAlign(a)
           room == ActualAlloc(sz, align)
           start == AlignOffset(base, align)
           old == Buf(id, base, room, TotalSize)
           nb == [id |-> id, base |-> base, alloc_sz |-> room,
                  size |-> start + sz, bytes |-> HDR + room, below |-> TotalSize]
           b == Block(old, start, sz, align)
<1>1. pc = "idle" /\ pc' = "idle" /\ Active /\ Active'
  BY DEF AllocGrow, Calling, Active, local_vars
<1>2. /\ room \in Nat /\ Wrap(HDR + room) = HDR + room
      /\ start \in Nat /\ start + sz <= room /\ Wrap(start + sz) = start + sz
  BY <1>1, GrowFacts
<1>3. /\ bufs # <<>> /\ bufs \in Seq(Buffers) /\ Len(bufs) \in Nat \ {0}
      /\ DOMAIN bufs = 1 .. Len(bufs) /\ Len(bufs) \in DOMAIN bufs
      /\ TotalSize \in Nat /\ TotalSize = head.below + head.size
      /\ Wrap(TotalSize) = TotalSize
      /\ sz \in Nat /\ base \in Nat /\ HDR \in Nat
  BY <1>1, HeadFacts, TotalFits, ConstantsOK
<1>4. align \in Nat \ {0}
  BY <1>1, EffAlignFacts DEF IInv, TypeOK, ChainInv, Active
<1>5. /\ old = [id |-> id, base |-> base, alloc_sz |-> room, size |-> 0,
                bytes |-> HDR + room, below |-> TotalSize]
      /\ nb = [old EXCEPT !.size = start + sz]
  BY <1>2 DEF Buf
<1>6. /\ bufs' = Append(bufs, nb) /\ heap' = heap \cup {id}
      /\ pre_head_size' = TotalSize
      /\ live' = Append(live, b) /\ marks' = marks /\ ret' = "block"
      /\ UNCHANGED <<max_grow, default_align, s, total_size, deallocate>>
  BY <1>2, <1>3, <1>5 DEF AllocGrow, conf_vars, local_vars, Block
<1>7. id \notin heap /\ TotalSize + (HDR + room) <= MaxHeap
  BY <1>2, <1>3, <1>5 DEF AllocGrow, MallocOK
<1>8. nb \in Buffers
  <2>1. start + sz \in Nat /\ HDR + room \in Nat
    BY <1>2, <1>3
  <2> HIDE DEF room, start
  <2> QED
    BY <1>2, <1>3, <2>1, BufferTyped
<1>9. /\ b \in Blocks /\ b.seg = id /\ b.off = start /\ b.size = sz
      /\ b.addr = base + start /\ b.pos = TotalSize + start
  <2>1. old.id = id /\ old.base = base /\ old.below = TotalSize
    BY <1>5
  <2>2. start \in Nat /\ align \in Nat \ {0} /\ sz \in Nat
    BY <1>2, <1>3, <1>4
  <2>3. base \in Nat /\ TotalSize \in Nat
    BY <1>3
  <2>4. base + start \in Nat /\ TotalSize + start \in Nat
    BY <2>2, <2>3
  <2> HIDE DEF old, start, align
  <2>5. b = [seg |-> id, off |-> start, size |-> sz, align |-> align,
             addr |-> base + start, pos |-> TotalSize + start]
    BY <2>1 DEF Block
  <2> HIDE DEF b
  <2>6. b \in Blocks
    BY <2>2, <2>3, <2>4, <2>5, BlockTyped
  <2> QED
    BY <2>5, <2>6
<1>10. /\ nb.id = id /\ nb.base = base /\ nb.alloc_sz = room
       /\ nb.size = start + sz /\ nb.bytes = HDR + room /\ nb.below = TotalSize
  OBVIOUS
<1> HIDE DEF align, room, start, old, nb, b
<1>11. /\ bufs' \in Seq(Buffers) /\ Len(bufs') = Len(bufs) + 1
       /\ DOMAIN bufs' = 1 .. Len(bufs) + 1
       /\ \A i \in 1 .. Len(bufs) : bufs'[i] = bufs[i]
       /\ bufs'[Len(bufs) + 1] = nb
  BY <1>3, <1>6, <1>8, AppendFacts
<1>12. head' = nb /\ bufs' # <<>> /\ TotalSize' = TotalSize + (start + sz)
  BY <1>2, <1>3, <1>6, <1>10, <1>11 DEF head, TotalSize
<1>13. ChainInv'
  <2>1. \A i \in DOMAIN bufs : bufs[i].below \in Nat /\ bufs[i].size \in Nat
    BY ChainFacts
  <2>2. \A i \in DOMAIN bufs' :
          /\ bufs'[i].id \in heap'
          /\ bufs'[i].size <= bufs'[i].alloc_sz
          /\ bufs'[i].bytes = HDR + bufs'[i].alloc_sz
          /\ bufs'[i].below + bufs'[i].bytes <= MaxHeap
    <3> SUFFICES ASSUME NEW i \in DOMAIN bufs'
                 PROVE  /\ bufs'[i].id \in heap'
                        /\ bufs'[i].size <= bufs'[i].alloc_sz
                        /\ bufs'[i].bytes = HDR + bufs'[i].alloc_sz
                        /\ bufs'[i].below + bufs'[i].bytes <= MaxHeap
      OBVIOUS
    <3>1. CASE i \in 1 .. Len(bufs)
      BY <3>1, <1>3, <1>6, <1>11 DEF IInv, ChainInv
    <3>2. CASE i = Len(bufs) + 1
      BY <3>2, <1>2, <1>6, <1>7, <1>10, <1>11
    <3> QED
      BY <1>3, <1>11, <3>1, <3>2
  <2>3. \A i, j \in DOMAIN bufs' : i # j => bufs'[i].id # bufs'[j].id
    <3>1. \A i, j \in 1 .. Len(bufs) : i # j => bufs[i].id # bufs[j].id
      BY <1>3 DEF IInv, ChainInv
    <3>2. \A i \in 1 .. Len(bufs) : bufs[i].id # id
      BY <1>3, <1>7 DEF IInv, ChainInv
    <3> QED
      BY <1>3, <1>10, <1>11, <3>1, <3>2
  <2>4. \A i \in 1 .. Len(bufs) : bufs[i].below + bufs[i].size <= TotalSize
    <3>1. \A i \in 1 .. Len(bufs) : i < Len(bufs) =>
            bufs[i].below + bufs[i].size <= bufs[Len(bufs)].below
      BY <1>3 DEF IInv, ChainInv
    <3>2. TotalSize = bufs[Len(bufs)].below + bufs[Len(bufs)].size
      BY <1>3 DEF head
    <3> SUFFICES ASSUME NEW i \in 1 .. Len(bufs)
                 PROVE  bufs[i].below + bufs[i].size <= TotalSize
      OBVIOUS
    <3>3. /\ bufs[i].below \in Nat /\ bufs[i].size \in Nat
          /\ bufs[Len(bufs)].below \in Nat /\ bufs[Len(bufs)].size \in Nat
      BY <1>3, <2>1
    <3>4. CASE i = Len(bufs)
      BY <3>2, <3>3, <3>4
    <3>5. CASE i < Len(bufs)
      <4>1. bufs[i].below + bufs[i].size <= bufs[Len(bufs)].below
        BY <3>1, <3>5
      <4> QED
        BY <3>2, <3>3, <4>1
    <3> QED
      BY <1>3, <3>4, <3>5, LastOrBefore
  <2>5. \A i, j \in DOMAIN bufs' :
          i < j => bufs'[i].below + bufs'[i].size <= bufs'[j].below
    <3>1. \A i, j \in 1 .. Len(bufs) :
            i < j => bufs[i].below + bufs[i].size <= bufs[j].below
      BY <1>3 DEF IInv, ChainInv
    <3> QED
      BY <1>3, <1>10, <1>11, <2>4, <3>1
  <2>6. /\ bufs'[1].below = 0
        /\ \A i \in 1 .. Len(bufs') - 1 :
             bufs'[i].below + bufs'[i].size = bufs'[i + 1].below
    <3>1. /\ bufs[1].below = 0
          /\ \A i \in 1 .. Len(bufs) - 1 :
               bufs[i].below + bufs[i].size = bufs[i + 1].below
      BY <1>1 DEF IInv, ChainInv
    <3>2. bufs[Len(bufs)].below + bufs[Len(bufs)].size = TotalSize
      BY <1>3 DEF head
    <3>3. 1 \in 1 .. Len(bufs) /\ Len(bufs') - 1 = Len(bufs)
      BY <1>3, <1>11
    <3>4. ASSUME NEW i \in 1 .. Len(bufs)
          PROVE  bufs'[i].below + bufs'[i].size = bufs'[i + 1].below
      <4>1. CASE i = Len(bufs)
        <5>1. bufs'[i] = bufs[Len(bufs)] /\ bufs'[i + 1] = nb
          BY <1>11, <4>1
        <5>2. bufs'[i + 1].below = TotalSize
          BY <1>10, <5>1
        <5>3. bufs'[i].below + bufs'[i].size = TotalSize
          BY <3>2, <5>1
        <5> QED
          BY <5>2, <5>3, Zenon
      <4>2. CASE i # Len(bufs)
        <5>1. Len(bufs) \in Nat \ {0}
          BY <1>3
        <5>2. i \in 1 .. Len(bufs) - 1 /\ i + 1 \in 1 .. Len(bufs)
          BY <4>2, <5>1, BeforeLast
        <5> QED
          BY <1>11, <3>1, <5>2
      <4> QED
        BY <4>1, <4>2
    <3> QED
      BY <1>11, <3>1, <3>3, <3>4
  <2>7. /\ pre_head_size' = head'.below
        /\ default_align' \in DefaultAligns \cup {FallbackAlign}
    BY <1>1, <1>6, <1>10, <1>12 DEF IInv, ChainInv
  <2> QED
    BY <1>1, <2>2, <2>3, <2>5, <2>6, <2>7 DEF ChainInv
<1>14. HeldIn(b, bufs'[Len(bufs) + 1])
  BY <1>2, <1>3, <1>9, <1>10, <1>11 DEF HeldIn
<1>15. \A k \in DOMAIN live : live[k].size > 0 =>
         \E i \in DOMAIN bufs' : HeldIn(live[k], bufs'[i])
  <2>1. \A k \in DOMAIN live : live[k].size > 0 =>
          \E i \in 1 .. Len(bufs) : HeldIn(live[k], bufs[i])
    BY <1>3 DEF IInv, ClientInv
  <2> QED
    BY <1>3, <1>11, <2>1
<1>16. ClientInv'
  <2>1. b.pos >= TotalSize /\ TotalSize' = b.pos + b.size
    BY <1>2, <1>3, <1>9, <1>12
  <2>2. Len(bufs) + 1 \in DOMAIN bufs'
    BY <1>3, <1>11
  <2> QED
    BY <1>1, <1>6, <1>9, <1>14, <1>15, <2>1, <2>2, GrantKeepsClient
<1>17. TypeOK'
  <2>1. live' \in Seq(Blocks)
    BY <1>6, <1>9, AppendFacts DEF IInv, TypeOK
  <2> QED
    BY <1>1, <1>3, <1>6, <1>11, <1>12, <2>1 DEF IInv, TypeOK
<1>18. TotalSize' = EndOf(Len(live))'
  <2>1. TotalSize' = b.pos + b.size
    BY <1>2, <1>3, <1>9, <1>12
  <2>2. Len(live') = Len(live) + 1 /\ Len(live) \in Nat /\ live'[Len(live) + 1] = b
    BY <1>6, <1>9, AppendFacts DEF IInv, TypeOK
  <2> QED
    BY <2>1, <2>2 DEF EndOf
<1> QED
  BY <1>1, <1>13, <1>16, <1>17, <1>18 DEF IInv, RestoreInv

LEMMA SaveStep ==
  ASSUME IInv, Representable, Save
  PROVE  IInv'
<1> DEFINE k == [tok |-> TotalSize, n |-> Len(live)]
<1>1. pc = "idle" /\ pc' = "idle" /\ Active /\ Active'
  BY DEF Save, Active, local_vars
<1>2. TotalSize \in Nat /\ Wrap(TotalSize) = TotalSize
  BY <1>1, HeadFacts, TotalFits
<1>3. /\ marks' = Append(marks, k) /\ ret' = "void"
      /\ UNCHANGED <<bufs, pre_head_size, heap, max_grow, default_align,
                     s, total_size, deallocate, live>>
  BY <1>2 DEF Save, alloc_vars, conf_vars, local_vars
<1>4. /\ live \in Seq(Blocks) /\ marks \in Seq(Marks)
      /\ Len(live) \in Nat /\ DOMAIN live = 1 .. Len(live)
      /\ Len(marks) \in Nat /\ DOMAIN marks = 1 .. Len(marks)
  BY DEF IInv, TypeOK
<1>5. k \in Marks /\ k.tok = TotalSize /\ k.n = Len(live)
  BY <1>2, <1>4 DEF Marks
<1> HIDE DEF k
<1>6. /\ marks' \in Seq(Marks) /\ DOMAIN marks' = 1 .. Len(marks) + 1
      /\ \A m \in 1 .. Len(marks) : marks'[m] = marks[m]
      /\ marks'[Len(marks) + 1] = k
  BY <1>3, <1>4, <1>5, AppendFacts
<1>7. /\ \A i \in DOMAIN live : live[i].pos \in Nat /\ live[i].size \in Nat
      /\ \A m \in DOMAIN marks : marks[m].tok \in Nat /\ marks[m].n \in Nat
  BY ClientTyped DEF IInv
<1>8. Limit = TotalSize /\ Limit' = TotalSize
  BY <1>1, <1>3 DEF Limit, TotalSize, head
<1>9. \A m \in DOMAIN marks' : marks'[m].tok <= Limit' /\ marks'[m].n <= Len(live')
  BY <1>2, <1>3, <1>4, <1>5, <1>6, <1>8 DEF IInv, ClientInv
<1>10. \A l, m \in DOMAIN marks' :
         l < m => marks'[l].tok <= marks'[m].tok /\ marks'[l].n <= marks'[m].n
  BY <1>2, <1>4, <1>5, <1>6, <1>8 DEF IInv, ClientInv
<1>11. \A m \in DOMAIN marks' : \A i \in DOMAIN live' :
         IF i <= marks'[m].n THEN live'[i].pos + live'[i].size <= marks'[m].tok
                             ELSE live'[i].pos >= marks'[m].tok
  <2>1. \A m \in 1 .. Len(marks) : \A i \in DOMAIN live :
          IF i <= marks[m].n THEN live[i].pos + live[i].size <= marks[m].tok
                             ELSE live[i].pos >= marks[m].tok
    BY <1>4 DEF IInv, ClientInv, MarksSeparate
  <2>2. \A i \in DOMAIN live : i <= k.n /\ live[i].pos + live[i].size <= k.tok
    BY <1>4, <1>5, <1>8 DEF IInv, ClientInv
  <2> QED
    BY <1>3, <1>4, <1>6, <2>1, <2>2
<1>12. ClientInv'
  BY <1>1, <1>3, <1>8, <1>9, <1>10, <1>11 DEF IInv, ClientInv, MarksSeparate
<1>13. ChainInv'
  BY <1>1, <1>3 DEF IInv, ChainInv, head
<1>14. TypeOK'
  BY <1>1, <1>3, <1>6 DEF IInv, TypeOK
<1> QED
  BY <1>1, <1>12, <1>13, <1>14 DEF IInv, RestoreInv

\* Dropping what was allocated and saved after save number m.
LEMMA RestoreBeginStep ==
  ASSUME IInv, Representable, NEW m \in DOMAIN marks, RestoreBegin(m)
  PROVE  IInv'
<1> DEFINE n == marks[m].n
           tok == marks[m].tok
<1>1. pc = "idle" /\ pc' = "pop" /\ Active /\ Active'
  BY DEF RestoreBegin, Active
<1>2. TotalSize \in Nat /\ Wrap(TotalSize) = TotalSize
  BY <1>1, HeadFacts, TotalFits
<1>3. /\ s' = tok /\ total_size' = TotalSize /\ deallocate' = TotalSize - tok
      /\ live' = SubSeq(live, 1, n) /\ marks' = SubSeq(marks, 1, m)
      /\ ret' = "void"
      /\ UNCHANGED <<bufs, pre_head_size, heap, max_grow, default_align>>
  BY <1>2 DEF RestoreBegin, alloc_vars, conf_vars
<1>4. /\ live \in Seq(Blocks) /\ marks \in Seq(Marks)
      /\ Len(live) \in Nat /\ DOMAIN live = 1 .. Len(live)
      /\ Len(marks) \in Nat /\ DOMAIN marks = 1 .. Len(marks)
  BY DEF IInv, TypeOK
<1>5. /\ \A i \in DOMAIN live : live[i].pos \in Nat /\ live[i].size \in Nat
      /\ \A l \in DOMAIN marks : marks[l].tok \in Nat /\ marks[l].n \in Nat
  BY ClientTyped DEF IInv
<1>6. Limit = TotalSize /\ Limit' = tok
  BY <1>1, <1>3 DEF Limit
<1>7. tok \in Nat /\ n \in 0 .. Len(live) /\ tok <= TotalSize
  BY <1>4, <1>5, <1>6 DEF IInv, ClientInv
<1>8. /\ live' \in Seq(Blocks) /\ Len(live') = n /\ DOMAIN live' = 1 .. n
      /\ \A i \in 1 .. n : live'[i] = live[i]
      /\ marks' \in Seq(Marks) /\ DOMAIN marks' = 1 .. m
      /\ \A l \in 1 .. m : marks'[l] = marks[l]
  <2>1. m \in 0 .. Len(marks)
    BY <1>4
  <2> HIDE DEF n
  <2>2. /\ live' \in Seq(Blocks) /\ Len(live') = n /\ DOMAIN live' = 1 .. n
        /\ \A i \in 1 .. n : live'[i] = live[i]
    BY <1>3, <1>4, <1>7, PrefixFacts
  <2>3. /\ marks' \in Seq(Marks) /\ DOMAIN marks' = 1 .. m
        /\ \A l \in 1 .. m : marks'[l] = marks[l]
    BY <1>3, <1>4, <2>1, PrefixFacts
  <2> QED
    BY <2>2, <2>3
<1>9. /\ \A l \in DOMAIN marks' :
           l \in DOMAIN marks /\ marks'[l] = marks[l]
           /\ marks[l].tok <= tok /\ marks[l].n <= n
      /\ \A i \in DOMAIN live' :
           i \in DOMAIN live /\ live'[i] = live[i]
           /\ live[i].pos + live[i].size <= tok
  <2>1. \A l \in 1 .. m : marks[l].tok <= tok /\ marks[l].n <= n
    <3>1. \A l \in DOMAIN marks :
            l < m => marks[l].tok <= tok /\ marks[l].n <= n
      BY DEF IInv, ClientInv
    <3> QED
      BY <1>4, <1>7, <3>1
  <2>2. \A i \in 1 .. n : i \in DOMAIN live /\ live[i].pos + live[i].size <= tok
    <3>1. \A i \in DOMAIN live :
            IF i <= n THEN live[i].pos + live[i].size <= tok
                      ELSE live[i].pos >= tok
      BY DEF IInv, ClientInv, MarksSeparate
    <3> QED
      BY <1>4, <1>7, <3>1
  <2> QED
    BY <1>4, <1>8, <2>1, <2>2
<1> HIDE DEF n, tok
<1>10. \A i \in DOMAIN live' :
         /\ live'[i].pos + live'[i].size <= Limit'
         /\ live'[i].size > 0 => \E j \in DOMAIN bufs' : HeldIn(live'[i], bufs'[j])
  BY <1>3, <1>6, <1>9 DEF IInv, ClientInv
<1>11. /\ \A i, j \in DOMAIN live' :
            i < j => live'[i].pos + live'[i].size <= live'[j].pos
       /\ \A i, l \in DOMAIN marks' :
            i < l => marks'[i].tok <= marks'[l].tok /\ marks'[i].n <= marks'[l].n
       /\ \A l \in DOMAIN marks' : marks'[l].tok <= Limit' /\ marks'[l].n <= Len(live')
  BY <1>6, <1>8, <1>9 DEF IInv, ClientInv
<1>12. MarksSeparate'
  BY <1>9 DEF IInv, ClientInv, MarksSeparate
<1>13. ClientInv'
  BY <1>1, <1>10, <1>11, <1>12 DEF ClientInv
<1>14. /\ TotalSize' = TotalSize /\ deallocate' \in Nat
       /\ s' + deallocate' = TotalSize' /\ total_size' <= MaxHeap
  <2>1. TotalSize <= MaxHeap
    BY <1>1, HeadFacts, ConstantsOK DEF Buffers
  <2>2. TotalSize' = TotalSize
    BY <1>3 DEF TotalSize, head
  <2>3. MaxHeap \in Nat
    BY ConstantsOK
  <2> QED
    BY <1>2, <1>3, <1>7, <2>1, <2>2, <2>3
<1>15. ChainInv'
  BY <1>1, <1>3 DEF IInv, ChainInv, head, Active
<1>16. TypeOK'
  BY <1>1, <1>2, <1>3, <1>7, <1>8, <1>14 DEF IInv, TypeOK
<1> QED
  BY <1>1, <1>13, <1>14, <1>15, <1>16 DEF IInv, RestoreInv

\* A step that leaves the client alone keeps its side of the invariant when
\* every block stays in a buffer.
LEMMA InternalKeepsClient ==
  ASSUME IInv, Active, Active', UNCHANGED <<live, marks>>, Limit' = Limit,
         \A k \in DOMAIN live : live[k].size > 0 =>
            \E i \in DOMAIN bufs' : HeldIn(live[k], bufs'[i])
  PROVE  ClientInv'
BY DEF IInv, ClientInv, MarksSeparate

LEMMA PopBufStep ==
  ASSUME IInv, PopBuf
  PROVE  IInv'
<1>1. pc = "pop" /\ Active /\ deallocate > head.size
  BY DEF PopBuf, Pops, Active
<1>2. /\ bufs # <<>> /\ bufs \in Seq(Buffers) /\ Len(bufs) \in Nat \ {0}
      /\ DOMAIN bufs = 1 .. Len(bufs) /\ Len(bufs) \in DOMAIN bufs
      /\ TotalSize = head.below + head.size
  BY <1>1, HeadFacts
<1>3. /\ \A i \in DOMAIN bufs :
           /\ bufs[i].id \in BufIds /\ bufs[i].size \in Nat
           /\ bufs[i].below \in Nat
      /\ head.size \in Nat /\ head.below \in Nat
  BY <1>2, ChainFacts DEF head
<1>4. s \in Nat /\ deallocate \in Nat /\ s + deallocate = head.below + head.size
  BY <1>1, <1>2 DEF IInv, TypeOK, RestoreInv
<1>5. head.below > s
  BY <1>1, <1>3, <1>4
<1>6. Len(bufs) # 1
  <2>1. bufs[1].below = 0
    BY <1>1 DEF IInv, ChainInv
  <2> QED
    BY <1>4, <1>5, <2>1 DEF head
<1> DEFINE n == Len(bufs) - 1
<1>7. n \in Nat \ {0} /\ n < Len(bufs) /\ n \in DOMAIN bufs
  BY <1>2, <1>6
<1>8. /\ bufs' = Front(bufs) /\ deallocate' = deallocate - head.size
      /\ heap' = heap \ {head.id} /\ pc' = "pop"
      /\ pre_head_size' = pre_head_size - bufs[n].size
      /\ UNCHANGED <<max_grow, default_align, s, total_size, live, marks, ret>>
  BY <1>1, <1>6 DEF PopBuf, conf_vars, client_vars
<1>9. /\ bufs' \in Seq(Buffers) /\ Len(bufs') = n /\ DOMAIN bufs' = 1 .. n
      /\ \A i \in 1 .. n : bufs'[i] = bufs[i]
      /\ bufs' # <<>>
  BY <1>2, <1>7, <1>8, FrontFacts
<1>10. /\ pre_head_size = bufs[n].below + bufs[n].size
       /\ pre_head_size = head.below
  <2>1. pre_head_size = head.below
    BY <1>1 DEF IInv, ChainInv
  <2>2. bufs[n].below + bufs[n].size = bufs[n + 1].below
    BY <1>1, <1>2, <1>7 DEF IInv, ChainInv
  <2> QED
    BY <1>2, <2>1, <2>2 DEF head
<1>11. /\ head' = bufs[n] /\ pre_head_size' = bufs[n].below
       /\ TotalSize' = head.below
  <2>1. head' = bufs[n]
    BY <1>7, <1>9 DEF head
  <2>2. pre_head_size' = bufs[n].below
    BY <1>3, <1>7, <1>8, <1>10
  <2> QED
    BY <1>10, <2>1, <2>2 DEF TotalSize
<1> HIDE DEF n
<1>12. deallocate' \in Nat /\ s' + deallocate' = TotalSize'
  BY <1>1, <1>3, <1>4, <1>8, <1>11
<1>13. ChainInv'
  <2>1. \A i \in 1 .. n : bufs[i].id # head.id /\ bufs[i].id \in heap
    <3>1. \A i, j \in DOMAIN bufs : i # j => bufs[i].id # bufs[j].id
      BY DEF IInv, ChainInv
    <3>2. \A i \in DOMAIN bufs : bufs[i].id \in heap
      BY DEF IInv, ChainInv
    <3> QED
      BY <1>2, <1>7, <3>1, <3>2 DEF head
  <2>2. \A i \in DOMAIN bufs' :
          /\ bufs'[i].id \in heap'
          /\ bufs'[i].size <= bufs'[i].alloc_sz
          /\ bufs'[i].bytes = HDR + bufs'[i].alloc_sz
          /\ bufs'[i].below + bufs'[i].bytes <= MaxHeap
    BY <1>2, <1>7, <1>8, <1>9, <2>1 DEF IInv, ChainInv
  <2>3. /\ \A i, j \in DOMAIN bufs' : i # j => bufs'[i].id # bufs'[j].id
        /\ \A i, j \in DOMAIN bufs' :
             i < j => bufs'[i].below + bufs'[i].size <= bufs'[j].below
    BY <1>2, <1>7, <1>9 DEF IInv, ChainInv
  <2>4. /\ bufs'[1].below = 0
        /\ \A i \in 1 .. Len(bufs') - 1 :
             bufs'[i].below + bufs'[i].size = bufs'[i + 1].below
    <3>1. /\ bufs[1].below = 0
          /\ \A i \in 1 .. Len(bufs) - 1 :
               bufs[i].below + bufs[i].size = bufs[i + 1].below
      BY <1>1 DEF IInv, ChainInv
    <3> QED
      BY <1>2, <1>7, <1>9, <3>1
  <2>5. default_align' \in DefaultAligns \cup {FallbackAlign}
    BY <1>1, <1>8 DEF IInv, ChainInv
  <2> QED
    BY <1>8, <1>11, <2>2, <2>3, <2>4, <2>5 DEF ChainInv
<1>14. \A k \in DOMAIN live : live[k].size > 0 =>
         \E i \in DOMAIN bufs' : HeldIn(live[k], bufs'[i])
  <2> SUFFICES ASSUME NEW k \in DOMAIN live, live[k].size > 0
               PROVE  \E i \in DOMAIN bufs' : HeldIn(live[k], bufs'[i])
    OBVIOUS
  <2>1. PICK i \in DOMAIN bufs : HeldIn(live[k], bufs[i])
    BY DEF IInv, ClientInv
  <2>2. /\ live[k].pos \in Nat /\ live[k].size \in Nat /\ live[k].off \in Nat
        /\ live[k].pos + live[k].size <= s
    BY <1>1, ClientTyped DEF IInv, ClientInv, Limit
  <2>3. i # Len(bufs)
    <3>1. live[k].pos = bufs[i].below + live[k].off /\ bufs[i].below \in Nat
      BY <1>3, <2>1 DEF HeldIn
    <3>2. bufs[i].below <= s
      BY <1>4, <2>2, <3>1
    <3> QED
      BY <1>3, <1>4, <1>5, <3>1, <3>2 DEF head
  <2>4. i \in 1 .. n
    BY <1>2, <2>3 DEF n
  <2> QED
    BY <1>9, <2>1, <2>4
<1>15. ClientInv'
  <2>1. Active' /\ Limit' = Limit
    BY <1>1, <1>8 DEF Active, Limit
  <2> QED
    BY <1>1, <1>8, <1>14, <2>1, InternalKeepsClient
<1>16. TypeOK'
  BY <1>1, <1>3, <1>7, <1>8, <1>9, <1>11, <1>12 DEF IInv, TypeOK
<1>17. RestoreInv'
  BY <1>1, <1>8, <1>12 DEF IInv, RestoreInv
<1> QED
  BY <1>13, <1>15, <1>16, <1>17 DEF IInv

LEMMA TrimStep ==
  ASSUME IInv, Trim
  PROVE  IInv'
<1> DEFINE x == head.size - deallocate
<1>1. /\ pc = "pop" /\ Active /\ pc' = "compact" /\ Active'
      /\ ~(deallocate > head.size)
  BY DEF Trim, Pops, Active
<1>2. /\ bufs' = WithUsed(bufs, x)
      /\ UNCHANGED <<pre_head_size, heap, max_grow, default_align, s,
                     total_size, deallocate, live, marks, ret>>
  BY DEF Trim, conf_vars, local_vars, client_vars
<1>3. /\ Len(bufs) \in DOMAIN bufs /\ TotalSize = head.below + head.size
      /\ head.size \in Nat /\ head.below \in Nat /\ head.alloc_sz \in Nat
      /\ head.size <= head.alloc_sz
  BY <1>1, HeadFacts DEF Buffers
<1>4. s \in Nat /\ deallocate \in Nat /\ s + deallocate = head.below + head.size
  BY <1>1, <1>3 DEF IInv, TypeOK, RestoreInv
<1>5. x \in Nat /\ x <= head.alloc_sz /\ head.below + x = s
  <2>1. /\ head.size \in Nat /\ head.below \in Nat /\ head.alloc_sz \in Nat
        /\ s \in Nat /\ deallocate \in Nat
    BY <1>3, <1>4
  <2>2. /\ head.size <= head.alloc_sz /\ ~(deallocate > head.size)
        /\ s + deallocate = head.below + head.size
    BY <1>1, <1>3, <1>4
  <2> QED
    BY <2>1, <2>2
<1> HIDE DEF x
<1>6. /\ ChainInv' /\ bufs' \in Seq(Buffers) /\ bufs' # <<>>
      /\ DOMAIN bufs' = DOMAIN bufs
      /\ TotalSize' = s
      /\ \A i \in DOMAIN bufs :
           /\ bufs'[i].id = bufs[i].id /\ bufs'[i].base = bufs[i].base
           /\ bufs'[i].below = bufs[i].below
           /\ bufs'[i].size = IF i = Len(bufs) THEN x ELSE bufs[i].size
  <2>1. UNCHANGED <<pre_head_size, heap, default_align>>
    BY <1>2
  <2>2. bufs' = WithUsed(bufs, x)
    BY <1>2
  <2>3. TotalSize' = s
    BY <1>1, <1>5, <2>1, <2>2, ResizeKeepsChain
  <2> QED
    BY <1>1, <1>5, <2>1, <2>2, <2>3, ResizeKeepsChain
<1>7. \A k \in DOMAIN live : live[k].size > 0 =>
        \E i \in DOMAIN bufs' : HeldIn(live[k], bufs'[i])
  <2> SUFFICES ASSUME NEW k \in DOMAIN live, live[k].size > 0
               PROVE  \E i \in DOMAIN bufs' : HeldIn(live[k], bufs'[i])
    OBVIOUS
  <2>1. PICK i \in DOMAIN bufs : HeldIn(live[k], bufs[i])
    BY DEF IInv, ClientInv
  <2>2. /\ live[k].pos \in Nat /\ live[k].size \in Nat /\ live[k].off \in Nat
        /\ live[k].pos + live[k].size <= s
    BY <1>1, ClientTyped DEF IInv, ClientInv, Limit
  <2>3. /\ live[k].pos = bufs[i].below + live[k].off
        /\ live[k].off + live[k].size <= bufs[i].size /\ bufs[i].below \in Nat
    BY <2>1, ChainFacts DEF HeldIn
  <2>4. live[k].off + live[k].size <= bufs'[i].size
    <3>1. CASE i = Len(bufs)
      <4>1. bufs[i].below + x = s /\ bufs'[i].size = x
        BY <1>5, <1>6, <3>1 DEF head
      <4> QED
        BY <1>4, <1>5, <2>2, <2>3, <4>1
    <3>2. CASE i # Len(bufs)
      BY <1>6, <2>3, <3>2
    <3> QED
      BY <3>1, <3>2
  <2>5. HeldIn(live[k], bufs'[i])
    BY <1>6, <2>1, <2>4 DEF HeldIn
  <2> QED
    BY <1>6, <2>5
<1>8. ClientInv'
  <2>1. Limit' = Limit
    BY <1>1, <1>2 DEF Limit
  <2> QED
    BY <1>1, <1>2, <1>7, <2>1, InternalKeepsClient
<1>9. TypeOK'
  BY <1>1, <1>2, <1>6 DEF IInv, TypeOK
<1> QED
  BY <1>1, <1>2, <1>6, <1>8, <1>9 DEF IInv, RestoreInv

LEMMA CompactReplaceStep ==
  ASSUME IInv, Representable, NEW id \in BufIds, NEW base \in Bases,
         CompactReplace(id, base)
  PROVE  IInv'
<1> DEFINE nb == [id |-> id, base |-> base, alloc_sz |-> total_size, size |-> 0,
                  bytes |-> HDR + total_size, below |-> 0]
<1>1. /\ pc = "compact" /\ Active /\ pc' = "idle" /\ Active'
      /\ pre_head_size = 0 /\ head.size = 0
  BY DEF CompactReplace, Compactable, Return, Active
<1>2. TotalSize = 0 /\ s = 0
  BY <1>1 DEF TotalSize, IInv, RestoreInv
<1>3. /\ total_size \in Nat /\ HDR \in Nat /\ MaxHeap \in Nat /\ base \in Nat
      /\ SIZE_MAX \in Nat /\ total_size <= MaxHeap
  BY <1>1, ConstantsOK, SizeMaxOK DEF IInv, TypeOK, RestoreInv
<1>4. Wrap(HDR + total_size) = HDR + total_size
  <2>1. HDR + total_size \in Nat /\ HDR + total_size <= SIZE_MAX
    BY <1>3 DEF Representable
  <2> QED
    BY <2>1, WrapExact
<1>5. Buf(id, base, total_size, 0) = nb
  BY <1>4 DEF Buf
<1>6. nb \in Buffers
  BY <1>3 DEF Buffers
<1>7. /\ nb.id = id /\ nb.size = 0 /\ nb.alloc_sz = total_size
      /\ nb.bytes = HDR + total_size /\ nb.below = 0
  OBVIOUS
<1>8. /\ bufs' = <<nb>> /\ heap' = (heap \cup {id}) \ {head.id}
      /\ s' = 0 /\ total_size' = 0 /\ deallocate' = 0
      /\ UNCHANGED <<pre_head_size, max_grow, default_align, live, marks, ret>>
  BY <1>5 DEF CompactReplace, Return, conf_vars, client_vars
<1>9. id \notin heap /\ HDR + total_size <= MaxHeap
  <2>1. bufs # <<>>
    BY <1>1, HeadFacts
  <2> QED
    BY <1>2, <1>3, <1>5, <1>7, <2>1 DEF CompactReplace, MallocOK
<1>10. head.id \in heap
  BY <1>1, HeadFacts DEF IInv, ChainInv, head
<1> HIDE DEF nb
<1>11. /\ bufs' \in Seq(Buffers) /\ bufs' # <<>> /\ Len(bufs') = 1
       /\ DOMAIN bufs' = {1} /\ bufs'[1] = nb
  BY <1>6, <1>8
<1>12. head' = nb /\ TotalSize' = 0
  BY <1>1, <1>7, <1>8, <1>11 DEF head, TotalSize
<1>13. ChainInv'
  <2>1. nb.id \in heap'
    BY <1>7, <1>8, <1>9, <1>10
  <2>2. default_align' \in DefaultAligns \cup {FallbackAlign}
    BY <1>1, <1>8 DEF IInv, ChainInv
  <2>3. \A i \in 1 .. Len(bufs') - 1 : FALSE
    BY <1>11
  <2> QED
    BY <1>1, <1>3, <1>7, <1>8, <1>9, <1>11, <1>12, <2>1, <2>2, <2>3
       DEF ChainInv
<1>14. \A k \in DOMAIN live : live[k].size > 0 =>
         \E i \in DOMAIN bufs' : HeldIn(live[k], bufs'[i])
  <2>1. \A k \in DOMAIN live : /\ live[k].pos \in Nat /\ live[k].size \in Nat
                               /\ live[k].pos + live[k].size <= 0
    BY <1>1, <1>2, ClientTyped DEF IInv, ClientInv, Limit
  <2> QED
    BY <2>1
<1>15. ClientInv'
  <2>1. Limit' = Limit
    BY <1>1, <1>2, <1>12 DEF Limit
  <2> QED
    BY <1>1, <1>8, <1>14, <2>1, InternalKeepsClient
<1>16. TypeOK'
  <2>1. heap' \subseteq BufIds
    BY <1>8 DEF IInv, TypeOK
  <2> QED
    BY <1>1, <1>8, <1>11, <2>1 DEF IInv, TypeOK
<1> QED
  BY <1>1, <1>13, <1>15, <1>16 DEF IInv, RestoreInv

\* The two ways restore ends without replacing the head.
LEMMA CompactKeepStep ==
  ASSUME IInv, CompactSkip \/ CompactFail
  PROVE  IInv'
<1>1. /\ pc = "compact" /\ Active /\ pc' = "idle" /\ Active'
      /\ s' = 0 /\ total_size' = 0 /\ deallocate' = 0
      /\ UNCHANGED <<bufs, pre_head_size, heap, max_grow, default_align,
                     live, marks, ret>>
  BY DEF CompactSkip, CompactFail, Return, Active, alloc_vars, conf_vars,
         client_vars
<1>2. TotalSize' = TotalSize /\ s = TotalSize
  BY <1>1 DEF TotalSize, head, IInv, RestoreInv
<1>3. ChainInv'
  BY <1>1 DEF IInv, ChainInv, head, Active
<1>4. ClientInv'
  <2>1. Limit' = Limit
    BY <1>1, <1>2 DEF Limit
  <2>2. \A k \in DOMAIN live : live[k].size > 0 =>
          \E i \in DOMAIN bufs' : HeldIn(live[k], bufs'[i])
    BY <1>1 DEF IInv, ClientInv
  <2> QED
    BY <1>1, <2>1, <2>2, InternalKeepsClient
<1>5. TypeOK'
  BY <1>1 DEF IInv, TypeOK
<1> QED
  BY <1>1, <1>3, <1>4, <1>5 DEF IInv, RestoreInv

LEMMA FreeBeginStep ==
  ASSUME IInv, FreeBegin
  PROVE  IInv'
<1>1. /\ pc = "idle" /\ pc' = "free" /\ ~Active'
      /\ live' = <<>> /\ marks' = <<>> /\ ret' = "void"
      /\ UNCHANGED <<bufs, pre_head_size, heap, max_grow, default_align,
                     s, total_size, deallocate>>
  BY DEF FreeBegin, Active, alloc_vars, conf_vars, local_vars
<1>2. ChainInv'
  BY <1>1 DEF IInv, ChainInv
<1>3. ClientInv'
  BY <1>1 DEF ClientInv, MarksSeparate
<1>4. TypeOK'
  BY <1>1 DEF IInv, TypeOK
<1> QED
  BY <1>1, <1>2, <1>3, <1>4 DEF IInv, RestoreInv

LEMMA FreeBufStep ==
  ASSUME IInv, FreeBuf
  PROVE  IInv'
<1>1. /\ pc = "free" /\ pc' = "free" /\ ~Active /\ ~Active' /\ bufs # <<>>
      /\ bufs' = Front(bufs) /\ heap' = heap \ {head.id}
      /\ UNCHANGED <<pre_head_size, max_grow, default_align, s, total_size,
                     deallocate, live, marks, ret>>
  BY DEF FreeBuf, Active, conf_vars, local_vars, client_vars
<1>2. /\ bufs \in Seq(Buffers) /\ Len(bufs) \in Nat \ {0}
      /\ DOMAIN bufs = 1 .. Len(bufs)
  BY <1>1, LastInDomain DEF IInv, TypeOK
<1>3. /\ bufs' \in Seq(Buffers) /\ DOMAIN bufs' = 1 .. Len(bufs) - 1
      /\ \A i \in 1 .. Len(bufs) - 1 : bufs'[i] = bufs[i]
  BY <1>1, <1>2, FrontFacts
<1>4. \A i \in 1 .. Len(bufs) - 1 : bufs[i].id # head.id /\ bufs[i].id \in heap
  BY <1>2 DEF IInv, ChainInv, head
<1>5. ChainInv'
  BY <1>1, <1>2, <1>3, <1>4 DEF IInv, ChainInv
<1>6. ClientInv'
  BY <1>1 DEF IInv, ClientInv, MarksSeparate
<1>7. TypeOK'
  BY <1>1, <1>3 DEF IInv, TypeOK
<1> QED
  BY <1>1, <1>5, <1>6, <1>7 DEF IInv, RestoreInv

LEMMA FreeDoneStep ==
  ASSUME IInv, FreeDone
  PROVE  IInv'
<1>1. /\ pc = "free" /\ pc' = "none" /\ ~Active /\ ~Active' /\ bufs = <<>>
      /\ UNCHANGED <<bufs, pre_head_size, heap, max_grow, default_align, s,
                     total_size, deallocate, live, marks, ret>>
  BY DEF FreeDone, Active, alloc_vars, conf_vars, local_vars, client_vars
<1>2. ChainInv'
  BY <1>1 DEF IInv, ChainInv
<1>3. ClientInv'
  BY <1>1 DEF IInv, ClientInv, MarksSeparate
<1>4. TypeOK'
  BY <1>1 DEF IInv, TypeOK
<1> QED
  BY <1>1, <1>2, <1>3, <1>4 DEF IInv, RestoreInv

LEMMA GrpInitStep ==
  ASSUME IInv, Representable, NEW id \in BufIds, NEW base \in Bases,
         NEW i \in InitialSizes, NEW g \in MaxGrows, NEW a \in DefaultAligns,
         NEW p \in PageSizes, GrpInit(id, base, i, g, a, p)
  PROVE  IInv'
<1> DEFINE sz == OrElse(OrElse(i, p), FallbackSize)
           b == [id |-> id, base |-> base, alloc_sz |-> sz, size |-> 0,
                 bytes |-> HDR + sz, below |-> 0]
<1>1. /\ pc = "none" /\ pc' = "idle" /\ ~Active /\ Active'
      /\ bufs = <<>> /\ live = <<>> /\ marks = <<>>
  BY DEF GrpInit, Active, IInv, ChainInv, ClientInv
<1>2. /\ sz \in InitialSizes \cup PageSizes \cup {FallbackSize} /\ sz \in Nat
      /\ HDR \in Nat /\ SIZE_MAX \in Nat /\ MaxHeap \in Nat /\ base \in Nat
  BY ConstantsOK, SizeMaxOK DEF OrElse
<1>3. Wrap(HDR + sz) = HDR + sz
  <2>1. HDR + sz \in Nat /\ HDR + sz <= SIZE_MAX
    BY <1>2 DEF Representable
  <2> QED
    BY <2>1, WrapExact
<1>4. Buf(id, base, sz, 0) = b
  BY <1>3 DEF Buf
<1>5. b \in Buffers
  BY <1>2 DEF Buffers
<1>6. /\ b.id = id /\ b.size = 0 /\ b.alloc_sz = sz /\ b.bytes = HDR + sz
      /\ b.below = 0
  OBVIOUS
<1>7. /\ bufs' = <<b>> /\ heap' = heap \cup {id} /\ pre_head_size' = 0
      /\ max_grow' = OrElse(g, Wrap(sz * 2))
      /\ default_align' = OrElse(a, FallbackAlign) /\ ret' = "void"
      /\ UNCHANGED <<s, total_size, deallocate, live, marks>>
  BY <1>4 DEF GrpInit, local_vars
<1>8. HDR + sz <= MaxHeap
  BY <1>1, <1>2, <1>4, <1>6 DEF GrpInit, MallocOK
<1>9. max_grow' \in Nat
  <2>1. g \in Nat /\ sz * 2 \in Nat
    BY <1>2, ConstantsOK
  <2> HIDE DEF sz
  <2>2. Wrap(sz * 2) \in Nat
    BY <1>2, <2>1 DEF Wrap
  <2> QED
    BY <1>7, <2>1, <2>2 DEF OrElse, sz
<1>10. /\ default_align' \in DefaultAligns \cup {FallbackAlign}
       /\ default_align' \in Nat \ {0}
  BY <1>7, ConstantsOK DEF OrElse, PowersOfTwo
<1> HIDE DEF b, sz
<1>11. /\ bufs' \in Seq(Buffers) /\ bufs' # <<>> /\ Len(bufs') = 1
       /\ DOMAIN bufs' = {1} /\ bufs'[1] = b
  BY <1>5, <1>7
<1>12. head' = b /\ TotalSize' = 0
  BY <1>6, <1>7, <1>11 DEF head, TotalSize
<1>13. ChainInv'
  <2>1. \A j \in 1 .. Len(bufs') - 1 : FALSE
    BY <1>11
  <2> QED
    BY <1>1, <1>2, <1>6, <1>7, <1>8, <1>10, <1>11, <1>12, <2>1 DEF ChainInv
<1>14. ClientInv'
  BY <1>1, <1>7 DEF ClientInv, MarksSeparate
<1>15. TypeOK'
  BY <1>1, <1>7, <1>9, <1>10, <1>11 DEF IInv, TypeOK
<1> QED
  BY <1>1, <1>13, <1>14, <1>15 DEF IInv, RestoreInv

\* A call that malloc fails, and a step of something else, change nothing the
\* invariant speaks of.
LEMMA IdleStep ==
  ASSUME IInv, UNCHANGED <<bufs, pre_head_size, heap, max_grow, default_align,
                           pc, s, total_size, deallocate, live, marks>>,
         ret' \in {"void", "null", "block"}
  PROVE  IInv'
<1>1. ChainInv'
  BY DEF IInv, ChainInv, head, Active
<1>2. ClientInv' /\ RestoreInv'
  BY DEF IInv, ClientInv, RestoreInv, MarksSeparate, Limit, TotalSize, head,
         Active
<1>3. TypeOK'
  BY DEF IInv, TypeOK
<1> QED
  BY <1>1, <1>2, <1>3 DEF IInv

-----------------------------------------------------------------------------
(* The theorems. *)

LEMMA InitIInv == Init => IInv
<1> SUFFICES ASSUME Init PROVE IInv
  OBVIOUS
<1>1. /\ bufs = <<>> /\ live = <<>> /\ marks = <<>> /\ pc = "none"
      /\ DOMAIN bufs = {} /\ DOMAIN live = {} /\ DOMAIN marks = {}
  BY DEF Init
<1>2. TypeOK
  BY <1>1 DEF Init, TypeOK
<1>3. ChainInv /\ RestoreInv
  BY <1>1 DEF ChainInv, RestoreInv, Active
<1>4. ClientInv
  BY <1>1 DEF ClientInv, MarksSeparate, Active
<1> QED
  BY <1>2, <1>3, <1>4 DEF IInv

\* One case per action: the invariant is inductive as long as no request
\* leaves size_t.
LEMMA NextIInv ==
  ASSUME Representable
  PROVE  IInv /\ [Next]_vars => IInv'
<1> SUFFICES ASSUME IInv, [Next]_vars
             PROVE  IInv'
  OBVIOUS
<1>1. ASSUME NEW id \in BufIds, NEW base \in Bases, NEW i \in InitialSizes,
             NEW g \in MaxGrows, NEW a \in DefaultAligns, NEW p \in PageSizes,
             GrpInit(id, base, i, g, a, p)
      PROVE  IInv'
  BY <1>1, GrpInitStep
<1>2. CASE GrpInitFail
  BY <1>2, IdleStep DEF GrpInitFail, alloc_vars, conf_vars, local_vars
<1>3. ASSUME NEW sz \in Sizes, NEW a \in Aligns, AllocFromHead(sz, a)
      PROVE  IInv'
  BY <1>3, AllocFromHeadStep
<1>4. ASSUME NEW sz \in Sizes, NEW a \in Aligns, AllocFail(sz, a)
      PROVE  IInv'
  BY <1>4, IdleStep DEF AllocFail, alloc_vars, conf_vars, local_vars
<1>5. ASSUME NEW sz \in Sizes, NEW a \in Aligns, NEW id \in BufIds,
             NEW base \in Bases, AllocGrow(sz, a, id, base)
      PROVE  IInv'
  BY <1>5, AllocGrowStep
<1>6. CASE Save
  BY <1>6, SaveStep
<1>7. ASSUME NEW m \in DOMAIN marks, RestoreBegin(m)
      PROVE  IInv'
  BY <1>7, RestoreBeginStep
<1>8. CASE FreeBegin
  BY <1>8, FreeBeginStep
<1>9. CASE Running
  <2>1. CASE PopBuf
    BY <2>1, PopBufStep
  <2>2. CASE Trim
    BY <2>2, TrimStep
  <2>3. CASE CompactSkip \/ CompactFail
    BY <2>3, CompactKeepStep
  <2>4. ASSUME NEW id \in BufIds, NEW base \in Bases, CompactReplace(id, base)
        PROVE  IInv'
    BY <2>4, CompactReplaceStep
  <2>5. CASE FreeBuf
    BY <2>5, FreeBufStep
  <2>6. CASE FreeDone
    BY <2>6, FreeDoneStep
  <2> QED
    BY <1>9, <2>1, <2>2, <2>3, <2>4, <2>5, <2>6 DEF Running
<1>10. CASE UNCHANGED vars
  <2>1. ret \in {"void", "null", "block"}
    BY DEF IInv, TypeOK
  <2> QED
    BY <1>10, <2>1, IdleStep
       DEF vars, alloc_vars, conf_vars, local_vars, client_vars
<1> QED
  BY <1>1, <1>2, <1>3, <1>4, <1>5, <1>6, <1>7, <1>8, <1>9, <1>10 DEF Next

\* The inductive invariant holds in every reachable state.
THEOREM Inductive == ASSUME Representable PROVE Spec => []IInv
BY InitIInv, NextIInv, PTL DEF Spec

\* The variables of the allocator and what it tells its client stay typed: in
\* particular restore never takes more off pre_head_size than is in it.
THEOREM TypeCorrect == ASSUME Representable PROVE Spec => []TypeOK
<1>1. IInv => TypeOK
  BY DEF IInv
<1> QED
  BY <1>1, Inductive, PTL

\* Every block in use is backed by a buffer malloc made large enough and nobody
\* freed: restore and its compaction never pull memory from under a block.
THEOREM Backing == ASSUME Representable PROVE Spec => []BlocksBacked
<1>1. IInv => BlocksBacked
  <2> SUFFICES ASSUME IInv, NEW k \in DOMAIN live, live[k].size > 0
               PROVE  Backed(live[k])
    BY DEF BlocksBacked
  <2>1. PICK i \in DOMAIN bufs : HeldIn(live[k], bufs[i])
    BY DEF IInv, ClientInv
  <2>2. /\ bufs[i].id \in heap /\ bufs[i].size <= bufs[i].alloc_sz
        /\ bufs[i].bytes = HDR + bufs[i].alloc_sz
    BY DEF IInv, ChainInv
  <2>3. /\ bufs[i].size \in Nat /\ bufs[i].alloc_sz \in Nat /\ HDR \in Nat
    BY ChainFacts, ConstantsOK
  <2>4. HDR + bufs[i].size <= bufs[i].bytes
    BY <2>2, <2>3
  <2> QED
    BY <2>1, <2>2, <2>4 DEF Backed, HeldIn
<1> QED
  BY <1>1, Inductive, PTL

\* Two blocks in use share no byte: within a buffer they are as far apart as
\* their positions, and the positions of all blocks in use are ordered.
LEMMA IInvDisjoint == IInv => LiveDisjoint
<1> SUFFICES ASSUME IInv, NEW j \in DOMAIN live, NEW k \in DOMAIN live, j # k
             PROVE  SA!Disjoint(live[j], live[k])
  BY DEF LiveDisjoint
<1>1. /\ live[j].off \in Nat /\ live[j].size \in Nat /\ live[j].pos \in Nat
      /\ live[k].off \in Nat /\ live[k].size \in Nat /\ live[k].pos \in Nat
  BY ClientTyped DEF IInv
<1>2. j \in Nat /\ k \in Nat
  BY DEF IInv, TypeOK
<1>3. \/ live[j].pos + live[j].size <= live[k].pos
      \/ live[k].pos + live[k].size <= live[j].pos
  BY <1>2 DEF IInv, ClientInv
<1>4. CASE live[j].size = 0 \/ live[k].size = 0
  BY <1>4 DEF SA!Disjoint
<1>5. CASE live[j].size > 0 /\ live[k].size > 0
  <2>1. PICK i \in DOMAIN bufs : HeldIn(live[j], bufs[i])
    BY <1>5 DEF IInv, ClientInv
  <2>2. PICK l \in DOMAIN bufs : HeldIn(live[k], bufs[l])
    BY <1>5 DEF IInv, ClientInv
  <2>3. CASE i # l
    <3>1. bufs[i].id # bufs[l].id
      BY <2>3 DEF IInv, ChainInv
    <3> QED
      BY <2>1, <2>2, <3>1 DEF HeldIn, SA!Disjoint
  <2>4. CASE i = l
    <3>1. bufs[i].below \in Nat
      BY ChainFacts
    <3> QED
      BY <1>1, <1>3, <2>1, <2>2, <2>4, <3>1 DEF HeldIn, SA!Disjoint
  <2> QED
    BY <2>3, <2>4
<1> QED
  BY <1>1, <1>4, <1>5

THEOREM Disjointness == ASSUME Representable PROVE Spec => []LiveDisjoint
BY IInvDisjoint, Inductive, PTL

\* The assertions of restore hold whatever the client and malloc do: a save is
\* never beyond what is in use, the chain is never popped empty, and restore
\* ends exactly at the position it was given.
THEOREM Assertions == ASSUME Representable PROVE Spec => []AssertionsHold
<1>1. IInv => AssertionsHold
  <2> SUFFICES ASSUME IInv
               PROVE  AssertionsHold
    OBVIOUS
  <2>1. CASE Active
    BY <2>1, TotalFits
       DEF IInv, RestoreInv, ClientInv, AssertionsHold, Limit
  <2>2. CASE ~Active
    BY <2>2 DEF IInv, RestoreInv, AssertionsHold, Active
  <2> QED
    BY <2>1, <2>2
<1> QED
  BY <1>1, Inductive, PTL

\* What a save returned keeps separating older blocks from newer ones.
THEOREM Separation == ASSUME Representable PROVE Spec => []MarksSeparate
<1>1. IInv => MarksSeparate
  BY DEF IInv, ClientInv
<1> QED
  BY <1>1, Inductive, PTL

\* An allocated block starts at a multiple of its alignment, and no later call
\* moves it.
LEMMA AlignedStep ==
  ASSUME Representable, IInv, BlocksAligned, [Next]_vars
  PROVE  BlocksAligned'
<1>1. live \in Seq(Blocks) /\ Len(live) \in Nat /\ DOMAIN live = 1 .. Len(live)
  BY DEF IInv, TypeOK
<1>2. ASSUME NEW b \in Blocks, b.addr % b.align = 0, live' = Append(live, b)
      PROVE  BlocksAligned'
  <2>1. /\ DOMAIN live' = 1 .. Len(live) + 1 /\ live'[Len(live) + 1] = b
        /\ \A k \in 1 .. Len(live) : live'[k] = live[k]
    BY <1>1, <1>2, AppendFacts
  <2>2. \A k \in 1 .. Len(live) : live'[k].addr % live'[k].align = 0
    BY <1>1, <2>1 DEF BlocksAligned
  <2>3. live'[Len(live) + 1].addr % live'[Len(live) + 1].align = 0
    BY <1>2, <2>1
  <2>4. \A k \in DOMAIN live' : k \in 1 .. Len(live) \/ k = Len(live) + 1
    BY <1>1, <2>1
  <2> QED
    BY <2>2, <2>3, <2>4 DEF BlocksAligned
<1>3. ASSUME NEW sz \in Sizes, NEW a \in Aligns, AllocFromHead(sz, a)
      PROVE  BlocksAligned'
  <2> DEFINE start == Start(head, EffAlign(a))
             b == Block(head, start, sz, EffAlign(a))
  <2>1. Active
    BY <1>3 DEF AllocFromHead, Calling, Active
  <2>2. /\ start \in Nat /\ Wrap(start) = start
        /\ (head.base + start) % EffAlign(a) = 0
    BY <2>1, StartFacts
  <2>3. EffAlign(a) \in Nat \ {0} /\ head \in Buffers /\ sz \in Nat
    BY <2>1, EffAlignFacts, HeadFacts, ConstantsOK
       DEF IInv, TypeOK, ChainInv, Active
  <2>4. b \in Blocks /\ b.addr = head.base + start /\ b.align = EffAlign(a)
    BY <2>2, <2>3 DEF Block, Blocks, Buffers
  <2>5. live' = Append(live, b)
    BY <1>3, <2>2 DEF AllocFromHead
  <2> QED
    BY <1>2, <2>2, <2>4, <2>5
<1>4. ASSUME NEW sz \in Sizes, NEW a \in Aligns, NEW id \in BufIds,
             NEW base \in Bases, AllocGrow(sz, a, id, base)
      PROVE  BlocksAligned'
  <2> DEFINE start == AlignOffset(base, EffAlign(a))
             nb == Buf(id, base, ActualAlloc(sz, EffAlign(a)), Wrap(TotalSize))
             b == Block(nb, start, sz, EffAlign(a))
  <2>1. Active
    BY <1>4 DEF AllocGrow, Calling, Active
  <2>2. start \in Nat /\ (base + start) % EffAlign(a) = 0
    BY <2>1, GrowFacts
  <2>3. /\ EffAlign(a) \in Nat \ {0} /\ sz \in Nat /\ base \in Nat
        /\ TotalSize \in Nat /\ Wrap(TotalSize) = TotalSize
    BY <2>1, EffAlignFacts, HeadFacts, TotalFits, ConstantsOK
       DEF IInv, TypeOK, ChainInv, Active
  <2>4. nb.id = id /\ nb.base = base /\ nb.below = TotalSize
    BY <2>3 DEF Buf
  <2> HIDE DEF nb
  <2>5. b \in Blocks /\ b.addr = base + start /\ b.align = EffAlign(a)
    BY <2>2, <2>3, <2>4 DEF Block, Blocks
  <2>6. live' = Append(live, b)
    BY <1>4 DEF AllocGrow, nb
  <2> QED
    BY <1>2, <2>2, <2>5, <2>6
<1>5. ASSUME NEW m \in DOMAIN marks, RestoreBegin(m)
      PROVE  BlocksAligned'
  <2>1. marks[m].n \in 0 .. Len(live)
    BY <1>1, ClientTyped DEF IInv, ClientInv
  <2>2. live' = SubSeq(live, 1, marks[m].n)
    BY <1>5 DEF RestoreBegin
  <2>3. /\ DOMAIN live' = 1 .. marks[m].n
        /\ \A k \in 1 .. marks[m].n : live'[k] = live[k] /\ k \in DOMAIN live
    BY <1>1, <2>1, <2>2, PrefixFacts
  <2> QED
    BY <2>3 DEF BlocksAligned
<1>6. CASE live' = <<>>
  BY <1>6 DEF BlocksAligned
<1>7. CASE UNCHANGED live
  BY <1>7 DEF BlocksAligned
<1> QED
  BY <1>3, <1>4, <1>5, <1>6, <1>7
     DEF Next, Running, GrpInit, GrpInitFail, AllocFail, Save, FreeBegin, PopBuf,
         Trim, CompactSkip, CompactFail, CompactReplace, FreeBuf, FreeDone,
         vars, client_vars

THEOREM Alignment == ASSUME Representable PROVE Spec => []BlocksAligned
<1>1. Init => BlocksAligned
  BY DEF Init, BlocksAligned
<1>2. IInv /\ BlocksAligned /\ [Next]_vars => BlocksAligned'
  BY AlignedStep
<1> QED
  BY <1>1, <1>2, Inductive, PTL DEF Spec

\* Every step of the chain is a step of the contract or changes nothing that
\* the contract speaks of.
LEMMA StepImplements ==
  ASSUME Representable, IInv, IInv', [Next]_vars
  PROVE  [SA!Next]_SA!vars
<1> USE DEF SA!vars
<1>1. live \in Seq(Blocks) /\ marks \in Seq(Marks)
  BY DEF IInv, TypeOK
<1>2. ASSUME NEW b \in Blocks, live' = Append(live, b), marks' = marks,
             ret' = "block"
      PROVE  SA!Grant
  <2>1. /\ Len(live) \in Nat /\ DOMAIN live = 1 .. Len(live)
        /\ Len(live') = Len(live) + 1 /\ DOMAIN live' = 1 .. Len(live) + 1
        /\ live'[Len(live) + 1] = b
        /\ \A k \in 1 .. Len(live) : live'[k] = live[k]
    BY <1>1, <1>2, AppendFacts
  <2>2. LiveDisjoint'
    BY IInvDisjoint, PTL
  <2>3. \A k \in DOMAIN live : SA!Disjoint(live[k], b)
    <3>1. \A j, k \in DOMAIN live' : j # k => SA!Disjoint(live'[j], live'[k])
      BY <2>2 DEF LiveDisjoint
    <3> SUFFICES ASSUME NEW k \in DOMAIN live
                 PROVE  SA!Disjoint(live[k], b)
      OBVIOUS
    <3>2. /\ k \in DOMAIN live' /\ Len(live) + 1 \in DOMAIN live'
          /\ k # Len(live) + 1
          /\ live'[k] = live[k]
      BY <2>1
    <3>3. SA!Disjoint(live'[k], live'[Len(live) + 1])
      BY <3>1, <3>2
    <3> QED
      BY <2>1, <3>2, <3>3
  <2> QED
    BY <1>2, <2>1, <2>3 DEF SA!Grant
<1>3. ASSUME NEW sz \in Sizes, NEW a \in Aligns, AllocFromHead(sz, a)
      PROVE  SA!Next
  <2> DEFINE b == Block(head, Wrap(Start(head, EffAlign(a))), sz, EffAlign(a))
  <2>1. /\ live' = Append(live, b) /\ marks' = marks /\ ret' = "block"
    BY <1>3 DEF AllocFromHead
  <2>2. b \in Blocks
    <3>1. Active
      BY <1>3 DEF AllocFromHead, Calling, Active
    <3>2. /\ head \in Buffers /\ EffAlign(a) \in Nat \ {0} /\ sz \in Nat
          /\ Wrap(Start(head, EffAlign(a))) \in Nat
      BY <3>1, StartFacts, EffAlignFacts, HeadFacts, ConstantsOK
         DEF IInv, TypeOK, ChainInv, Active
    <3> QED
      BY <3>2 DEF Block, Blocks, Buffers
  <2> HIDE DEF b
  <2> QED
    BY <1>2, <2>1, <2>2 DEF SA!Next
<1>4. ASSUME NEW sz \in Sizes, NEW a \in Aligns, NEW id \in BufIds,
             NEW base \in Bases, AllocGrow(sz, a, id, base)
      PROVE  SA!Next
  <2> DEFINE nb == Buf(id, base, ActualAlloc(sz, EffAlign(a)), Wrap(TotalSize))
             b == Block(nb, AlignOffset(base, EffAlign(a)), sz, EffAlign(a))
  <2>1. /\ live' = Append(live, b) /\ marks' = marks /\ ret' = "block"
    BY <1>4 DEF AllocGrow
  <2>2. b \in Blocks
    <3>1. Active
      BY <1>4 DEF AllocGrow, Calling, Active
    <3>2. /\ EffAlign(a) \in Nat \ {0} /\ sz \in Nat /\ base \in Nat
          /\ AlignOffset(base, EffAlign(a)) \in Nat
          /\ TotalSize \in Nat /\ Wrap(TotalSize) = TotalSize
      BY <3>1, GrowFacts, TotalFits, EffAlignFacts, HeadFacts, ConstantsOK
         DEF IInv, TypeOK, ChainInv, Active
    <3>3. nb.id = id /\ nb.base = base /\ nb.below = TotalSize
      BY <3>2 DEF Buf
    <3> HIDE DEF nb
    <3> QED
      BY <3>2, <3>3 DEF Block, Blocks
  <2> HIDE DEF b
  <2> QED
    BY <1>2, <2>1, <2>2 DEF SA!Next
<1>5. CASE Save
  <2> DEFINE k == [tok |-> Wrap(TotalSize), n |-> Len(live)]
  <2>1. marks' = Append(marks, k) /\ live' = live /\ ret' = "void"
    BY <1>5 DEF Save
  <2>2. k \in Marks
    BY <1>5, HeadFacts, TotalFits, <1>1 DEF Save, Active, Marks
  <2>3. k.n = Len(live)
    OBVIOUS
  <2> HIDE DEF k
  <2>4. [i \in DOMAIN marks' |-> marks'[i].n]
          = Append([i \in DOMAIN marks |-> marks[i].n], Len(live))
    <3>1. /\ Len(marks) \in Nat /\ DOMAIN marks = 1 .. Len(marks)
          /\ DOMAIN marks' = 1 .. Len(marks) + 1
          /\ \A i \in 1 .. Len(marks) : marks'[i] = marks[i]
          /\ marks'[Len(marks) + 1] = k
      BY <1>1, <2>1, <2>2, AppendFacts
    <3> DEFINE f == [i \in DOMAIN marks |-> marks[i].n]
    <3>2. f \in Seq(Nat) /\ Len(f) = Len(marks) /\ Len(live) \in Nat
      BY <1>1, <3>1, ClientTyped DEF IInv
    <3>3. /\ Append(f, Len(live)) \in Seq(Nat)
          /\ DOMAIN Append(f, Len(live)) = 1 .. Len(marks) + 1
          /\ \A i \in 1 .. Len(marks) : Append(f, Len(live))[i] = f[i]
          /\ Append(f, Len(live))[Len(marks) + 1] = Len(live)
      BY <3>2, AppendFacts
    <3> QED
      BY <2>3, <3>1, <3>2, <3>3
  <2> QED
    BY <2>1, <2>4 DEF SA!Save, SA!Next
<1>6. ASSUME NEW m \in DOMAIN marks, RestoreBegin(m)
      PROVE  SA!Next
  <2>1. /\ live' = SubSeq(live, 1, marks[m].n) /\ marks' = SubSeq(marks, 1, m)
        /\ ret' = "void"
    BY <1>6 DEF RestoreBegin
  <2>2. [i \in DOMAIN marks' |-> marks'[i].n]
          = SubSeq([i \in DOMAIN marks |-> marks[i].n], 1, m)
    BY <1>1, <2>1, MarksMap
  <2>3. SA!Restore(m)
    BY <2>1, <2>2 DEF SA!Restore
  <2> QED
    BY <2>3 DEF SA!Next
<1>7. ASSUME live' = <<>>, marks' = <<>>, ret' = "void"
      PROVE  SA!Next
  BY <1>7 DEF SA!Reset, SA!Next
<1>8. ASSUME live' = live, marks' = marks, ret' = "null"
      PROVE  SA!Next
  BY <1>8 DEF SA!Refuse, SA!Next
<1>9. CASE GrpInitFail \/ \E sz \in Sizes, a \in Aligns : AllocFail(sz, a)
  BY <1>8, <1>9 DEF GrpInitFail, AllocFail
<1>10. ASSUME NEW id \in BufIds, NEW base \in Bases, NEW i \in InitialSizes,
              NEW g \in MaxGrows, NEW a \in DefaultAligns, NEW p \in PageSizes,
              GrpInit(id, base, i, g, a, p)
       PROVE  SA!Next
  <2>1. live = <<>> /\ marks = <<>>
    BY <1>10 DEF GrpInit, IInv, ClientInv, Active
  <2> QED
    BY <1>7, <1>10, <2>1 DEF GrpInit
<1>11. CASE FreeBegin
  BY <1>7, <1>11 DEF FreeBegin
<1>12. CASE Running \/ UNCHANGED vars
  BY <1>12
     DEF Running, PopBuf, Trim, CompactSkip, CompactFail, CompactReplace, FreeBuf,
         FreeDone, vars, client_vars
<1> QED
  BY <1>3, <1>4, <1>5, <1>6, <1>9, <1>10, <1>11, <1>12 DEF Next

\* The chain of buffers implements the stack-allocator contract of cop_alloc.h.
THEOREM Refinement == ASSUME Representable PROVE Spec => Implements
<1>1. Init => SA!Init
  BY DEF Init, SA!Init
<1>2. IInv /\ IInv' /\ [Next]_vars => [SA!Next]_SA!vars
  BY StepImplements
<1> QED
  BY <1>1, <1>2, Inductive, PTL DEF Spec, Implements, SA!Spec

\* A step that leaves the client alone strands nothing if what restore, or the
\* next alloc, starts from is the same after it.
LEMMA UsedUntouched ==
  ASSUME UsedIsHeld, UNCHANGED <<live, marks>>, Active' => Active /\ Limit' = Limit
  PROVE  UsedIsHeld'
BY DEF UsedIsHeld, EndOf

\* A grant that ends where the block it made ends leaves the saves as they were.
LEMMA UsedGrant ==
  ASSUME IInv, UsedIsHeld, pc' = "idle", marks' = marks,
         NEW b \in Blocks, live' = Append(live, b),
         TotalSize' = EndOf(Len(live))'
  PROVE  UsedIsHeld'
<1> DEFINE EndIn(q, n) == IF n = 0 THEN 0 ELSE q[n].pos + q[n].size
<1>1. Limit' = EndOf(Len(live))'
  BY DEF Limit
<1>2. /\ Len(live) \in Nat
      /\ \A i \in 1 .. Len(live) : live'[i] = live[i]
  BY AppendFacts DEF IInv, TypeOK
<1>3. ASSUME NEW m \in DOMAIN marks'
      PROVE  marks'[m].tok = EndIn(live', marks'[m].n)
  <2>1. marks[m].n \in 0 .. Len(live)
    BY <1>2, <1>3, ClientTyped DEF IInv, ClientInv
  <2> QED
    BY <1>2, <1>3, <2>1 DEF UsedIsHeld, EndOf
<1> QED
  BY <1>1, <1>3 DEF UsedIsHeld, EndOf

\* One case per action: nothing is stranded by any of them.
LEMMA UsedStep ==
  ASSUME Representable
  PROVE  IInv /\ IInv' /\ UsedIsHeld /\ [Next]_vars => UsedIsHeld'
<1> SUFFICES ASSUME IInv, IInv', UsedIsHeld, [Next]_vars
             PROVE  UsedIsHeld'
  OBVIOUS
<1>1. ASSUME NEW id \in BufIds, NEW base \in Bases, NEW i \in InitialSizes,
             NEW g \in MaxGrows, NEW a \in DefaultAligns, NEW p \in PageSizes,
             GrpInit(id, base, i, g, a, p)
      PROVE  UsedIsHeld'
  <2>1. live' = <<>> /\ marks' = <<>> /\ pc' = "idle"
    BY <1>1 DEF GrpInit, IInv, ClientInv, Active
  <2>2. TotalSize' = 0
    BY <1>1 DEF GrpInit, TotalSize, head, Buf
  <2> QED
    BY <2>1, <2>2 DEF UsedIsHeld, EndOf, Limit
<1>2. ASSUME NEW sz \in Sizes, NEW a \in Aligns, AllocFromHead(sz, a)
      PROVE  UsedIsHeld'
  <2>1. TotalSize' = EndOf(Len(live))'
    BY <1>2, AllocFromHeadStep
  <2>2. PICK b : live' = Append(live, b)
    BY <1>2 DEF AllocFromHead
  <2>3. pc' = "idle" /\ marks' = marks
    BY <1>2 DEF AllocFromHead, Calling
  <2>4. b \in Blocks
    BY <2>2 DEF IInv, TypeOK
  <2> QED
    BY <2>1, <2>2, <2>3, <2>4, UsedGrant
<1>3. ASSUME NEW sz \in Sizes, NEW a \in Aligns, NEW id \in BufIds,
             NEW base \in Bases, AllocGrow(sz, a, id, base)
      PROVE  UsedIsHeld'
  <2>1. TotalSize' = EndOf(Len(live))'
    BY <1>3, AllocGrowStep
  <2>2. PICK b : live' = Append(live, b)
    BY <1>3 DEF AllocGrow
  <2>3. pc' = "idle" /\ marks' = marks
    BY <1>3 DEF AllocGrow, Calling
  <2>4. b \in Blocks
    BY <2>2 DEF IInv, TypeOK
  <2> QED
    BY <2>1, <2>2, <2>3, <2>4, UsedGrant
<1>4. CASE Save
  <2>1. /\ Active /\ Active' /\ Limit = TotalSize /\ Limit' = Limit
        /\ live' = live
        /\ marks' = Append(marks, [tok |-> TotalSize, n |-> Len(live)])
    <3>1. Active /\ pc = "idle"
      BY <1>4 DEF Save, Active
    <3> QED
      BY <1>4, <3>1, TotalFits
         DEF Save, Active, Limit, TotalSize, head, alloc_vars
  <2>2. TotalSize \in Nat /\ Len(live) \in Nat /\ marks \in Seq(Marks)
    BY <2>1, HeadFacts DEF IInv, TypeOK
  <2>3. [tok |-> TotalSize, n |-> Len(live)] \in Marks
    BY <2>2 DEF Marks
  <2>4. /\ DOMAIN marks' = 1 .. Len(marks) + 1
        /\ \A m \in 1 .. Len(marks) : marks'[m] = marks[m]
        /\ marks'[Len(marks) + 1] = [tok |-> TotalSize, n |-> Len(live)]
    BY <2>1, <2>2, <2>3, AppendFacts
  <2>5. \A m \in DOMAIN marks' : marks'[m].tok = EndOf(marks'[m].n)
    BY <2>1, <2>2, <2>4 DEF UsedIsHeld
  <2> QED
    BY <2>1, <2>5 DEF UsedIsHeld, EndOf
<1>5. ASSUME NEW m \in DOMAIN marks, RestoreBegin(m)
      PROVE  UsedIsHeld'
  <2>1. /\ Limit' = marks[m].tok
        /\ live' = SubSeq(live, 1, marks[m].n) /\ marks' = SubSeq(marks, 1, m)
    BY <1>5 DEF RestoreBegin, Limit
  <2>2. /\ live \in Seq(Blocks) /\ marks \in Seq(Marks)
        /\ m \in 0 .. Len(marks) /\ marks[m].n \in 0 .. Len(live)
    BY <1>5, ClientTyped DEF IInv, TypeOK, ClientInv
  <2>3. /\ Len(live') = marks[m].n
        /\ \A i \in 1 .. marks[m].n : live'[i] = live[i]
    BY <2>1, <2>2, PrefixFacts
  <2>4. /\ DOMAIN marks' = 1 .. m
        /\ \A l \in 1 .. m : marks'[l] = marks[l]
    BY <2>1, <2>2, PrefixFacts
  <2>5. \A l \in 1 .. m : marks[l].n \in 0 .. marks[m].n
    <3> SUFFICES ASSUME NEW l \in 1 .. m
                 PROVE  marks[l].n \in 0 .. marks[m].n
      OBVIOUS
    <3>1. l \in DOMAIN marks /\ (l = m \/ l < m) /\ marks[l].n \in Nat
      BY <2>2, ClientTyped DEF IInv
    <3>2. l < m => marks[l].n <= marks[m].n
      BY <1>5, <3>1 DEF IInv, ClientInv
    <3> QED
      BY <2>2, <3>1, <3>2
  <2>6. \A l \in 1 .. m : marks[l].tok = EndOf(marks[l].n)
    BY <1>5, <2>2 DEF UsedIsHeld
  <2> DEFINE EndIn(q, n) == IF n = 0 THEN 0 ELSE q[n].pos + q[n].size
  <2>7. \A l \in 1 .. m : marks[l].tok = EndIn(live', marks'[l].n)
    <3> SUFFICES ASSUME NEW l \in 1 .. m
                 PROVE  marks[l].tok = EndIn(live', marks'[l].n)
      OBVIOUS
    <3>1. marks'[l] = marks[l] /\ marks[l].tok = EndOf(marks[l].n)
      BY <2>4, <2>6
    <3>2. marks[l].n = 0 \/ marks[l].n \in 1 .. marks[m].n
      BY <2>2, <2>5
    <3> QED
      BY <2>3, <3>1, <3>2 DEF EndOf
  <2>8. Limit' = EndOf(Len(live))'
    <3>1. m \in 1 .. m
      BY <1>5, <2>2
    <3>2. marks[m].tok = EndIn(live', marks[m].n)
      BY <2>4, <2>7, <3>1
    <3> QED
      BY <2>1, <2>3, <3>2 DEF EndOf
  <2> QED
    BY <2>4, <2>7, <2>8 DEF UsedIsHeld, EndOf
<1>6. CASE PopBuf \/ Trim
  <2>1. /\ pc = "pop" /\ pc' \in {"pop", "compact"}
        /\ UNCHANGED <<s, live, marks>>
    BY <1>6 DEF PopBuf, Trim, IInv, RestoreInv, client_vars, local_vars
  <2> QED
    BY <2>1, UsedUntouched DEF Active, Limit
<1>7. CASE CompactSkip \/ CompactFail
  <2>1. /\ pc = "compact" /\ pc' = "idle"
        /\ UNCHANGED <<bufs, pre_head_size, live, marks>>
    BY <1>7 DEF CompactSkip, CompactFail, Return, alloc_vars, client_vars
  <2>2. Limit' = Limit
    BY <2>1 DEF Limit, TotalSize, head, IInv, RestoreInv
  <2> QED
    BY <2>1, <2>2, UsedUntouched DEF Active
<1>8. ASSUME NEW id \in BufIds, NEW base \in Bases, CompactReplace(id, base)
      PROVE  UsedIsHeld'
  <2>1. /\ pc = "compact" /\ pc' = "idle" /\ UNCHANGED <<live, marks>>
        /\ pre_head_size = 0 /\ head.size = 0 /\ pre_head_size' = 0
        /\ bufs' = <<Buf(id, base, total_size, 0)>>
    BY <1>8 DEF CompactReplace, Compactable, Return, client_vars
  <2>2. Limit = 0
    BY <2>1 DEF Limit, IInv, RestoreInv, TotalSize
  <2>3. Limit' = 0
    BY <2>1 DEF Limit, TotalSize, head, Buf
  <2> QED
    BY <2>1, <2>2, <2>3, UsedUntouched DEF Active
<1>9. CASE FreeBegin
  BY <1>9 DEF FreeBegin, UsedIsHeld, Active
<1>10. CASE FreeBuf \/ FreeDone
  BY <1>10, UsedUntouched DEF FreeBuf, FreeDone, Active, client_vars
<1>11. ASSUME \/ GrpInitFail
              \/ \E sz \in Sizes, a \in Aligns : AllocFail(sz, a)
              \/ UNCHANGED vars
       PROVE  UsedIsHeld'
  <2>1. UNCHANGED <<bufs, pre_head_size, pc, s, live, marks>>
    BY <1>11 DEF GrpInitFail, AllocFail, vars, alloc_vars, local_vars, client_vars
  <2> QED
    BY <2>1, UsedUntouched DEF Active, Limit, TotalSize, head
<1> QED
  BY <1>1, <1>2, <1>3, <1>4, <1>5, <1>6, <1>7, <1>8, <1>9, <1>10, <1>11
     DEF Next, Running

\* What the allocator counts as used ends where the client's last block ends, and
\* each save where the block before it did: a restore gives back every byte
\* handed out since its save, and a request that failed costs nothing.
THEOREM NothingStranded == ASSUME Representable PROVE Spec => []UsedIsHeld
<1>1. Init => UsedIsHeld
  BY DEF Init, UsedIsHeld, Active
<1>2. IInv /\ IInv' /\ UsedIsHeld /\ [Next]_vars => UsedIsHeld'
  BY UsedStep
<1> QED
  BY <1>1, <1>2, Inductive, PTL DEF Spec

-----------------------------------------------------------------------------
(* What lies before the head.                                               *)

\* Every non-empty set of natural numbers has a least one.
LEMMA SmallestNat ==
  ASSUME NEW T, T \subseteq Nat, T # {}
  PROVE  \E x \in T : \A y \in T : x <= y
<1> DEFINE R == {p \in Nat \X Nat : p[1] < p[2]}
<1>1. OpToRel(<, Nat) = R
  BY DEF OpToRel
<1>2. IsWellFoundedOn(R, Nat)
  BY <1>1, NatLessThanWellFounded
<1>3. PICK x \in T : \A y \in T : ~(<<y, x>> \in R)
  BY <1>2, WFMin
<1>4. ASSUME NEW y \in T PROVE x <= y
  <2>1. <<y, x>> \in Nat \X Nat /\ <<y, x>>[1] = y /\ <<y, x>>[2] = x
    OBVIOUS
  <2>2. ~(y < x)
    BY <1>3, <2>1
  <2> QED
    BY <2>2
<1> QED
  BY <1>4

\* f is the running sum of the sizes of q.
RunningSum(f, q) ==
  f = [n \in 0 .. Len(q) |-> IF n = 0 THEN 0 ELSE f[n - 1] + q[n].size]

\* What it is at each place.
LEMMA RunningSumAt ==
  ASSUME NEW q, Len(q) \in Nat, NEW f, RunningSum(f, q)
  PROVE  /\ f = [n \in 0 .. Len(q) |-> f[n]]
         /\ f[0] = 0
         /\ \A n \in 1 .. Len(q) : f[n] = f[n - 1] + q[n].size
<1> DEFINE D == 0 .. Len(q)
           F(n) == IF n = 0 THEN 0 ELSE f[n - 1] + q[n].size
<1>1. f = [n \in D |-> F(n)]
  BY DEF RunningSum
<1> HIDE DEF F
<1>2. f = [n \in D |-> f[n]] /\ \A n \in D : f[n] = F(n)
  BY <1>1
<1>3. 0 \in D /\ \A n \in 1 .. Len(q) : n \in D /\ n # 0
  OBVIOUS
<1> HIDE DEF D
<1>4. f[0] = 0
  BY <1>2, <1>3 DEF F
<1>5. \A n \in 1 .. Len(q) : f[n] = f[n - 1] + q[n].size
  BY <1>2, <1>3 DEF F
<1> QED
  BY <1>2, <1>4, <1>5 DEF D

\* There is only one.
LEMMA RunningSumUnique ==
  ASSUME NEW q, Len(q) \in Nat, NEW f, NEW g, RunningSum(f, q), RunningSum(g, q)
  PROVE  f = g
<1> DEFINE D == 0 .. Len(q)
           T == {n \in D : f[n] # g[n]}
<1>1. /\ f = [n \in D |-> f[n]] /\ f[0] = 0
      /\ \A n \in 1 .. Len(q) : f[n] = f[n - 1] + q[n].size
  BY RunningSumAt
<1>2. /\ g = [n \in D |-> g[n]] /\ g[0] = 0
      /\ \A n \in 1 .. Len(q) : g[n] = g[n - 1] + q[n].size
  BY RunningSumAt
<1>3. ASSUME T # {} PROVE FALSE
  <2>1. T \subseteq Nat
    OBVIOUS
  <2> HIDE DEF T
  <2>2. PICK n \in T : \A m \in T : n <= m
    BY <1>3, <2>1, SmallestNat
  <2>3. n \in D /\ f[n] # g[n]
    BY <2>2 DEF T
  <2>4. n \in 1 .. Len(q)
    BY <1>1, <1>2, <2>3
  <2>5. n - 1 \in D /\ ~(n <= n - 1)
    BY <2>4
  <2>6. f[n - 1] = g[n - 1]
    BY <2>2, <2>5 DEF T
  <2> QED
    BY <1>1, <1>2, <2>3, <2>4, <2>6
<1>4. \A n \in D : f[n] = g[n]
  BY <1>3
<1> HIDE DEF D, T
<1> QED
  BY <1>1, <1>2, <1>4

\* The sizes of adjoining ranges that begin at zero add up to where the last
\* one ends.
LEMMA SumOfTiles ==
  ASSUME NEW q \in Seq(Buffers),
         \A i \in DOMAIN q : q[i].below = IF i = 1 THEN 0 ELSE q[i - 1].below + q[i - 1].size
  PROVE  SumSizes(q) = IF q = <<>> THEN 0 ELSE q[Len(q)].below + q[Len(q)].size
<1> DEFINE D == 0 .. Len(q)
           f == [n \in D |-> IF n = 0 THEN 0 ELSE q[n].below + q[n].size]
           c == CHOOSE h : RunningSum(h, q)
<1>1. Len(q) \in Nat /\ DOMAIN q = 1 .. Len(q)
  OBVIOUS
<1>2. ASSUME NEW i \in 1 .. Len(q)
      PROVE  q[i].size \in Nat /\ q[i].below \in Nat
  <2>1. q[i] \in Buffers
    BY <1>1
  <2> QED
    BY <2>1 DEF Buffers
<1>3. ASSUME NEW n \in D
      PROVE  f[n] = IF n = 0 THEN 0 ELSE f[n - 1] + q[n].size
  <2>1. CASE n = 0
    BY <2>1
  <2>2. CASE n # 0
    <3>1. n \in 1 .. Len(q) /\ n - 1 \in D /\ (n - 1 = 0 <=> n = 1)
      BY <1>1, <2>2
    <3>2. f[n] = q[n].below + q[n].size
      BY <2>2
    <3>3. f[n - 1] = IF n = 1 THEN 0 ELSE q[n - 1].below + q[n - 1].size
      BY <3>1
    <3>4. q[n].below = f[n - 1]
      BY <1>1, <3>1, <3>3
    <3> QED
      BY <2>2, <3>2, <3>4
  <2> QED
    BY <2>1, <2>2
<1>4. f = [n \in D |-> f[n]] /\ f[Len(q)] = IF Len(q) = 0 THEN 0 ELSE q[Len(q)].below + q[Len(q)].size
  BY <1>1
<1> HIDE DEF f
<1>5. RunningSum(f, q)
  BY <1>3, <1>4 DEF RunningSum
<1>6. RunningSum(c, q)
  BY <1>5
<1>7. c = f
  BY <1>1, <1>5, <1>6, RunningSumUnique
<1>8. SumSizes(q) = c[Len(q)]
  BY DEF SumSizes, RunningSum
<1> QED
  BY <1>1, <1>4, <1>7, <1>8

\* The count of what lies before the head is right at every step: while buffers
\* are pushed, popped, trimmed and replaced.
THEOREM Counts == ASSUME Representable PROVE Spec => []Accounting
<1>1. ASSUME IInv PROVE Accounting
  <2> SUFFICES ASSUME Active
               PROVE  pre_head_size = SumSizes(Front(bufs))
    BY DEF Accounting, Active
  <2> DEFINE q == Front(bufs)
  <2>1. /\ bufs \in Seq(Buffers) /\ bufs # <<>> /\ Len(bufs) \in Nat \ {0}
        /\ DOMAIN bufs = 1 .. Len(bufs)
    BY <1>1, HeadFacts
  <2>2. /\ q \in Seq(Buffers) /\ Len(q) = Len(bufs) - 1
        /\ DOMAIN q = 1 .. Len(bufs) - 1
        /\ \A i \in 1 .. Len(bufs) - 1 : q[i] = bufs[i]
    BY <2>1, FrontFacts
  <2>3. /\ bufs[1].below = 0
        /\ \A i \in 1 .. Len(bufs) - 1 :
             bufs[i].below + bufs[i].size = bufs[i + 1].below
        /\ pre_head_size = bufs[Len(bufs)].below
    BY <1>1 DEF IInv, ChainInv, head
  <2> HIDE DEF q
  <2>4. \A i \in DOMAIN q : q[i].below = IF i = 1 THEN 0 ELSE q[i - 1].below + q[i - 1].size
    <3> SUFFICES ASSUME NEW i \in DOMAIN q
                 PROVE  q[i].below = IF i = 1 THEN 0 ELSE q[i - 1].below + q[i - 1].size
      OBVIOUS
    <3>1. CASE i = 1
      BY <2>2, <2>3, <3>1
    <3>2. CASE i # 1
      <4>1. i - 1 \in 1 .. Len(bufs) - 1 /\ (i - 1) + 1 = i
        BY <2>1, <2>2, <3>2
      <4>2. bufs[i - 1].below + bufs[i - 1].size = bufs[i].below
        BY <2>3, <4>1
      <4> QED
        BY <2>2, <3>2, <4>1, <4>2
    <3> QED
      BY <3>1, <3>2
  <2>5. SumSizes(q) = IF q = <<>> THEN 0 ELSE q[Len(q)].below + q[Len(q)].size
    BY <2>2, <2>4, SumOfTiles
  <2>6. CASE Len(bufs) = 1
    <3>1. q = <<>>
      BY <2>2, <2>6
    <3> QED
      BY <2>3, <2>5, <2>6, <3>1 DEF q
  <2>7. CASE Len(bufs) # 1
    <3>1. Len(q) \in 1 .. Len(bufs) - 1 /\ Len(q) + 1 = Len(bufs) /\ q # <<>>
      BY <2>1, <2>2, <2>7
    <3> QED
      BY <2>2, <2>3, <2>5, <3>1 DEF q
  <2> QED
    BY <2>6, <2>7
<1> QED
  BY <1>1, Inductive, PTL

-----------------------------------------------------------------------------
(* What is malloc'd and what can be reached. *)

\* Freeing the head and dropping it from the chain orphans nothing.
LEMMA PopKeepsOrphans ==
  ASSUME IInv, bufs # <<>>, bufs' = Front(bufs), heap' = heap \ {head.id}
  PROVE  Orphans' = Orphans
<1>1. /\ bufs \in Seq(Buffers) /\ Len(bufs) \in Nat \ {0}
      /\ DOMAIN bufs = 1 .. Len(bufs)
  BY LastInDomain DEF IInv, TypeOK
<1> DEFINE n == Len(bufs)
           D == 1 .. n - 1
<1>2. DOMAIN bufs' = D /\ \A i \in D : bufs'[i] = bufs[i]
  BY <1>1, FrontFacts
<1>3. DOMAIN bufs = D \cup {n} /\ head = bufs[n]
  BY <1>1 DEF head
<1> HIDE DEF D, n
<1>4. {bufs[i].id : i \in DOMAIN bufs}
        = {bufs'[i].id : i \in DOMAIN bufs'} \cup {head.id}
  BY <1>2, <1>3
<1> QED
  BY <1>4 DEF Orphans

\* Nor does a step that keeps the heap and the identity of every buffer.
LEMMA SameIdsKeepOrphans ==
  ASSUME heap' = heap, DOMAIN bufs' = DOMAIN bufs,
         \A i \in DOMAIN bufs : bufs'[i].id = bufs[i].id
  PROVE  Orphans' = Orphans
BY DEF Orphans

LEMMA ResizeKeepsOrphans ==
  ASSUME IInv, NEW x, bufs' = WithUsed(bufs, x), heap' = heap
  PROVE  Orphans' = Orphans
<1>1. ASSUME NEW i \in DOMAIN bufs PROVE bufs'[i].id = bufs[i].id
  <2>1. bufs[i] \in Buffers
    BY DEF IInv, TypeOK
  <2>2. bufs'[i] = IF i = Len(bufs) THEN [bufs[i] EXCEPT !.size = x] ELSE bufs[i]
    BY DEF WithUsed
  <2> QED
    BY <2>1, <2>2 DEF Buffers
<1>2. DOMAIN bufs' = DOMAIN bufs
  BY DEF WithUsed
<1> QED
  BY <1>1, <1>2, SameIdsKeepOrphans

\* A fresh buffer is in the chain as soon as it is on the heap.
LEMMA PushKeepsOrphans ==
  ASSUME IInv, NEW id, id \notin heap, heap' = heap \cup {id},
         NEW b \in Buffers, b.id = id, bufs' = Append(bufs, b)
  PROVE  Orphans' = Orphans
<1>1. bufs \in Seq(Buffers) /\ Len(bufs) \in Nat /\ DOMAIN bufs = 1 .. Len(bufs)
  BY DEF IInv, TypeOK
<1>2. /\ DOMAIN bufs' = (1 .. Len(bufs)) \cup {Len(bufs) + 1}
      /\ \A i \in 1 .. Len(bufs) : bufs'[i] = bufs[i]
      /\ bufs'[Len(bufs) + 1] = b
  BY <1>1
<1>3. {bufs'[i].id : i \in DOMAIN bufs'} = {bufs[i].id : i \in DOMAIN bufs} \cup {id}
  BY <1>1, <1>2
<1> QED
  BY <1>3 DEF Orphans

LEMMA LeakStep ==
  ASSUME Representable, IInv, IInv', [Next]_vars, Orphans' # Orphans
  PROVE  pc = "compact" /\ Len(bufs) > 1
<1>1. CASE heap' = heap /\ bufs' = bufs
  BY <1>1, SameIdsKeepOrphans
<1>2. ASSUME NEW id \in BufIds, NEW base \in Bases, NEW i \in InitialSizes,
             NEW g \in MaxGrows, NEW a \in DefaultAligns, NEW p \in PageSizes,
             GrpInit(id, base, i, g, a, p)
      PROVE  FALSE
  <2>1. PICK b : bufs' = <<b>> /\ b.id = id
    BY <1>2 DEF GrpInit, Buf
  <2>2. heap' = heap \cup {id} /\ id \notin heap /\ bufs = <<>>
    BY <1>2 DEF GrpInit, MallocOK, IInv, ChainInv
  <2>3. bufs' = Append(bufs, b) /\ b \in Buffers
    BY <2>1, <2>2 DEF IInv, TypeOK
  <2> QED
    BY <2>1, <2>2, <2>3, PushKeepsOrphans
<1>3. ASSUME NEW sz \in Sizes, NEW a \in Aligns, AllocFromHead(sz, a)
      PROVE  FALSE
  BY <1>3, ResizeKeepsOrphans DEF AllocFromHead
<1>4. ASSUME NEW sz \in Sizes, NEW a \in Aligns, NEW id \in BufIds,
             NEW base \in Bases, AllocGrow(sz, a, id, base)
      PROVE  FALSE
  <2>1. PICK b : bufs' = Append(bufs, b) /\ b.id = id
    BY <1>4 DEF AllocGrow, Buf
  <2>2. heap' = heap \cup {id} /\ id \notin heap
    BY <1>4 DEF AllocGrow, MallocOK
  <2>3. b \in Buffers
    <3>1. /\ bufs \in Seq(Buffers) /\ Len(bufs) \in Nat /\ bufs' \in Seq(Buffers)
      BY DEF IInv, TypeOK
    <3>2. Len(bufs') = Len(bufs) + 1 /\ bufs'[Len(bufs) + 1] = b
      BY <2>1, <3>1
    <3> QED
      BY <3>1, <3>2
  <2> QED
    BY <2>1, <2>2, <2>3, PushKeepsOrphans
<1>5. CASE PopBuf
  <2>1. bufs # <<>>
    BY <1>5, HeadFacts DEF PopBuf, Active
  <2> QED
    BY <1>5, <2>1, PopKeepsOrphans DEF PopBuf
<1>6. CASE FreeBuf
  BY <1>6, PopKeepsOrphans DEF FreeBuf
<1>7. CASE Trim
  BY <1>7, ResizeKeepsOrphans DEF Trim
<1>8. ASSUME NEW id \in BufIds, NEW base \in Bases, CompactReplace(id, base)
      PROVE  pc = "compact" /\ Len(bufs) > 1
  <2>1. /\ pc = "compact" /\ Len(bufs) \in Nat \ {0} /\ head.id \in heap
        /\ DOMAIN bufs = 1 .. Len(bufs)
    BY <1>8, HeadFacts DEF CompactReplace, Active, IInv, ChainInv, head
  <2>2. PICK b : bufs' = <<b>> /\ b.id = id
    BY <1>8 DEF CompactReplace, Buf
  <2>3. heap' = (heap \cup {id}) \ {head.id} /\ id \notin heap
    BY <1>8 DEF CompactReplace, MallocOK
  <2>4. CASE Len(bufs) = 1
    <3>1. {bufs[i].id : i \in DOMAIN bufs} = {head.id}
      BY <2>1, <2>4 DEF head
    <3>2. {bufs'[i].id : i \in DOMAIN bufs'} = {id}
      BY <2>2
    <3> QED
      BY <2>1, <2>3, <3>1, <3>2 DEF Orphans
  <2> QED
    BY <2>1, <2>4
<1>9. ASSUME \/ GrpInitFail \/ Save \/ FreeBegin \/ CompactSkip \/ CompactFail \/ FreeDone
             \/ UNCHANGED vars
             \/ \E sz \in Sizes, a \in Aligns : AllocFail(sz, a)
             \/ \E m \in DOMAIN marks : RestoreBegin(m)
      PROVE  heap' = heap /\ bufs' = bufs
  BY <1>9 DEF GrpInitFail, Save, FreeBegin, CompactSkip, CompactFail, FreeDone, vars,
              AllocFail, RestoreBegin, alloc_vars
<1>10. CASE Running
  BY <1>1, <1>5, <1>6, <1>7, <1>8, <1>9, <1>10 DEF Running
<1> QED
  BY <1>1, <1>2, <1>3, <1>4, <1>9, <1>10 DEF Next

\* Only the compaction of a chain of several buffers drops one without freeing
\* it: no other call, and no failed one, leaks.
THEOREM NoOtherLeak == ASSUME Representable PROVE Spec => LeakOnlyByCompaction
<1>1. ASSUME Representable, IInv, IInv', [Next]_vars
      PROVE  [Orphans' # Orphans => pc = "compact" /\ Len(bufs) > 1]_vars
  BY <1>1, LeakStep
<1> QED
  BY <1>1, Inductive, PTL DEF Spec, LeakOnlyByCompaction
=============================================================================
