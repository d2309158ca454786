------------------------------ MODULE GrpTemps ------------------------------
(***************************************************************************)
(* The group temporaries allocator of libcop/cop_alloc.c: a chain of       *)
(* malloc'd buffers that grows by pushing a buffer and shrinks when the    *)
(* client restores a saved position.  The calls whose loops free and       *)
(* malloc (restore, free) take one step per iteration; every other call    *)
(* is one action.  The allocator is not thread-safe (cop_alloc.h:52), so   *)
(* one call is in progress at a time.                                      *)
(***************************************************************************)
EXTENDS AllocCommon, Sequences, SequencesExt

CONSTANTS
  BufIds,         \* Identities malloc hands out.
  Bases,          \* Addresses the first user byte of a buffer may have.
  Sizes, Aligns,  \* The arguments of alloc; align 0 asks for the default.
  InitialSizes, MaxGrows, DefaultAligns,  \* The arguments of init.
  PageSizes,      \* What cop_memory_query_page_size may return, 0 on error.
  FallbackSize,   \* The literal 1024 of init.
  FallbackAlign,  \* The literal 16 of init.
  HDR,            \* sizeof(struct cop_alloc_grp_temps_buf).
  MaxHeap,        \* Bytes the heap can hold; malloc fails beyond it.
  MaxLive, MaxMarks  \* Bounds on the client: live blocks, nested saves.

ASSUME ConstantsOK ==
  /\ Bases \subseteq Nat /\ Sizes \subseteq Nat /\ InitialSizes \subseteq Nat
  /\ MaxGrows \subseteq Nat /\ PageSizes \subseteq Nat
  /\ Aligns \subseteq PowersOfTwo \cup {0}
  /\ DefaultAligns \subseteq PowersOfTwo \cup {0}
  /\ FallbackSize \in Nat \ {0} /\ FallbackAlign \in PowersOfTwo
  /\ HDR \in Nat /\ MaxHeap \in Nat
  /\ MaxLive \in Nat /\ MaxMarks \in Nat

\* No request is so large that a sum of alloc or init leaves size_t.  The
\* code does not check this: it is a hypothesis of every theorem, and TLC
\* evaluates it on every instance.
Representable ==
  /\ HDR + 2 * MaxHeap <= SIZE_MAX
  /\ \A sz \in Sizes, al \in Aligns \cup DefaultAligns \cup {FallbackAlign} :
       HDR + MaxHeap + sz + al <= SIZE_MAX
  /\ \A sz \in InitialSizes \cup PageSizes \cup {FallbackSize} :
       HDR + sz <= SIZE_MAX

VARIABLES
  bufs,           \* The chain of buffers, head last.
  pre_head_size, max_grow, default_align,   \* struct cop_alloc_grp_temps.
  heap,           \* Identities malloc'd and not yet freed.
  pc,             \* "none": not initialised; "idle": no call in progress; else
                  \* the loop or branch of restore or free to run next.
  s, total_size, deallocate,                \* Locals of restore.
  live,           \* Blocks the client may still use, oldest first.
  marks,          \* Outstanding saves: the value returned, the blocks then live.
  ret             \* What the last call returned.

alloc_vars  == <<bufs, pre_head_size, heap>>
conf_vars   == <<max_grow, default_align>>
local_vars  == <<s, total_size, deallocate>>
client_vars == <<live, marks, ret>>
vars == <<alloc_vars, conf_vars, pc, local_vars, client_vars>>

head == bufs[Len(bufs)]

\* The chain q with x bytes of its head in use.
WithUsed(q, x) == [q EXCEPT ![Len(q)].size = x]

\* Slip: the padding aligns the offset in the buffer instead of the address.
StartByOffset(b, align) == b.size + AlignOffset(b.size, align)

\* Where a buffer would put its next block.
Start(b, align) == b.size + AlignOffset(b.base + b.size, align)

\* Slip: the buffers before the head are forgotten.
TotalSizeHeadOnly == head.size

\* The bytes in use, which is also what save returns.
TotalSize == pre_head_size + head.size

\* malloc(bytes) may return id: it is free and the heap has room.
MallocOK(id, bytes) ==
  /\ id \in BufIds \ heap
  /\ (IF bufs = <<>> THEN 0 ELSE TotalSize) + bytes <= MaxHeap

\* A fresh buffer. bytes is what malloc was asked for; below, a history
\* variable, is pre_head_size as it was when the buffer was pushed.
Buf(id, base, alloc_sz, below) ==
  [id |-> id, base |-> base, alloc_sz |-> alloc_sz, size |-> 0,
   bytes |-> Wrap(HDR + alloc_sz), below |-> below]

\* A block as its client knows it: a buffer, a range in it, its alignment;
\* pos, a history variable, is the value save would have had at its first byte.
Block(b, start, size, align) ==
  [seg |-> b.id, off |-> start, size |-> size, align |-> align,
   addr |-> b.base + start, pos |-> b.below + start]

Init ==
  /\ bufs = <<>> /\ pre_head_size = 0 /\ heap = {}
  /\ max_grow = 0 /\ default_align = 0
  /\ pc = "none"
  /\ s = 0 /\ total_size = 0 /\ deallocate = 0
  /\ live = <<>> /\ marks = <<>> /\ ret = "void"

OrElse(x, default) == IF x # 0 THEN x ELSE default

\* cop_alloc_grp_temps_init
GrpInit(id, base, initial_arg, grow_arg, align_arg, page) ==
  LET initial_sz == OrElse(OrElse(initial_arg, page), FallbackSize)
      b == Buf(id, base, initial_sz, 0)
  IN  /\ pc = "none"
      /\ MallocOK(id, b.bytes)
      /\ bufs' = <<b>>
      /\ heap' = heap \cup {id}
      /\ max_grow' = OrElse(grow_arg, Wrap(initial_sz * 2))
      /\ default_align' = OrElse(align_arg, FallbackAlign)
      /\ pre_head_size' = 0
      /\ pc' = "idle" /\ ret' = "void"
      /\ UNCHANGED <<local_vars, live, marks>>

\* ... when its malloc returns NULL.
GrpInitFail ==
  /\ pc = "none"
  /\ ret' = "null"
  /\ UNCHANGED <<alloc_vars, conf_vars, pc, local_vars, live, marks>>

EffAlign(align) == OrElse(align, default_align)

\* The first test of alloc: the head has no room for the request.
NeedsBuffer(size, align) ==
  Wrap(Wrap(Start(head, align)) + size) > head.alloc_sz

\* The capacity alloc gives to the buffer it pushes.
ActualAlloc(size, align) ==
  LET min_alloc == Wrap(size + align - 1)
      doubled   == Wrap(head.size * 2)
      capped    == IF doubled > max_grow THEN max_grow ELSE doubled
  IN  IF capped < min_alloc THEN min_alloc ELSE capped

Calling == pc = "idle" /\ Len(live) < MaxLive

\* Slip: the padding before the block is not added to the used size.
AllocFromHeadNoPad(size, align_arg) ==
  LET start == Wrap(Start(head, EffAlign(align_arg)))
  IN  /\ Calling
      /\ ~NeedsBuffer(size, EffAlign(align_arg))
      /\ bufs' = WithUsed(bufs, head.size + size)
      /\ live' = Append(live, Block(head, start, size, EffAlign(align_arg)))
      /\ ret' = "block"
      /\ UNCHANGED <<pre_head_size, heap, conf_vars, pc, local_vars, marks>>

\* alloc_grp_temps, when the head has room.
AllocFromHead(size, align_arg) ==
  LET align == EffAlign(align_arg)
      start == Wrap(Start(head, align))
  IN  /\ Calling
      /\ ~NeedsBuffer(size, align)
      /\ bufs' = WithUsed(bufs, Wrap(start + size))
      /\ live' = Append(live, Block(head, start, size, align))
      /\ ret' = "block"
      /\ UNCHANGED <<pre_head_size, heap, conf_vars, pc, local_vars, marks>>

\* alloc_grp_temps, when a buffer has to be pushed and malloc provides it.
AllocGrow(size, align_arg, id, base) ==
  LET align == EffAlign(align_arg)
      nb    == Buf(id, base, ActualAlloc(size, align), Wrap(TotalSize))
      start == AlignOffset(base, align)
  IN  /\ Calling
      /\ NeedsBuffer(size, align)
      /\ MallocOK(id, nb.bytes)
      /\ heap' = heap \cup {id}
      /\ pre_head_size' = Wrap(TotalSize)
      /\ bufs' = Append(bufs, [nb EXCEPT !.size = Wrap(start + size)])
      /\ live' = Append(live, Block(nb, start, size, align))
      /\ ret' = "block"
      /\ UNCHANGED <<conf_vars, pc, local_vars, marks>>

\* Slip: the padding of the request that failed stays counted.
AllocFailPadded(size, align_arg) ==
  /\ Calling
  /\ NeedsBuffer(size, EffAlign(align_arg))
  /\ bufs' = WithUsed(bufs, Start(head, EffAlign(align_arg)))
  /\ ret' = "null"
  /\ UNCHANGED <<pre_head_size, heap, conf_vars, pc, local_vars, live, marks>>

\* alloc_grp_temps, when a buffer is needed and malloc returns NULL.
AllocFail(size, align_arg) ==
  /\ Calling
  /\ NeedsBuffer(size, EffAlign(align_arg))
  /\ ret' = "null"
  /\ UNCHANGED <<alloc_vars, conf_vars, pc, local_vars, live, marks>>

\* cop_alloc_grp_temps_save
Save ==
  /\ pc = "idle"
  /\ Len(marks) < MaxMarks
  /\ marks' = Append(marks, [tok |-> Wrap(TotalSize), n |-> Len(live)])
  /\ ret' = "void"
  /\ UNCHANGED <<alloc_vars, conf_vars, pc, local_vars, live>>

\* cop_alloc_grp_temps_restore, entered with the value of save number m.  The
\* client gives up what it allocated, and every save it made, after that save.
RestoreBegin(m) ==
  /\ pc = "idle"
  /\ s' = marks[m].tok
  /\ total_size' = Wrap(TotalSize)
  /\ deallocate' = Wrap(TotalSize) - marks[m].tok
  /\ pc' = "pop"
  /\ live' = SubSeq(live, 1, marks[m].n)
  /\ marks' = SubSeq(marks, 1, m)
  /\ ret' = "void"
  /\ UNCHANGED <<alloc_vars, conf_vars>>

\* Slip: the loop also pops a buffer that deallocate exactly empties.
PopsExact == deallocate >= head.size

\* The condition of its loop: the whole head was allocated after the save.
Pops == deallocate > head.size

\* Slip: the popped buffer's size is taken off pre_head_size, not the new head's.
PopBufOldSize ==
  /\ pc = "pop" /\ Pops
  /\ bufs' = Front(bufs)
  /\ deallocate' = deallocate - head.size
  /\ heap' = heap \ {head.id}
  /\ pre_head_size' = pre_head_size - head.size
  /\ UNCHANGED <<conf_vars, pc, s, total_size, client_vars>>

\* ... one iteration of its loop; popping the last buffer breaks out of it.
PopBuf ==
  /\ pc = "pop"
  /\ Pops
  /\ bufs' = Front(bufs)
  /\ deallocate' = deallocate - head.size
  /\ heap' = heap \ {head.id}
  /\ IF Len(bufs) = 1
     THEN pc' = "lost" /\ UNCHANGED pre_head_size
     ELSE pc' = pc /\ pre_head_size' = pre_head_size - bufs[Len(bufs) - 1].size
  /\ UNCHANGED <<conf_vars, s, total_size, client_vars>>

\* ... the end of the loop and the trim of the buffer it stopped at.
Trim ==
  /\ pc = "pop"
  /\ ~Pops
  /\ bufs' = WithUsed(bufs, head.size - deallocate)
  /\ pc' = "compact"
  /\ UNCHANGED <<pre_head_size, heap, conf_vars, local_vars, client_vars>>

\* Slip: only pre_head_size is looked at, not what is left in the head.
CompactableInUse == pre_head_size = 0 /\ total_size > head.alloc_sz

\* The condition under which restore replaces the head by a larger buffer.
Compactable ==
  pre_head_size = 0 /\ head.size = 0 /\ total_size > head.alloc_sz

\* restore returns; its locals are no more.
Return == pc' = "idle" /\ s' = 0 /\ total_size' = 0 /\ deallocate' = 0

CompactSkip ==
  /\ pc = "compact"
  /\ ~Compactable
  /\ Return
  /\ UNCHANGED <<alloc_vars, conf_vars, client_vars>>

\* ... replacing it: the new buffer is the whole chain.
CompactReplace(id, base) ==
  LET nb == Buf(id, base, total_size, 0)
  IN  /\ pc = "compact"
      /\ Compactable
      /\ MallocOK(id, nb.bytes)
      /\ bufs' = <<nb>>
      /\ heap' = (heap \cup {id}) \ {head.id}
      /\ Return
      /\ UNCHANGED <<pre_head_size, conf_vars, client_vars>>

\* Slip: the old head is not put back.
CompactFailNoHead ==
  /\ pc = "compact" /\ Compactable
  /\ Return
  /\ bufs' = <<>>
  /\ UNCHANGED <<pre_head_size, heap, conf_vars, client_vars>>

\* ... and keeping the old head when malloc returns NULL.
CompactFail ==
  /\ pc = "compact"
  /\ Compactable
  /\ Return
  /\ UNCHANGED <<alloc_vars, conf_vars, client_vars>>

\* cop_alloc_grp_temps_free: the client gives up everything ...
FreeBegin ==
  /\ pc = "idle"
  /\ pc' = "free"
  /\ live' = <<>> /\ marks' = <<>> /\ ret' = "void"
  /\ UNCHANGED <<alloc_vars, conf_vars, local_vars>>

\* Slip: the head is not advanced.
FreeBufSameHead ==
  /\ pc = "free" /\ bufs # <<>>
  /\ heap' = heap \ {head.id}
  /\ UNCHANGED <<bufs, pre_head_size, conf_vars, pc, local_vars, client_vars>>

\* ... one iteration of its loop ...
FreeBuf ==
  /\ pc = "free"
  /\ bufs # <<>>
  /\ bufs' = Front(bufs)
  /\ heap' = heap \ {head.id}
  /\ UNCHANGED <<pre_head_size, conf_vars, pc, local_vars, client_vars>>

\* ... and its return: the allocator may be initialised again.
FreeDone ==
  /\ pc = "free"
  /\ bufs = <<>>
  /\ pc' = "none"
  /\ UNCHANGED <<alloc_vars, conf_vars, local_vars, client_vars>>

\* A step of a call in progress.
Running ==
  \/ PopBuf \/ Trim
  \/ CompactSkip \/ CompactFail
  \/ \E id \in BufIds, base \in Bases : CompactReplace(id, base)
  \/ FreeBuf \/ FreeDone

Next ==
  \/ \E id \in BufIds, base \in Bases, i \in InitialSizes, g \in MaxGrows,
        a \in DefaultAligns, p \in PageSizes : GrpInit(id, base, i, g, a, p)
  \/ GrpInitFail
  \/ \E sz \in Sizes, a \in Aligns :
       \/ AllocFromHead(sz, a)
       \/ AllocFail(sz, a)
       \/ \E id \in BufIds, base \in Bases : AllocGrow(sz, a, id, base)
  \/ Save
  \/ \E m \in DOMAIN marks : RestoreBegin(m)
  \/ FreeBegin
  \/ Running

\* A call that has started keeps running; the client need not call again.
Spec == Init /\ [][Next]_vars /\ WF_vars(Running)

-----------------------------------------------------------------------------
(* What the chain, the client's blocks and its saves may be. *)

Buffers == [id : BufIds, base : Nat, alloc_sz : Nat, size : Nat,
            bytes : Nat, below : Nat]
Blocks  == [seg : BufIds, off : Nat, size : Nat, align : Nat \ {0},
            addr : Nat, pos : Nat]

TypeOK ==
  /\ bufs \in Seq(Buffers)
  /\ pc \notin {"none", "free", "lost"} => bufs # <<>>
  /\ pre_head_size \in Nat /\ max_grow \in Nat /\ default_align \in Nat
  /\ pc \in {"none", "free"} \/ default_align > 0
  /\ heap \subseteq BufIds
  /\ pc \in {"none", "idle", "pop", "lost", "compact", "free"}
  /\ s \in Nat /\ total_size \in Nat /\ deallocate \in Nat
  /\ live \in Seq(Blocks) /\ marks \in Seq(Marks)
  /\ ret \in {"void", "null", "block"}

\* Every block the client may use lies in the used part of a buffer of the
\* chain that malloc really made that large and nobody has freed: no sequence
\* of allocations, restores and compactions takes the memory from under it.
\* (A block of size zero owns no memory and may outlive its buffer.)
Backed(b) ==
  \E i \in DOMAIN bufs :
    /\ bufs[i].id = b.seg /\ b.seg \in heap
    /\ b.addr = bufs[i].base + b.off
    /\ b.off + b.size <= bufs[i].size
    /\ HDR + bufs[i].size <= bufs[i].bytes
BlocksBacked == \A k \in DOMAIN live : live[k].size > 0 => Backed(live[k])

\* No two blocks share a byte, whatever was restored between their allocations.
SA == INSTANCE SAlloc WITH marks <- [k \in DOMAIN marks |-> marks[k].n]
LiveDisjoint ==
  \A j, k \in DOMAIN live : j # k => SA!Disjoint(live[j], live[k])

\* A block lies on the boundary its request named (cop_alloc.h:56-58), wherever
\* malloc put the buffer and however much of it was used.
BlocksAligned == \A k \in DOMAIN live : live[k].addr % live[k].align = 0

\* pre_head_size is the "sum of size members of all buffers before head"
\* (cop_alloc.h:140) at every iteration of restore's loop as well.
SumSizes(sq) ==
  LET sum[n \in 0 .. Len(sq)] == IF n = 0 THEN 0 ELSE sum[n - 1] + sq[n].size
  IN  sum[Len(sq)]
Accounting ==
  pc \in {"idle", "pop", "compact"} => pre_head_size = SumSizes(Front(bufs))

\* The assertions of restore: a saved position is never beyond what is used
\* (line 234), the loop never runs out of buffers (line 242, after which line
\* 253 would read through NULL), and restore ends where save was (line 265).
AssertionsHold ==
  /\ pc = "idle" => \A m \in DOMAIN marks : marks[m].tok <= Wrap(TotalSize)
  /\ pc # "lost"
  /\ pc = "compact" => Wrap(TotalSize) = s

\* What a save returned still separates what was allocated before it from what
\* was allocated after it, across pushes, pops and compactions: restoring to it
\* can neither free an older block nor keep a newer one in use.
MarksSeparate ==
  \A m \in DOMAIN marks : \A k \in DOMAIN live :
    IF k <= marks[m].n THEN live[k].pos + live[k].size <= marks[m].tok
                       ELSE live[k].pos >= marks[m].tok

Active == pc \in {"idle", "pop", "compact"}

\* The chain: each buffer starts, in the coordinates of save, where the one
\* before it ends; what malloc gave each of them covers what it holds.
ChainInv ==
  /\ \A i \in DOMAIN bufs :
       /\ bufs[i].id \in heap
       /\ bufs[i].size <= bufs[i].alloc_sz
       /\ bufs[i].bytes = HDR + bufs[i].alloc_sz
       /\ bufs[i].below + bufs[i].bytes <= MaxHeap
  /\ \A i, j \in DOMAIN bufs : i # j => bufs[i].id # bufs[j].id
  /\ \A i, j \in DOMAIN bufs :
       i < j => bufs[i].below + bufs[i].size <= bufs[j].below
  /\ pc = "none" => bufs = <<>>
  /\ Active =>
       /\ bufs[1].below = 0
       /\ \A i \in 1 .. Len(bufs) - 1 :
            bufs[i].below + bufs[i].size = bufs[i + 1].below
       /\ pre_head_size = head.below
       /\ default_align \in DefaultAligns \cup {FallbackAlign}

\* Where restore stands between its beginning and its end.
RestoreInv ==
  /\ pc # "lost"
  /\ pc \in {"pop", "compact"} => total_size <= MaxHeap
  /\ pc = "pop" => s + deallocate = TotalSize
  /\ pc = "compact" => s = TotalSize

\* What the client holds ends where the allocator will stand once the restore
\* in progress, if any, is over.
Limit == IF pc = "idle" THEN TotalSize ELSE s

HeldIn(b, buf) ==
  /\ b.seg = buf.id
  /\ b.addr = buf.base + b.off
  /\ b.pos = buf.below + b.off
  /\ b.off + b.size <= buf.size

ClientInv ==
  /\ ~Active => live = <<>> /\ marks = <<>>
  /\ \A k \in DOMAIN live :
       /\ live[k].pos + live[k].size <= Limit
       /\ live[k].size > 0 => \E i \in DOMAIN bufs : HeldIn(live[k], bufs[i])
  /\ \A j, k \in DOMAIN live :
       j < k => live[j].pos + live[j].size <= live[k].pos
  /\ \A m \in DOMAIN marks : marks[m].tok <= Limit /\ marks[m].n <= Len(live)
  /\ \A l, m \in DOMAIN marks :
       l < m => marks[l].tok <= marks[m].tok /\ marks[l].n <= marks[m].n
  /\ MarksSeparate

\* Where the n-th block ends, in the coordinate save reports.
EndOf(n) == IF n = 0 THEN 0 ELSE live[n].pos + live[n].size

\* Nothing is stranded: what the allocator counts as used ends where the last of
\* the client's blocks ends (or, during restore, will do so again), whatever was
\* restored, compacted or refused before, and every save stands where the last
\* block before it ended.  So a restore gives back each byte handed out since
\* its save, however many buffers those are in (lines 236-251), and a request
\* that failed leaves no padding behind (lines 210-212).
UsedIsHeld ==
  /\ Active => Limit = EndOf(Len(live))
  /\ \A m \in DOMAIN marks : marks[m].tok = EndOf(marks[m].n)

\* The inductive invariant the safety theorems rest on: the buffers tile the
\* range 0 .. TotalSize, and blocks and saves are ordered within that range.
IInv == TypeOK /\ ChainInv /\ RestoreInv /\ ClientInv

\* Buffers that were malloc'd but can no longer be reached through prev.
Orphans == heap \ {bufs[i].id : i \in DOMAIN bufs}

\* Only the compaction of a chain of several buffers drops one without freeing
\* it: no other call, and no failed one, leaks.
LeakOnlyByCompaction ==
  [][Orphans' # Orphans => pc = "compact" /\ Len(bufs) > 1]_vars

\* "Free all memory associated with a group allocator" (cop_alloc.h:111).
FreeReleasesAll == pc = "none" => heap = {}

\* Every call returns, restore and free whatever the length of the chain.
CallsReturn == pc \notin {"none", "idle"} ~> pc \in {"none", "idle"}

\* The chain of buffers behaves as the stack allocator cop_alloc.h describes.
Implements == SA!Spec
=============================================================================
