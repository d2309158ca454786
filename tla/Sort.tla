-------------------------------- MODULE Sort --------------------------------
(***************************************************************************)
(* The four sort functions the macros of cop_sort.h define, each running   *)
(* one iteration of a loop at a time.  A call in progress is an item on a  *)
(* stack: its "op" says where in the function it is, its other fields are  *)
(* the function's arguments and locals.  Several loops keep a copy of an   *)
(* element they have just stored (pv, jv, cv, tmp); the model reads it     *)
(* where it was stored.                                                    *)
(***************************************************************************)
EXTENDS Integers, SequencesExt, FiniteSets

CONSTANTS
  Elems,        \* What arrays hold; the elements of one array differ.
  Rank,         \* The place of each in the order the comparator stands for.
  Ties,         \* The pairs of equal rank the comparator says yes to.
  Junk,         \* What uninitialised scratch space holds.
  Inputs,       \* The arrays a caller may want sorted.
  QuickSmall,   \* The literal 4 of COP_SORT_QUICK.
  QuickMedian,  \* The literal 16 of COP_SORT_QUICK.
  MergeSmall    \* The literal 8 of COP_SORT_MERGE.

\* An array of n elements is a function on 0 .. n - 1.
Size(arr) == Cardinality(DOMAIN arr)
IsInjectiveArray(arr) == \A j, k \in DOMAIN arr : j # k => arr[j] # arr[k]

ASSUME ConstantsOK ==
  /\ Rank \in [Elems -> Nat] /\ Ties \subseteq Elems \X Elems
  /\ Junk \notin Elems
  /\ \A arr \in Inputs :
       /\ Size(arr) \in Nat /\ arr \in [0 .. Size(arr) - 1 -> Elems]
       /\ IsInjectiveArray(arr)
  /\ QuickSmall \in Nat /\ QuickSmall >= 3
  /\ QuickMedian \in Nat
  /\ MergeSmall \in Nat /\ MergeSmall >= 3

\* comparator_macro_: whether x and y are in the correct order (cop_sort.h:49).
\* That leaves it free to say either of two elements that rank the same.
CM(x, y) == Rank[x] < Rank[y] \/ (Rank[x] = Rank[y] /\ <<x, y>> \in Ties)

VARIABLES
  mem,     \* inout at 0 .. n - 1, scratch at n .. 2 * n - 1.
  given,   \* History: the array as it was when the function was called.
  calls    \* The items still to be run, the running one last.

vars == <<mem, given, calls>>

Top == Last(calls)
Replace(items) == calls' = Front(calls) \o items
Continue(item) == Replace(<<item>>)
Return == Replace(<<>>)
Swapped(x, y) == [mem EXCEPT ![x] = mem[y], ![y] = mem[x]]

Insertion(io, n) == [op |-> "insertion", io |-> io, n |-> n, i |-> 1]
Quick(io, n)     == [op |-> "quick", io |-> io, n |-> n]
Merge(io, sc, n) == [op |-> "merge", io |-> io, sc |-> sc, n |-> n]
Heap(n)          == [op |-> "up", n |-> n, i |-> 2, j |-> 1]

Init == mem = <<>> /\ given = <<>> /\ calls = <<>>

\* A caller has an array sorted. Three of the functions want two elements.
Call(arr) ==
  LET n == Size(arr)
  IN  /\ calls = <<>> /\ mem = <<>>
      /\ given' = arr
      /\ mem' = [k \in 0 .. 2 * n - 1 |-> IF k < n THEN arr[k] ELSE Junk]
      /\ calls' \in IF n < 2 THEN {<<Heap(n)>>}
                    ELSE {<<Insertion(0, n)>>, <<Quick(0, n)>>,
                          <<Merge(0, n, n)>>, <<Heap(n)>>}

\* The caller has no more use for the array.
Dispose ==
  /\ calls = <<>> /\ mem # <<>>
  /\ mem' = <<>> /\ given' = <<>>
  /\ UNCHANGED calls

-----------------------------------------------------------------------------
(* COP_SORT_INSERTION, which the small cases of quick and merge repeat.     *)

\* Where the inner loop stops: j is the least index such that the element
\* precedes everything from there on.
Gap(io, i) ==
  CHOOSE j \in 0 .. i :
    /\ \A k \in j .. i - 1 : CM(mem[io + i], mem[io + k])
    /\ j = 0 \/ ~CM(mem[io + i], mem[io + j - 1])

Insert ==
  LET at == Top.io + Gap(Top.io, Top.i)
      from == Top.io + Top.i
  IN  /\ calls # <<>> /\ Top.op = "insertion" /\ Top.i < Top.n
      /\ mem' = [k \in DOMAIN mem |-> IF k = at THEN mem[from]
                                      ELSE IF at < k /\ k <= from THEN mem[k - 1]
                                      ELSE mem[k]]
      /\ Continue([Top EXCEPT !.i = @ + 1])
      /\ UNCHANGED given

InsertDone ==
  /\ calls # <<>> /\ Top.op = "insertion" /\ Top.i >= Top.n
  /\ Return
  /\ UNCHANGED <<mem, given>>

-----------------------------------------------------------------------------
(* COP_SORT_QUICK *)

QuickFew ==
  /\ calls # <<>> /\ Top.op = "quick" /\ Top.n < QuickSmall
  /\ Continue(Insertion(Top.io, Top.n))
  /\ UNCHANGED <<mem, given>>

InOrder(p, q) == IF CM(mem[q], mem[p]) THEN <<q, p>> ELSE <<p, q>>

\* p2 after the three conditional exchanges of p1, p2 and p3.
MiddleOf(first, mid, last) ==
  LET a == InOrder(last, mid)
      b == InOrder(first, a[1])
  IN  InOrder(b[2], a[2])[1]

Pivot ==
  LET last == Top.io + Top.n - 1
      p2 == IF Top.n >= QuickMedian
              THEN MiddleOf(Top.io, Top.io + (Top.n - 1) \div 2, last)
              ELSE last
  IN  /\ calls # <<>> /\ Top.op = "quick" /\ Top.n >= QuickSmall
      /\ mem' = [mem EXCEPT ![p2] = mem[last]]
      /\ Continue([op |-> "partition", io |-> Top.io, n |-> Top.n,
                   start |-> Top.io, end |-> last - 1, pval |-> mem[p2]])
      /\ UNCHANGED given

\* Slip: skips the element that has just been moved to the end.
PartitionSkip ==
  /\ calls # <<>> /\ Top.op = "partition" /\ Top.start < Top.end
  /\ \/ /\ CM(mem[Top.start], Top.pval)
        /\ Continue([Top EXCEPT !.start = @ + 1])
        /\ UNCHANGED mem
     \/ /\ ~CM(mem[Top.start], Top.pval)
        /\ mem' = Swapped(Top.start, Top.end)
        /\ Continue([Top EXCEPT !.start = @ + 1, !.end = @ - 1])
  /\ UNCHANGED given

\* One iteration of the first loop.
Partition ==
  /\ calls # <<>> /\ Top.op = "partition" /\ Top.start < Top.end
  /\ \/ /\ CM(mem[Top.start], Top.pval)
        /\ Continue([Top EXCEPT !.start = @ + 1])
        /\ UNCHANGED mem
     \/ /\ ~CM(mem[Top.start], Top.pval) /\ CM(mem[Top.end], Top.pval)
        /\ mem' = Swapped(Top.start, Top.end)
        /\ Continue([Top EXCEPT !.start = @ + 1, !.end = @ - 1])
     \/ /\ ~CM(mem[Top.start], Top.pval) /\ ~CM(mem[Top.end], Top.pval)
        /\ Continue([Top EXCEPT !.end = @ - 1])
        /\ UNCHANGED mem
  /\ UNCHANGED given

\* The condition of the second loop, which tests what the first did not.
Scans ==
  Top.start < Top.io + Top.n - 1 /\ CM(mem[Top.start], Top.pval)

Scan ==
  /\ calls # <<>> /\ Top.op = "partition" /\ Top.start >= Top.end
  /\ Scans
  /\ Continue([Top EXCEPT !.start = @ + 1])
  /\ UNCHANGED <<mem, given>>

\* Slip: also calls itself for a part of one element.
PlaceOne ==
  LET last == Top.io + Top.n - 1
      left == Top.start - Top.io
      right == last - Top.start
  IN  /\ calls # <<>> /\ Top.op = "partition" /\ Top.start >= Top.end
      /\ ~Scans
      /\ mem' = [mem EXCEPT ![last] = mem[Top.start], ![Top.start] = Top.pval]
      /\ Replace((IF right > 0 THEN <<Quick(Top.start + 1, right)>> ELSE <<>>)
                 \o (IF left > 1 THEN <<Quick(Top.io, left)>> ELSE <<>>))
      /\ UNCHANGED given

\* The pivot goes between the parts, which the two recursive calls sort.
Place ==
  LET last == Top.io + Top.n - 1
      left == Top.start - Top.io
      right == last - Top.start
  IN  /\ calls # <<>> /\ Top.op = "partition" /\ Top.start >= Top.end
      /\ ~Scans
      /\ mem' = [mem EXCEPT ![last] = mem[Top.start], ![Top.start] = Top.pval]
      /\ Replace((IF right > 1 THEN <<Quick(Top.start + 1, right)>> ELSE <<>>)
                 \o (IF left > 1 THEN <<Quick(Top.io, left)>> ELSE <<>>))
      /\ UNCHANGED given

-----------------------------------------------------------------------------
(* COP_SORT_MERGE *)

MergeFew ==
  /\ calls # <<>> /\ Top.op = "merge" /\ Top.n <= MergeSmall
  /\ Continue(Insertion(Top.io, Top.n))
  /\ UNCHANGED <<mem, given>>

\* The elements are copied to the scratch space, where each half is sorted with
\* the array as its scratch space.
Split ==
  LET l1 == Top.n \div 2
      l2 == Top.n - l1
  IN  /\ calls # <<>> /\ Top.op = "merge" /\ Top.n > MergeSmall
      /\ mem' = [k \in DOMAIN mem |->
                  IF Top.sc <= k /\ k < Top.sc + Top.n
                    THEN mem[Top.io + k - Top.sc] ELSE mem[k]]
      /\ Replace(<<[op |-> "merging", io |-> Top.io, n |-> Top.n,
                    out |-> Top.io, p1 |-> Top.sc, l1 |-> l1,
                    p2 |-> Top.sc + l1, l2 |-> l2],
                   Merge(Top.sc + l1, Top.io, l2),
                   Merge(Top.sc, Top.io, l1)>>)
      /\ UNCHANGED given

\* Slip: the first half is written out before the second.
FirstWhileAny == Top.l1 > 0

\* Which half the next element comes from: the one left, or the comparator's.
FirstIsNext ==
  Top.l1 > 0 /\ (Top.l2 > 0 => CM(mem[Top.p1], mem[Top.p2]))

TakeFirst ==
  /\ calls # <<>> /\ Top.op = "merging"
  /\ FirstIsNext
  /\ mem' = [mem EXCEPT ![Top.out] = mem[Top.p1]]
  /\ Continue([Top EXCEPT !.out = @ + 1, !.p1 = @ + 1, !.l1 = @ - 1])
  /\ UNCHANGED given

TakeSecond ==
  /\ calls # <<>> /\ Top.op = "merging"
  /\ Top.l2 > 0 /\ ~FirstIsNext
  /\ mem' = [mem EXCEPT ![Top.out] = mem[Top.p2]]
  /\ Continue([Top EXCEPT !.out = @ + 1, !.p2 = @ + 1, !.l2 = @ - 1])
  /\ UNCHANGED given

MergeDone ==
  /\ calls # <<>> /\ Top.op = "merging" /\ Top.l1 = 0 /\ Top.l2 = 0
  /\ Return
  /\ UNCHANGED <<mem, given>>

-----------------------------------------------------------------------------
(* COP_SORT_HEAP *)

Parent(j) == ((j + 1) \div 2) - 1

Rises == Top.j > 0 /\ ~CM(mem[Top.j], mem[Parent(Top.j)])

\* The inner loop of the first: element j goes up while it is not in order.
SiftUp ==
  /\ calls # <<>> /\ Top.op = "up" /\ Top.i <= Top.n /\ Rises
  /\ mem' = Swapped(Top.j, Parent(Top.j))
  /\ Continue([Top EXCEPT !.j = Parent(@)])
  /\ UNCHANGED given

NextUp ==
  /\ calls # <<>> /\ Top.op = "up" /\ Top.i <= Top.n /\ ~Rises
  /\ Continue([Top EXCEPT !.i = @ + 1, !.j = Top.i])
  /\ UNCHANGED <<mem, given>>

Heaped ==
  /\ calls # <<>> /\ Top.op = "up" /\ Top.i > Top.n
  /\ Continue([op |-> "take", n |-> Top.n, i |-> 1])
  /\ UNCHANGED <<mem, given>>

\* The second loop: the largest element goes behind the heap ...
Take ==
  /\ calls # <<>> /\ Top.op = "take" /\ Top.i < Top.n
  /\ mem' = Swapped(Top.n - Top.i, 0)
  /\ Continue([op |-> "down", n |-> Top.n, i |-> Top.i, p |-> 0])
  /\ UNCHANGED given

HeapSize == Top.n - Top.i

\* The child of p that may have to go up.
Child(p) ==
  LET c == 2 * p + 1
  IN  IF c + 1 < HeapSize /\ ~CM(mem[c + 1], mem[c]) THEN c + 1 ELSE c

Sinks == 2 * Top.p + 1 < HeapSize /\ ~CM(mem[Child(Top.p)], mem[Top.p])

\* ... and the element that took its place goes down.
SiftDown ==
  /\ calls # <<>> /\ Top.op = "down" /\ Sinks
  /\ mem' = Swapped(Child(Top.p), Top.p)
  /\ Continue([Top EXCEPT !.p = Child(@)])
  /\ UNCHANGED given

\* Slip: i is not advanced.
NextTakeSame ==
  /\ calls # <<>> /\ Top.op = "down" /\ ~Sinks
  /\ Continue([op |-> "take", n |-> Top.n, i |-> Top.i])
  /\ UNCHANGED <<mem, given>>

NextTake ==
  /\ calls # <<>> /\ Top.op = "down" /\ ~Sinks
  /\ Continue([op |-> "take", n |-> Top.n, i |-> Top.i + 1])
  /\ UNCHANGED <<mem, given>>

HeapDone ==
  /\ calls # <<>> /\ Top.op = "take" /\ Top.i >= Top.n
  /\ Return
  /\ UNCHANGED <<mem, given>>

-----------------------------------------------------------------------------
Running ==
  \/ Insert \/ InsertDone
  \/ QuickFew \/ Pivot \/ Partition \/ Scan \/ Place
  \/ MergeFew \/ Split \/ TakeFirst \/ TakeSecond \/ MergeDone
  \/ SiftUp \/ NextUp \/ Heaped \/ Take \/ SiftDown \/ NextTake \/ HeapDone

Next == (\E arr \in Inputs : Call(arr)) \/ Dispose \/ Running

Spec == Init /\ [][Next]_vars

\* A sort function that was called is run until it returns.
FairSpec == Spec /\ WF_vars(Running)

-----------------------------------------------------------------------------
(* What an array is while it is being sorted, and when it is.               *)

N == Size(given)
Sorted(lo, hi) == \A j, k \in lo .. hi : j < k => Rank[mem[j]] <= Rank[mem[k]]

Within(c) ==
  CASE c.op = "insertion" -> c.i \in 1 .. c.n /\ c.io + c.n <= 2 * N
    [] c.op = "quick"     -> c.io + c.n <= N
    [] c.op = "partition" -> /\ c.io <= c.start /\ c.io <= c.end + 1
                             /\ c.start < c.io + c.n /\ c.end < c.io + c.n
    [] c.op = "merge"     -> c.io + c.n <= 2 * N /\ c.sc + c.n <= 2 * N
    [] c.op = "merging"   -> /\ c.out + c.l1 + c.l2 = c.io + c.n
                             /\ c.p1 + c.l1 <= 2 * N /\ c.p2 + c.l2 <= 2 * N
    [] c.op = "up"        -> c.j < c.i /\ c.n = N
    [] c.op = "take"      -> c.i >= 1 /\ c.n = N
    [] c.op = "down"      -> c.i \in 1 .. N - 1 /\ c.p < N

\* Every index a function holds is inside the array it was given, or at its end.
TypeOK ==
  /\ \A k \in DOMAIN mem : k \in 0 .. 2 * N - 1 /\ mem[k] \in Elems \cup {Junk}
  /\ \A c \in DOMAIN calls : Within(calls[c])

\* The assertions of the macros (lines 66, 85, 109 and 138): no recursion calls
\* a function with fewer elements than it can sort.
AssertionsHold ==
  \A c \in DOMAIN calls :
    /\ calls[c].op \in {"insertion", "quick", "merge"} => calls[c].n >= 2
    /\ calls[c].op = "partition" => calls[c].n > 2

\* When a function has returned the array holds the elements it was given, each
\* of them once, in the order the comparator stands for, whatever the comparator
\* says of elements that rank the same and whatever the scratch space held.
SortsOnReturn ==
  calls = <<>> /\ mem # <<>> =>
    /\ {mem[k] : k \in 0 .. N - 1} = {given[k] : k \in 0 .. N - 1}
    /\ Sorted(0, N - 1)

\* The elements an item still has to put in order.
Region(c) ==
  CASE c.op = "up"   -> 0 .. c.n - 1
    [] c.op = "take" -> 0 .. c.n - c.i
    [] c.op = "down" -> 0 .. c.n - c.i - 1
    [] OTHER         -> c.io .. c.io + c.n - 1

\* Two elements that no pending item of a sort will exchange are in their order:
\* what quick sort has partitioned, and what heap sort has taken off its heap.
Separated ==
  mem # <<>> => \A j, k \in 0 .. N - 1 :
    \/ j >= k
    \/ Rank[mem[j]] <= Rank[mem[k]]
    \/ \E c \in DOMAIN calls : {j, k} \subseteq Region(calls[c])

Runs(op) == calls # <<>> /\ Top.op = op

InsertionInv == Runs("insertion") => Sorted(Top.io, Top.io + Top.i - 1)

\* Below start nothing ranks above the pivot, beyond end nothing below it.
PartitionInv ==
  Runs("partition") =>
    LET last == Top.io + Top.n - 1 IN
    /\ \A k \in Top.io .. Top.start - 1 : Rank[mem[k]] <= Rank[Top.pval]
    /\ \A k \in Top.end + 1 .. last - 1 : Rank[mem[k]] >= Rank[Top.pval]

\* Both halves are sorted, and so is what was merged, which precedes the rest.
MergingInv ==
  Runs("merging") =>
    LET rest == (Top.p1 .. Top.p1 + Top.l1 - 1) \cup (Top.p2 .. Top.p2 + Top.l2 - 1)
    IN  /\ Sorted(Top.p1, Top.p1 + Top.l1 - 1) /\ Sorted(Top.p2, Top.p2 + Top.l2 - 1)
        /\ Sorted(Top.io, Top.out - 1)
        /\ \A j \in Top.io .. Top.out - 1, k \in rest : Rank[mem[j]] <= Rank[mem[k]]

\* No element of the heap ranks above its parent, but for the one on its way up
\* or down; and that one is between the elements around it.
HeapInv ==
  /\ Runs("up") =>
       \A k \in 1 .. (IF Top.i < Top.n THEN Top.i ELSE Top.n) - 1 :
         /\ k # Top.j => Rank[mem[k]] <= Rank[mem[Parent(k)]]
         /\ Parent(k) = Top.j /\ Top.j > 0 =>
              Rank[mem[k]] <= Rank[mem[Parent(Top.j)]]
  /\ Runs("take") =>
       \A k \in 1 .. Top.n - Top.i : Rank[mem[k]] <= Rank[mem[Parent(k)]]
  /\ Runs("down") =>
       \A k \in 1 .. HeapSize - 1 :
         /\ Parent(k) # Top.p => Rank[mem[k]] <= Rank[mem[Parent(k)]]
         /\ Parent(k) = Top.p /\ Top.p > 0 =>
              Rank[mem[k]] <= Rank[mem[Parent(Top.p)]]

\* What every loop keeps, and what the calls of a recursion leave each other.
LoopInv ==
  TypeOK /\ Separated /\ InsertionInv /\ PartitionInv /\ MergingInv /\ HeapInv

\* Every call returns: each loop and each recursion comes to an end.
CallsReturn == (calls # <<>>) ~> (calls = <<>>)
=============================================================================
