----------------------------- MODULE SortProofs -----------------------------
(***************************************************************************)
(* Proofs about Sort, for any arrays, any order with ties, any answers of  *)
(* the comparator between elements that rank the same, and any sizes at    *)
(* which quick and merge sort change their method: the assertions of the   *)
(* macros hold, every loop and recursion keeps its invariant, and whoever  *)
(* returns has sorted what was given.                                      *)
(***************************************************************************)
EXTENDS Sort, FiniteSetTheorems, WellFoundedInduction, TLAPS

-----------------------------------------------------------------------------
(* The items of the stack, by where in the functions they are.             *)

InsertionItems == [op : {"insertion"}, io : Nat, n : Nat, i : Nat]
QuickItems     == [op : {"quick"}, io : Nat, n : Nat]
PartitionItems == [op : {"partition"}, io : Nat, n : Nat, start : Nat, end : Nat,
                   pval : Elems]
MergeItems     == [op : {"merge"}, io : Nat, sc : Nat, n : Nat]
MergingItems   == [op : {"merging"}, io : Nat, n : Nat, out : Nat, p1 : Nat, l1 : Nat,
                   p2 : Nat, l2 : Nat]
UpItems        == [op : {"up"}, n : Nat, i : Nat, j : Nat]
TakeItems      == [op : {"take"}, n : Nat, i : Nat]
DownItems      == [op : {"down"}, n : Nat, i : Nat, p : Nat]

Items == InsertionItems \cup QuickItems \cup PartitionItems \cup MergeItems
           \cup MergingItems \cup UpItems \cup TakeItems \cup DownItems

Depth == Len(calls)
Cells == 0 .. 2 * N - 1

\* Where the result of an item goes, and what is left of the halves it merges.
Target(c) == c.io .. c.io + c.n - 1
First(c)  == c.p1 .. c.p1 + c.l1 - 1
Second(c) == c.p2 .. c.p2 + c.l2 - 1

\* How the locals of an item lie to one another and to the array.
ItemOK(c) ==
  /\ c.op = "insertion" => c.n >= 2 /\ c.i \in 1 .. c.n /\ c.io + c.n <= 2 * N
  /\ c.op = "quick" => c.n >= 2 /\ c.io + c.n <= N
  /\ c.op = "partition" => /\ c.n > 2 /\ c.io + c.n <= N
                           /\ c.io <= c.start /\ c.start < c.io + c.n
                           /\ c.io <= c.end + 1 /\ c.end <= c.io + c.n - 2
  /\ c.op = "merge" => /\ c.n >= 2 /\ c.io + c.n <= 2 * N /\ c.sc + c.n <= 2 * N
                       /\ c.io + c.n <= c.sc \/ c.sc + c.n <= c.io
  /\ c.op = "merging" => /\ c.io + c.n <= 2 * N /\ c.io <= c.out
                         /\ c.out + c.l1 + c.l2 = c.io + c.n
                         /\ c.p1 + c.l1 <= 2 * N /\ c.p2 + c.l2 <= 2 * N
                         /\ Target(c) \cap (First(c) \cup Second(c)) = {}
  /\ c.op = "up" => c.n = N /\ c.j < c.i
  /\ c.op = "take" => c.n = N /\ c.i >= 1
  /\ c.op = "down" => c.n = N /\ c.i \in 1 .. N - 1 /\ c.p < N

TypeInv ==
  /\ given = <<>> \/ given \in Inputs
  /\ mem \in [Cells -> Elems \cup {Junk}]
  /\ calls \in Seq(Items)
  /\ \A k \in DOMAIN calls : ItemOK(calls[k])

-----------------------------------------------------------------------------
(* The order and the stack.                                                *)

LEMMA RankType == \A x \in Elems : Rank[x] \in Nat
BY ConstantsOK DEF ConstantsOK

\* What the comparator says tells how two elements rank, but not the reverse.
LEMMA CMFacts ==
  ASSUME NEW x \in Elems, NEW y \in Elems
  PROVE  /\ CM(x, y) => Rank[x] <= Rank[y]
         /\ ~CM(x, y) => Rank[y] <= Rank[x]
BY RankType DEF CM

\* Every non-empty set of natural numbers has a least one.
LEMMA SmallestNat ==
  ASSUME NEW T, T \subseteq Nat, T # {}
  PROVE  \E x \in T : \A y \in T : x <= y
<1> DEFINE R == {p \in Nat \X Nat : p[1] < p[2]}
<1>1. OpToRel(<, Nat) = R
  BY DEF OpToRel
<1>2. IsWellFoundedOn(R, Nat)
  BY <1>1, NatLessThanWellFounded
<1>3. PICK x \in T : \A y \in T : ~(<<y, x>> \in R)
  BY <1>2, WFMin
<1>4. ASSUME NEW y \in T PROVE x <= y
  <2>1. <<y, x>> \in Nat \X Nat /\ <<y, x>>[1] = y /\ <<y, x>>[2] = x
    OBVIOUS
  <2>2. ~(y < x)
    BY <1>3, <2>1
  <2> QED
    BY <2>2
<1> QED
  BY <1>4

\* The number of elements of the array that is being sorted.
LEMMA SizeFacts ==
  ASSUME given = <<>> \/ given \in Inputs
  PROVE  N \in Nat /\ given \in [0 .. N - 1 -> Elems]
<1>1. CASE given = <<>>
  <2>1. DOMAIN given = {} /\ given = [k \in {} |-> given[k]]
    BY <1>1
  <2>2. N = 0
    BY <2>1, FS_EmptySet DEF N, Size
  <2> QED
    BY <2>1, <2>2
<1>2. CASE given \in Inputs
  BY <1>2, ConstantsOK DEF ConstantsOK, N
<1> QED
  BY <1>1, <1>2

LEMMA ItemKinds ==
  ASSUME NEW c \in Items
  PROVE  /\ c.op = "insertion" => c \in InsertionItems
         /\ c.op = "quick" => c \in QuickItems
         /\ c.op = "partition" => c \in PartitionItems
         /\ c.op = "merge" => c \in MergeItems
         /\ c.op = "merging" => c \in MergingItems
         /\ c.op = "up" => c \in UpItems
         /\ c.op = "take" => c \in TakeItems
         /\ c.op = "down" => c \in DownItems
         /\ c.op \in {"insertion", "quick", "partition", "merge", "merging", "up", "take", "down"}
BY DEF Items, InsertionItems, QuickItems, PartitionItems, MergeItems, MergingItems,
       UpItems, TakeItems, DownItems

LEMMA TopFacts ==
  ASSUME TypeInv, calls # <<>>
  PROVE  /\ Depth \in Nat \ {0} /\ DOMAIN calls = 1 .. Depth
         /\ Depth \in DOMAIN calls /\ 1 \in DOMAIN calls
         /\ Top = calls[Depth] /\ Top \in Items /\ ItemOK(Top)
BY DEF TypeInv, Depth, Top, Last

\* What is left of the stack, and what comes on top of it.
LEMMA ReplaceFacts ==
  ASSUME NEW s \in Seq(Items), s # <<>>, NEW items \in Seq(Items)
  PROVE  /\ Front(s) \o items \in Seq(Items)
         /\ Len(Front(s) \o items) = Len(s) - 1 + Len(items)
         /\ DOMAIN (Front(s) \o items) = 1 .. Len(s) - 1 + Len(items)
         /\ \A k \in 1 .. Len(s) - 1 : (Front(s) \o items)[k] = s[k]
         /\ \A k \in 1 .. Len(items) : (Front(s) \o items)[Len(s) - 1 + k] = items[k]
<1>1. Len(s) \in Nat \ {0} /\ Len(items) \in Nat
  OBVIOUS
<1>2. /\ Front(s) \in Seq(Items) /\ Len(Front(s)) = Len(s) - 1
      /\ \A k \in 1 .. Len(s) - 1 : Front(s)[k] = s[k]
  <2>1. Front(s) = [k \in 1 .. Len(s) - 1 |-> s[k]]
    BY <1>1 DEF Front
  <2> QED
    BY <1>1, <2>1
<1> HIDE DEF Front
<1> DEFINE f == Front(s)
<1> HIDE DEF f
<1>3. f \in Seq(Items) /\ Len(f) = Len(s) - 1
  BY <1>2 DEF f
<1>4. /\ f \o items \in Seq(Items) /\ Len(f \o items) = Len(f) + Len(items)
      /\ \A k \in 1 .. Len(f) : (f \o items)[k] = f[k]
      /\ \A k \in 1 .. Len(items) : (f \o items)[Len(f) + k] = items[k]
  BY <1>3
<1> QED
  BY <1>1, <1>2, <1>3, <1>4 DEF f

LEMMA CallsReplaced ==
  ASSUME TypeInv, calls # <<>>, NEW items \in Seq(Items), Replace(items)
  PROVE  /\ calls' \in Seq(Items) /\ Len(calls') = Depth - 1 + Len(items)
         /\ DOMAIN calls' = 1 .. Depth - 1 + Len(items)
         /\ \A k \in 1 .. Depth - 1 : calls'[k] = calls[k]
         /\ \A k \in 1 .. Len(items) : calls'[Depth - 1 + k] = items[k]
<1>1. calls \in Seq(Items) /\ calls' = Front(calls) \o items
  BY DEF TypeInv, Replace
<1> QED
  BY <1>1, ReplaceFacts DEF Depth

-----------------------------------------------------------------------------
(* What an iteration does to the array.                                    *)

\* The inner loop of insertion sort stops, at the latest at the beginning.
LEMMA GapFacts ==
  ASSUME NEW io \in Nat, NEW i \in Nat
  PROVE  LET g == Gap(io, i)
         IN  /\ g \in 0 .. i
             /\ \A k \in g .. i - 1 : CM(mem[io + i], mem[io + k])
             /\ g = 0 \/ ~CM(mem[io + i], mem[io + g - 1])
<1> DEFINE C(k) == CM(mem[io + i], mem[io + k])
           S == {j \in 0 .. i : \A k \in j .. i - 1 : C(k)}
<1> HIDE DEF C
<1>1. S \subseteq Nat /\ i \in S
  OBVIOUS
<1>2. PICK j \in S : \A y \in S : j <= y
  <2> HIDE DEF S
  <2> QED
    BY <1>1, SmallestNat
<1>3. j \in 0 .. i /\ \A k \in j .. i - 1 : C(k)
  OBVIOUS
<1>4. ASSUME j # 0 PROVE ~C(j - 1)
  <2>1. j - 1 \in 0 .. i /\ ~(j <= j - 1)
    BY <1>3, <1>4
  <2>2. j - 1 \notin S
    BY <1>2, <2>1
  <2>3. PICK k \in j - 1 .. i - 1 : ~C(k)
    BY <2>1, <2>2
  <2>4. k = j - 1
    BY <1>3, <2>3
  <2> QED
    BY <2>3, <2>4
<1>5. io + (j - 1) = io + j - 1
  BY <1>3
<1>6. \E g \in 0 .. i : /\ \A k \in g .. i - 1 : CM(mem[io + i], mem[io + k])
                        /\ g = 0 \/ ~CM(mem[io + i], mem[io + g - 1])
  <2>1. j = 0 \/ ~CM(mem[io + i], mem[io + j - 1])
    BY <1>4, <1>5 DEF C
  <2>2. \A k \in j .. i - 1 : CM(mem[io + i], mem[io + k])
    BY <1>3 DEF C
  <2> QED
    BY <1>3, <2>1, <2>2
<1> QED
  BY <1>6 DEF Gap

\* g is f with the element at from put in at at.
Inserted(f, g, at, from) ==
  g = [k \in DOMAIN f |-> IF k = at THEN f[from]
                          ELSE IF at < k /\ k <= from THEN f[k - 1] ELSE f[k]]

\* One more element is in its place, among those that were, and no element of the
\* rest of the memory is touched.
LEMMA InsertFacts ==
  ASSUME TypeInv, NEW c \in InsertionItems, ItemOK(c), c.i < c.n,
         \A x \in Target(c) : mem[x] \in Elems,
         Sorted(c.io, c.io + c.i - 1),
         NEW from, from = c.io + c.i, NEW at, at = c.io + Gap(c.io, c.i),
         Inserted(mem, mem', at, from)
  PROVE  /\ mem' \in [Cells -> Elems \cup {Junk}]
         /\ \A x \in Cells \ Target(c) : mem'[x] = mem[x]
         /\ \A x \in Target(c) : \E y \in Target(c) : mem'[x] = mem[y]
         /\ \A y \in Target(c) : \E x \in Target(c) : mem'[x] = mem[y]
         /\ Sorted(c.io, from)'
<1> DEFINE io == c.io
           g == Gap(c.io, c.i)
<1>1. io \in Nat /\ c.i \in Nat /\ c.n \in Nat /\ c.i >= 1 /\ N \in Nat /\ io + c.n <= 2 * N
  BY SizeFacts DEF InsertionItems, ItemOK, TypeInv
<1>2. /\ g \in 0 .. c.i
      /\ \A k \in g .. c.i - 1 : CM(mem[from], mem[io + k])
      /\ g = 0 \/ ~CM(mem[from], mem[at - 1])
  <2>1. /\ g \in 0 .. c.i
        /\ \A k \in g .. c.i - 1 : CM(mem[io + c.i], mem[io + k])
        /\ g = 0 \/ ~CM(mem[io + c.i], mem[io + g - 1])
    BY <1>1, GapFacts
  <2>2. g # 0 => io + g - 1 = at - 1
    BY <1>1, <2>1
  <2> QED
    BY <2>1, <2>2
<1>3. at = io + g /\ from = io + c.i
  OBVIOUS
<1> HIDE DEF g, io
<1>4. /\ io \in Nat /\ at \in Nat /\ from \in Nat /\ io <= at /\ at <= from /\ from < io + c.n
      /\ \A k \in at .. from - 1 : CM(mem[from], mem[k])
      /\ at = io \/ ~CM(mem[from], mem[at - 1])
  <2>1. \A k \in at .. from - 1 : k - io \in g .. c.i - 1 /\ io + (k - io) = k
    BY <1>1, <1>2, <1>3
  <2> QED
    BY <1>1, <1>2, <1>3, <2>1
<1>5. Target(c) = io .. io + c.n - 1 /\ DOMAIN mem = Cells /\ Target(c) \subseteq Cells
  BY <1>1 DEF Target, io, TypeInv, Cells
<1>6. /\ \A k \in Cells : k \in Int
      /\ \A k \in Cells : mem'[k] = IF k = at THEN mem[from]
                                    ELSE IF at < k /\ k <= from THEN mem[k - 1] ELSE mem[k]
  BY <1>5 DEF Cells, Inserted
<1>7. \A k \in Target(c) : mem[k] \in Elems /\ Rank[mem[k]] \in Nat
  BY RankType
<1>8. /\ at \in Target(c) /\ from \in Target(c)
      /\ \A k \in Cells : at < k /\ k <= from => k \in Target(c) /\ k - 1 \in Target(c)
  <2>1. /\ io \in Nat /\ c.n \in Nat /\ at \in Nat /\ from \in Nat
        /\ io <= at /\ at <= from /\ from < io + c.n
    BY <1>1, <1>4
  <2>2. at \in Target(c) /\ from \in Target(c)
    BY <1>5, <2>1
  <2>3. ASSUME NEW k \in Cells, at < k, k <= from PROVE k \in Target(c) /\ k - 1 \in Target(c)
    <3>1. k \in Int
      BY <1>6
    <3> QED
      BY <1>5, <2>1, <2>3, <3>1
  <2> QED
    BY <2>2, <2>3
<1>9. mem' \in [Cells -> Elems \cup {Junk}]
  <2>1. \A k \in Cells : mem'[k] \in Elems \cup {Junk}
    BY <1>5, <1>6, <1>7, <1>8 DEF TypeInv
  <2>2. mem' = [k \in Cells |-> mem'[k]]
    BY <1>5 DEF Inserted
  <2> QED
    BY <2>1, <2>2
<1>10. \A x \in Cells \ Target(c) : mem'[x] = mem[x]
  BY <1>6, <1>8
<1>11. \A x \in Target(c) : \E y \in Target(c) : mem'[x] = mem[y]
  BY <1>5, <1>6, <1>8
<1>12. ASSUME NEW y \in Target(c) PROVE \E x \in Target(c) : mem'[x] = mem[y]
  <2>1. y \in Int /\ y \in Cells
    BY <1>5, <1>6
  <2>2. CASE y = from
    BY <1>5, <1>6, <1>8, <2>2
  <2>3. CASE y < at \/ y > from
    BY <1>4, <1>5, <1>6, <2>1, <2>3
  <2>4. CASE at <= y /\ y < from
    <3>1. y + 1 \in Target(c) /\ at < y + 1 /\ y + 1 <= from /\ (y + 1) - 1 = y /\ y + 1 # at
      BY <1>1, <1>4, <1>5, <2>1, <2>4
    <3>2. mem'[y + 1] = mem[y]
      BY <1>5, <1>6, <3>1
    <3> QED
      BY <3>1, <3>2
  <2> QED
    BY <1>4, <2>1, <2>2, <2>3, <2>4
<1>13. ASSUME NEW j \in io .. from, NEW k \in io .. from, j < k
       PROVE  Rank[mem'[j]] <= Rank[mem'[k]]
  <2>1. /\ j \in Target(c) /\ k \in Target(c) /\ j \in Cells /\ k \in Cells
        /\ \A x \in io .. from : x \in Target(c)
    <3>1. \A x \in io .. from : x \in Target(c)
      BY <1>1, <1>4, <1>5
    <3> QED
      BY <1>5, <1>13, <3>1
  <2>2. \A x, y \in io .. from - 1 : x < y => Rank[mem[x]] <= Rank[mem[y]]
    BY <1>1, <1>3 DEF Sorted, io
  <2>3. CASE k < at
    BY <1>4, <1>6, <1>13, <2>1, <2>2, <2>3
  <2>4. CASE k = at
    <3>1. at - 1 \in io .. from - 1 /\ at - 1 \in Target(c)
      <4>1. /\ io \in Nat /\ c.n \in Nat /\ at \in Nat /\ from \in Nat
            /\ io <= at /\ at <= from /\ from < io + c.n
        BY <1>1, <1>4
      <4>2. io < at
        BY <1>13, <2>4, <4>1
      <4> QED
        BY <1>5, <4>1, <4>2
    <3>2. Rank[mem[at - 1]] <= Rank[mem[from]]
      BY <1>4, <1>7, <1>8, <2>4, <3>1, CMFacts
    <3>3. Rank[mem[j]] <= Rank[mem[at - 1]]
      BY <1>4, <1>7, <1>13, <2>1, <2>2, <2>4, <3>1
    <3>4. mem'[j] = mem[j] /\ mem'[k] = mem[from]
      BY <1>4, <1>6, <1>13, <2>1, <2>4
    <3> QED
      BY <1>7, <1>8, <2>1, <3>1, <3>2, <3>3, <3>4
  <2>5. CASE k > at
    <3>1. mem'[k] = mem[k - 1] /\ k - 1 \in io .. from - 1 /\ k - 1 \in Target(c)
      BY <1>4, <1>6, <1>8, <2>1, <2>5
    <3>2. CASE j < at
      <4>1. mem'[j] = mem[j] /\ j \in io .. from - 1 /\ j < k - 1
        BY <1>4, <1>6, <1>13, <2>1, <2>5, <3>2
      <4> QED
        BY <2>2, <3>1, <4>1
    <3>3. CASE j = at
      <4>1. CM(mem[from], mem[k - 1])
        BY <1>4, <2>5, <3>1, <3>3
      <4> QED
        BY <1>6, <1>7, <1>8, <2>1, <3>1, <3>3, <4>1, CMFacts
    <3>4. CASE j > at
      <4>1. mem'[j] = mem[j - 1] /\ j - 1 \in io .. from - 1 /\ j - 1 < k - 1
        BY <1>4, <1>6, <1>13, <2>1, <3>4
      <4> QED
        BY <2>2, <3>1, <4>1
    <3> QED
      BY <1>4, <3>2, <3>3, <3>4
  <2> QED
    BY <1>4, <2>3, <2>4, <2>5
<1>14. Sorted(c.io, from)'
  BY <1>13 DEF Sorted, io
<1> QED
  BY <1>9, <1>10, <1>11, <1>12, <1>14

\* An exchange, and that it loses nothing.
LEMMA SwapFacts ==
  ASSUME TypeInv, NEW a \in Cells, NEW b \in Cells, mem' = Swapped(a, b)
  PROVE  /\ mem' \in [Cells -> Elems \cup {Junk}]
         /\ mem'[a] = mem[b] /\ mem'[b] = mem[a]
         /\ \A x \in Cells : x # a /\ x # b => mem'[x] = mem[x]
BY DEF TypeInv, Swapped

-----------------------------------------------------------------------------
(* Heaps of numbers: how the elements rank, by their places.                *)

LEMMA ParentFacts ==
  ASSUME NEW k \in Nat \ {0}
  PROVE  /\ Parent(k) \in Nat /\ Parent(k) < k
         /\ \A p \in Nat : Parent(k) = p <=> k = 2 * p + 1 \/ k = 2 * p + 2
BY DEF Parent

\* The heap of the first b places is in order but for j, on its way up.
Rising(v, b, j) ==
  \A k \in 1 .. b - 1 :
    /\ k # j => v[k] <= v[Parent(k)]
    /\ Parent(k) = j /\ j > 0 => v[k] <= v[Parent(j)]

Heaps(v, b) == \A k \in 1 .. b - 1 : v[k] <= v[Parent(k)]

\* The same but for what is below p.
Sinking(v, b, p) ==
  \A k \in 1 .. b - 1 :
    /\ Parent(k) # p => v[k] <= v[Parent(k)]
    /\ Parent(k) = p /\ p > 0 => v[k] <= v[Parent(p)]

\* What has been taken off the heap is in order, and nothing exceeds it.
Beyond(v, r) == \A j, k \in 0 .. N - 1 : j < k /\ k >= r => v[j] <= v[k]

LEMMA RiseStep ==
  ASSUME NEW b \in Nat, NEW j \in Nat \ {0}, j < b, NEW v, NEW w,
         \A x \in 0 .. b - 1 : v[x] \in Nat, Rising(v, b, j), v[Parent(j)] <= v[j],
         w[j] = v[Parent(j)], w[Parent(j)] = v[j],
         \A x \in 0 .. b - 1 : x # j /\ x # Parent(j) => w[x] = v[x]
  PROVE  Rising(w, b, Parent(j))
<1> DEFINE p == Parent(j)
<1>1. p \in Nat /\ p < j /\ p \in 0 .. b - 1 /\ j \in 0 .. b - 1
  BY ParentFacts
<1> SUFFICES ASSUME NEW k \in 1 .. b - 1
             PROVE  /\ k # p => w[k] <= w[Parent(k)]
                    /\ Parent(k) = p /\ p > 0 => w[k] <= w[Parent(p)]
  BY DEF Rising
<1>2. k \in Nat \ {0} /\ Parent(k) \in Nat /\ Parent(k) < k /\ k \in 0 .. b - 1
      /\ Parent(k) \in 0 .. b - 1
  BY ParentFacts
<1>3. p > 0 => Parent(p) \in Nat /\ Parent(p) < p /\ Parent(p) \in 0 .. b - 1 /\ p \in 1 .. b - 1
  BY <1>1, ParentFacts
<1>4. /\ k # j => v[k] <= v[Parent(k)]
      /\ Parent(k) = j => v[k] <= v[p]
      /\ p > 0 => v[p] <= v[Parent(p)]
  BY <1>1, <1>3 DEF Rising
<1> HIDE DEF p
<1>5. /\ v[k] \in Nat /\ v[Parent(k)] \in Nat /\ v[p] \in Nat /\ v[j] \in Nat
      /\ p > 0 => v[Parent(p)] \in Nat
  BY <1>1, <1>2, <1>3
<1>6. /\ w[j] = v[p] /\ w[p] = v[j] /\ v[p] <= v[j]
      /\ k # j /\ k # p => w[k] = v[k]
      /\ Parent(k) # j /\ Parent(k) # p => w[Parent(k)] = v[Parent(k)]
      /\ p > 0 => w[Parent(p)] = v[Parent(p)]
  BY <1>1, <1>2, <1>3 DEF p
<1>7. ASSUME k # p PROVE w[k] <= w[Parent(k)]
  <2>1. CASE k = j
    BY <1>6, <2>1 DEF p
  <2>2. CASE k # j /\ Parent(k) = j
    BY <1>4, <1>6, <1>7, <2>2
  <2>3. CASE k # j /\ Parent(k) = p
    BY <1>1, <1>4, <1>5, <1>6, <1>7, <2>3
  <2>4. CASE k # j /\ Parent(k) # j /\ Parent(k) # p
    BY <1>4, <1>6, <1>7, <2>4
  <2> QED
    BY <2>1, <2>2, <2>3, <2>4
<1>8. ASSUME Parent(k) = p, p > 0 PROVE w[k] <= w[Parent(p)]
  <2>1. CASE k = j
    BY <1>4, <1>6, <1>8, <2>1
  <2>2. CASE k # j
    BY <1>2, <1>4, <1>5, <1>6, <1>8, <2>2
  <2> QED
    BY <2>1, <2>2
<1> QED
  BY <1>7, <1>8

\* The greatest is at the root.
LEMMA RootIsMost ==
  ASSUME NEW b \in Nat, NEW v, \A x \in 0 .. b - 1 : v[x] \in Nat, Heaps(v, b),
         NEW k \in 0 .. b - 1
  PROVE  v[k] <= v[0]
<1> DEFINE S == {x \in 0 .. b - 1 : ~(v[x] <= v[0])}
<1> SUFFICES ASSUME S # {} PROVE FALSE
  OBVIOUS
<1>1. PICK x \in S : \A y \in S : x <= y
  <2>1. S \subseteq Nat
    OBVIOUS
  <2> HIDE DEF S
  <2> QED
    BY <2>1, SmallestNat
<1>2. x \in 0 .. b - 1 /\ ~(v[x] <= v[0]) /\ v[x] \in Nat /\ v[0] \in Nat
  OBVIOUS
<1>3. x # 0
  BY <1>2
<1>4. x \in Nat \ {0} /\ Parent(x) \in Nat /\ Parent(x) < x /\ Parent(x) \in 0 .. b - 1
  BY <1>2, <1>3, ParentFacts
<1>5. v[Parent(x)] <= v[0]
  BY <1>1, <1>4
<1>6. v[x] <= v[Parent(x)] /\ v[Parent(x)] \in Nat
  BY <1>2, <1>4 DEF Heaps
<1> QED
  BY <1>2, <1>5, <1>6

\* The greatest child c of p, which does not rank below p, goes up.
LEMMA SinkStep ==
  ASSUME NEW b \in Nat, NEW p \in Nat, NEW c \in 1 .. b - 1, Parent(c) = p, NEW v, NEW w,
         \A x \in 0 .. b - 1 : v[x] \in Nat, Sinking(v, b, p), v[p] <= v[c],
         \A k \in 1 .. b - 1 : Parent(k) = p => v[k] <= v[c],
         w[c] = v[p], w[p] = v[c],
         \A x \in 0 .. b - 1 : x # c /\ x # p => w[x] = v[x]
  PROVE  Sinking(w, b, c)
<1>1. p < c /\ p \in 0 .. b - 1 /\ c \in 0 .. b - 1 /\ c > 0
  BY ParentFacts
<1> SUFFICES ASSUME NEW k \in 1 .. b - 1
             PROVE  /\ Parent(k) # c => w[k] <= w[Parent(k)]
                    /\ Parent(k) = c /\ c > 0 => w[k] <= w[Parent(c)]
  BY DEF Sinking
<1>2. k \in Nat \ {0} /\ Parent(k) \in Nat /\ Parent(k) < k /\ k \in 0 .. b - 1
      /\ Parent(k) \in 0 .. b - 1
  BY ParentFacts
<1>3. /\ Parent(k) # p => v[k] <= v[Parent(k)]
      /\ p > 0 => v[c] <= v[Parent(p)]
      /\ Parent(k) = p => v[k] <= v[c]
  BY DEF Sinking
<1>4. /\ k # c /\ k # p => w[k] = v[k]
      /\ Parent(k) # c /\ Parent(k) # p => w[Parent(k)] = v[Parent(k)]
  BY <1>2
<1>5. ASSUME Parent(k) # c PROVE w[k] <= w[Parent(k)]
  <2>1. CASE k = c
    BY <2>1
  <2>2. CASE k # c /\ Parent(k) = p
    BY <1>2, <1>3, <1>4, <2>2
  <2>3. CASE k = p
    BY <1>2, <1>3, <1>4, <1>5, <2>3
  <2>4. CASE k # c /\ k # p /\ Parent(k) # p
    BY <1>3, <1>4, <1>5, <2>4
  <2> QED
    BY <2>1, <2>2, <2>3, <2>4
<1>6. ASSUME Parent(k) = c PROVE w[k] <= w[Parent(c)]
  BY <1>1, <1>2, <1>3, <1>4, <1>6
<1> QED
  BY <1>5, <1>6

-----------------------------------------------------------------------------
(* Heap sort.                                                              *)

Given == {given[k] : k \in 0 .. N - 1}
Held(S) == {mem[k] : k \in S}
Values(f, S) == {f[x] : x \in S}
Ranks == [k \in 0 .. N - 1 |-> Rank[mem[k]]]

HeapMode ==
  /\ Depth = 1 /\ Held(0 .. N - 1) = Given
  /\ Top.op \in {"up", "take", "down"}
  /\ Top.op = "up" =>
       /\ Rising(Ranks, IF Top.i < Top.n THEN Top.i ELSE Top.n, Top.j)
       /\ Top.i > Top.n => Top.j >= Top.n
  /\ Top.op = "take" => Heaps(Ranks, N - Top.i + 1) /\ Beyond(Ranks, N - Top.i + 1)
  /\ Top.op = "down" => Sinking(Ranks, N - Top.i, Top.p) /\ Beyond(Ranks, N - Top.i)

LEMMA GivenType == ASSUME TypeInv PROVE Given \subseteq Elems /\ N \in Nat
BY SizeFacts DEF TypeInv, Given

\* As long as the array holds what was given, all of it can be compared.
LEMMA RanksFacts ==
  ASSUME TypeInv, Held(0 .. N - 1) = Given
  PROVE  \A x \in 0 .. N - 1 :
           mem[x] \in Elems /\ Ranks[x] = Rank[mem[x]] /\ Ranks[x] \in Nat /\ x \in Cells
<1> SUFFICES ASSUME NEW x \in 0 .. N - 1
             PROVE  mem[x] \in Elems /\ Ranks[x] = Rank[mem[x]] /\ Ranks[x] \in Nat /\ x \in Cells
  OBVIOUS
<1>1. mem[x] \in Held(0 .. N - 1)
  BY DEF Held
<1>2. mem[x] \in Elems
  BY <1>1, GivenType
<1>3. x \in Cells
  BY GivenType DEF Cells
<1> QED
  BY <1>2, <1>3, RankType DEF Ranks

\* Nothing is lost when the places of S are filled with each other's elements.
LEMMA HeldShuffled ==
  ASSUME NEW S, \A x \in S : \E y \in S : mem'[x] = mem[y],
         \A y \in S : \E x \in S : mem'[x] = mem[y]
  PROVE  Held(S)' = Held(S)
BY DEF Held

LEMMA SameSize == ASSUME given' = given PROVE N' = N /\ Cells' = Cells /\ Given' = Given
BY DEF N, Cells, Given

LEMMA HeapSwap ==
  ASSUME TypeInv, Held(0 .. N - 1) = Given, NEW a \in 0 .. N - 1, NEW b \in 0 .. N - 1,
         mem' = Swapped(a, b), given' = given
  PROVE  /\ mem' \in [Cells -> Elems \cup {Junk}]
         /\ (Held(0 .. N - 1) = Given)'
         /\ Ranks'[a] = Ranks[b] /\ Ranks'[b] = Ranks[a]
         /\ \A x \in 0 .. N - 1 : x # a /\ x # b => Ranks'[x] = Ranks[x]
<1>1. \A x \in 0 .. N - 1 : x \in Cells
  BY RanksFacts
<1>2. /\ mem' \in [Cells -> Elems \cup {Junk}]
      /\ mem'[a] = mem[b] /\ mem'[b] = mem[a]
      /\ \A x \in Cells : x # a /\ x # b => mem'[x] = mem[x]
  BY <1>1, SwapFacts
<1>3. N' = N /\ Given' = Given
  BY SameSize
<1> DEFINE S == 0 .. N - 1
<1>4. Held(S)' = Held(S)
  <2>1. \A x \in S : \E y \in S : mem'[x] = mem[y]
    BY <1>1, <1>2
  <2>2. \A y \in S : \E x \in S : mem'[x] = mem[y]
    BY <1>1, <1>2
  <2>3. {mem'[x] : x \in S} = {mem[x] : x \in S}
    <3> HIDE DEF S
    <3> QED
      BY <2>1, <2>2
  <2> QED
    BY <1>3, <2>3 DEF Held
<1> QED
  BY <1>1, <1>2, <1>3, <1>4 DEF Ranks

\* The one item of heap sort goes on.
LEMMA HeapContinues ==
  ASSUME TypeInv, Depth = 1, calls # <<>>, NEW c \in Items, Continue(c),
         given' = given, mem' \in [Cells -> Elems \cup {Junk}], ItemOK(c)
  PROVE  /\ TypeInv' /\ Depth' = 1 /\ calls' # <<>> /\ Top' = c
<1>1. calls \in Seq(Items) /\ <<c>> \in Seq(Items) /\ Len(calls) = 1 /\ Len(<<c>>) = 1
      /\ <<c>>[1] = c
  BY DEF TypeInv, Depth
<1>2. calls' = Front(calls) \o <<c>>
  BY DEF Continue, Replace
<1>3. /\ calls' \in Seq(Items) /\ Len(calls') = 1 /\ DOMAIN calls' = 1 .. 1 /\ calls'[1] = c
  BY <1>1, <1>2, ReplaceFacts
<1>4. calls' # <<>> /\ Top' = c /\ Depth' = 1
  BY <1>3 DEF Top, Last, Depth
<1>5. ItemOK(c)'
  BY SameSize DEF ItemOK
<1>6. (\A k \in DOMAIN calls : ItemOK(calls[k]))'
  <2> SUFFICES ASSUME NEW k \in DOMAIN calls' PROVE ItemOK(calls[k])'
    OBVIOUS
  <2>1. calls'[k] = c
    BY <1>3
  <2> QED
    BY <1>5, <2>1 DEF ItemOK
<1> QED
  BY <1>3, <1>4, <1>6, SameSize DEF TypeInv

\* What a state of heap sort lets every step of it rely on.
LEMMA HeapFacts ==
  ASSUME TypeInv, HeapMode, calls # <<>>
  PROVE  /\ N \in Nat /\ Depth = 1 /\ Held(0 .. N - 1) = Given
         /\ Top.n = N /\ Top.i \in Nat
         /\ Top.op = "up" => Top \in UpItems /\ Top.j < Top.i /\ Top.j \in Nat
         /\ Top.op = "take" => Top \in TakeItems /\ Top.i >= 1
         /\ Top.op = "down" => /\ Top \in DownItems /\ Top.i \in 1 .. N - 1
                               /\ Top.p \in Nat /\ Top.p < N
<1>1. Top \in Items /\ ItemOK(Top) /\ N \in Nat
  BY TopFacts, GivenType
<1>2. Top.op = "up" => Top \in UpItems
  BY <1>1, ItemKinds
<1>3. Top.op = "take" => Top \in TakeItems
  BY <1>1, ItemKinds
<1>4. Top.op = "down" => Top \in DownItems
  BY <1>1, ItemKinds
<1> QED
  BY <1>1, <1>2, <1>3, <1>4 DEF HeapMode, ItemOK, UpItems, TakeItems, DownItems

LEMMA SiftUpStep ==
  ASSUME TypeInv, HeapMode, SiftUp
  PROVE  TypeInv' /\ HeapMode'
<1> DEFINE b == IF Top.i < Top.n THEN Top.i ELSE Top.n
           j == Top.j
           p == Parent(j)
           c == [op |-> "up", n |-> Top.n, i |-> Top.i, j |-> p]
<1>1. /\ calls # <<>> /\ Top.op = "up" /\ Top.i <= Top.n /\ j > 0 /\ ~CM(mem[j], mem[p])
      /\ mem' = Swapped(j, p) /\ Continue([Top EXCEPT !.j = p]) /\ given' = given
  BY DEF SiftUp, Rises
<1>2. /\ N \in Nat /\ Depth = 1 /\ Held(0 .. N - 1) = Given /\ Top.n = N /\ Top.i \in Nat
      /\ Top \in UpItems /\ j < Top.i /\ j \in Nat
  BY <1>1, HeapFacts
<1>3. p \in Nat /\ p < j /\ b = Top.i /\ j < b /\ b <= N
  BY <1>1, <1>2, ParentFacts
<1>4. [Top EXCEPT !.j = p] = c /\ c \in UpItems
  BY <1>2, <1>3 DEF UpItems
<1>5. Rising(Ranks, b, j)
  BY <1>1 DEF HeapMode
<1> HIDE DEF b, j, p
<1>6. j \in 0 .. N - 1 /\ p \in 0 .. N - 1 /\ \A x \in 0 .. b - 1 : x \in 0 .. N - 1
  BY <1>2, <1>3
<1>7. /\ mem' \in [Cells -> Elems \cup {Junk}] /\ (Held(0 .. N - 1) = Given)'
      /\ Ranks'[j] = Ranks[p] /\ Ranks'[p] = Ranks[j]
      /\ \A x \in 0 .. N - 1 : x # j /\ x # p => Ranks'[x] = Ranks[x]
  BY <1>1, <1>2, <1>6, HeapSwap
<1>8. Ranks[p] <= Ranks[j]
  BY <1>1, <1>2, <1>6, RanksFacts, CMFacts
<1>9. Rising(Ranks', b, p)
  <2>1. j \in Nat \ {0} /\ b \in Nat
    BY <1>1, <1>2, <1>3
  <2>2. \A x \in 0 .. b - 1 : Ranks[x] \in Nat
    BY <1>2, <1>6, RanksFacts
  <2>3. \A x \in 0 .. b - 1 : x # j /\ x # p => Ranks'[x] = Ranks[x]
    BY <1>6, <1>7
  <2> QED
    BY <1>3, <1>5, <1>7, <1>8, <2>1, <2>2, <2>3, RiseStep DEF p
<1>10. c \in Items /\ ItemOK(c)
  <2>1. c.op = "up" /\ c.n = N /\ c.j < c.i
    BY <1>2, <1>3
  <2> QED
    BY <1>4, <2>1 DEF Items, ItemOK
<1> HIDE DEF c
<1>11. TypeInv' /\ Depth' = 1 /\ calls' # <<>> /\ Top' = c
  BY <1>1, <1>2, <1>4, <1>7, <1>10, HeapContinues
<1>12. Top'.op = "up" /\ Top'.n = Top.n /\ Top'.i = Top.i /\ Top'.j = p
  BY <1>11 DEF c
<1>13. Rising(Ranks', IF Top'.i < Top'.n THEN Top'.i ELSE Top'.n, Top'.j)
  BY <1>9, <1>12 DEF b
<1> QED
  BY <1>1, <1>2, <1>7, <1>11, <1>12, <1>13 DEF HeapMode

LEMMA NextUpItem ==
  ASSUME NEW t \in UpItems, NEW x, NEW y
  PROVE  [t EXCEPT !.i = x, !.j = y] = [op |-> "up", n |-> t.n, i |-> x, j |-> y]
<1>1. t = [op |-> "up", n |-> t.n, i |-> t.i, j |-> t.j]
  BY DEF UpItems
<1>2. DOMAIN t = {"op", "n", "i", "j"}
  BY <1>1
<1>3. [t EXCEPT !.i = x, !.j = y]
        = [k \in DOMAIN t |-> IF k = "j" THEN y ELSE IF k = "i" THEN x ELSE t[k]]
  OBVIOUS
<1> QED
  BY <1>1, <1>2, <1>3

LEMMA NextUpStep ==
  ASSUME TypeInv, HeapMode, NextUp
  PROVE  TypeInv' /\ HeapMode'
<1> DEFINE i == Top.i
           j == Top.j
           b == IF i + 1 < N THEN i + 1 ELSE N
           c == [op |-> "up", n |-> Top.n, i |-> i + 1, j |-> i]
<1>1. /\ calls # <<>> /\ Top.op = "up" /\ i <= Top.n
      /\ j > 0 => CM(mem[j], mem[Parent(j)])
      /\ mem' = mem /\ Continue([Top EXCEPT !.i = @ + 1, !.j = i]) /\ given' = given
  BY DEF NextUp, Rises
<1>2. /\ N \in Nat /\ Depth = 1 /\ Held(0 .. N - 1) = Given /\ Top.n = N /\ i \in Nat
      /\ Top \in UpItems /\ j < i /\ j \in Nat
  BY <1>1, HeapFacts
<1>3. [Top EXCEPT !.i = @ + 1, !.j = i] = c /\ c \in UpItems
  <2>1. [Top EXCEPT !.i = Top.i + 1, !.j = i] = c
    BY <1>2, NextUpItem
  <2>2. c \in UpItems
    BY <1>2 DEF UpItems
  <2> QED
    BY <2>1, <2>2
<1>4. Rising(Ranks, i, j)
  <2>1. (IF Top.i < Top.n THEN Top.i ELSE Top.n) = i
    BY <1>1, <1>2
  <2> QED
    BY <1>1, <2>1 DEF HeapMode
<1> HIDE DEF i, j
<1>5. Rising(Ranks, b, i)
  <2> SUFFICES ASSUME NEW k \in 1 .. b - 1
               PROVE  /\ k # i => Ranks[k] <= Ranks[Parent(k)]
                      /\ ~(Parent(k) = i)
    BY DEF Rising
  <2>1. k \in Nat \ {0} /\ Parent(k) < k /\ k <= i /\ Parent(k) \in Nat
    BY <1>1, <1>2, ParentFacts
  <2>2. ASSUME k # i PROVE Ranks[k] <= Ranks[Parent(k)]
    <3>1. k \in 1 .. i - 1
      BY <1>2, <2>1, <2>2
    <3>2. CASE k # j
      BY <1>4, <3>1, <3>2 DEF Rising
    <3>3. CASE k = j
      <4>1. CM(mem[k], mem[Parent(k)])
        BY <1>1, <2>1, <3>3
      <4>2. k \in 0 .. N - 1 /\ Parent(k) \in 0 .. N - 1
        BY <1>1, <1>2, <2>1, <3>1
      <4> QED
        BY <1>2, <4>1, <4>2, RanksFacts, CMFacts
    <3> QED
      BY <3>2, <3>3
  <2> QED
    BY <1>2, <2>1, <2>2
<1>6. mem' \in [Cells -> Elems \cup {Junk}] /\ Ranks' = Ranks /\ (Held(0 .. N - 1) = Given)'
  BY <1>1, <1>2, SameSize DEF TypeInv, Ranks, Held
<1>7. c \in Items /\ ItemOK(c)
  <2>1. c.op = "up" /\ c.n = N /\ c.j < c.i
    BY <1>2
  <2> QED
    BY <1>3, <2>1 DEF Items, ItemOK
<1> HIDE DEF c
<1>8. TypeInv' /\ Depth' = 1 /\ calls' # <<>> /\ Top' = c
  BY <1>1, <1>2, <1>3, <1>6, <1>7, HeapContinues
<1>9. Top'.op = "up" /\ Top'.n = Top.n /\ Top'.i = i + 1 /\ Top'.j = i
  BY <1>8 DEF c
<1>10. Rising(Ranks', IF Top'.i < Top'.n THEN Top'.i ELSE Top'.n, Top'.j)
  BY <1>2, <1>5, <1>6, <1>9
<1>11. Top'.i > Top'.n => Top'.j >= Top'.n
  BY <1>2, <1>9
<1> QED
  BY <1>6, <1>8, <1>9, <1>10, <1>11 DEF HeapMode

LEMMA HeapedStep ==
  ASSUME TypeInv, HeapMode, Heaped
  PROVE  TypeInv' /\ HeapMode'
<1> DEFINE c == [op |-> "take", n |-> Top.n, i |-> 1]
<1>1. /\ calls # <<>> /\ Top.op = "up" /\ Top.i > Top.n
      /\ mem' = mem /\ Continue(c) /\ given' = given
  BY DEF Heaped
<1>2. /\ N \in Nat /\ Depth = 1 /\ Held(0 .. N - 1) = Given /\ Top.n = N /\ Top.i \in Nat
      /\ Top \in UpItems /\ Top.j \in Nat
  BY <1>1, HeapFacts
<1>3. Heaps(Ranks, N - 1 + 1) /\ Beyond(Ranks, N - 1 + 1)
  <2>1. (IF Top.i < Top.n THEN Top.i ELSE Top.n) = N /\ Top.j >= N
    BY <1>1, <1>2 DEF HeapMode
  <2>2. Rising(Ranks, N, Top.j)
    BY <1>1, <2>1 DEF HeapMode
  <2>3. N - 1 + 1 = N
    BY <1>2
  <2>4. \A k \in 1 .. N - 1 : k # Top.j
    BY <1>2, <2>1
  <2>5. Heaps(Ranks, N)
    BY <2>2, <2>4 DEF Heaps, Rising
  <2>6. Beyond(Ranks, N)
    BY <1>2 DEF Beyond
  <2> QED
    BY <2>3, <2>5, <2>6
<1>4. mem' \in [Cells -> Elems \cup {Junk}] /\ Ranks' = Ranks /\ (Held(0 .. N - 1) = Given)'
      /\ N' = N
  BY <1>1, <1>2, SameSize DEF TypeInv, Ranks, Held
<1>5. c \in Items /\ ItemOK(c)
  BY <1>2 DEF Items, TakeItems, ItemOK
<1>6. c.op = "take" /\ c.i = 1
  OBVIOUS
<1> HIDE DEF c
<1>7. TypeInv' /\ Depth' = 1 /\ calls' # <<>> /\ Top' = c
  BY <1>1, <1>2, <1>4, <1>5, HeapContinues
<1>8. (Heaps(Ranks, N - Top.i + 1) /\ Beyond(Ranks, N - Top.i + 1))'
  <2>1. Top'.i = 1
    BY <1>6, <1>7
  <2> QED
    BY <1>3, <1>4, <2>1 DEF Heaps, Beyond
<1> QED
  BY <1>4, <1>6, <1>7, <1>8 DEF HeapMode

LEMMA TakeStep ==
  ASSUME TypeInv, HeapMode, Take
  PROVE  TypeInv' /\ HeapMode'
<1> DEFINE r == N - Top.i
           c == [op |-> "down", n |-> Top.n, i |-> Top.i, p |-> 0]
<1>1. /\ calls # <<>> /\ Top.op = "take" /\ Top.i < Top.n
      /\ mem' = Swapped(Top.n - Top.i, 0) /\ Continue(c) /\ given' = given
  BY DEF Take
<1>2. /\ N \in Nat /\ Depth = 1 /\ Held(0 .. N - 1) = Given /\ Top.n = N /\ Top.i \in Nat
      /\ Top \in TakeItems /\ Top.i >= 1
  BY <1>1, HeapFacts
<1>3. r \in Nat /\ r >= 1 /\ r <= N - 1 /\ Top.n - Top.i = r
  BY <1>1, <1>2
<1>4. Heaps(Ranks, r + 1) /\ Beyond(Ranks, r + 1)
  BY <1>1 DEF HeapMode
<1>5. c \in Items /\ ItemOK(c)
  BY <1>1, <1>2 DEF Items, DownItems, ItemOK
<1>6. c.op = "down" /\ c.i = Top.i /\ c.p = 0
  OBVIOUS
<1> HIDE DEF c, r
<1>7. r \in 0 .. N - 1 /\ 0 \in 0 .. N - 1
  BY <1>2, <1>3
<1>8. /\ mem' \in [Cells -> Elems \cup {Junk}] /\ (Held(0 .. N - 1) = Given)'
      /\ Ranks'[r] = Ranks[0] /\ Ranks'[0] = Ranks[r]
      /\ \A x \in 0 .. N - 1 : x # r /\ x # 0 => Ranks'[x] = Ranks[x]
  BY <1>1, <1>2, <1>3, <1>7, HeapSwap
<1>9. \A x \in 0 .. N - 1 : Ranks[x] \in Nat
  BY <1>2, RanksFacts
<1>10. Sinking(Ranks', r, 0)
  <2> SUFFICES ASSUME NEW k \in 1 .. r - 1, Parent(k) # 0
               PROVE  Ranks'[k] <= Ranks'[Parent(k)]
    BY DEF Sinking
  <2>1. k \in Nat \ {0} /\ Parent(k) \in Nat /\ Parent(k) < k
    BY <1>3, ParentFacts
  <2>2. k \in 0 .. N - 1 /\ k # r /\ Parent(k) \in 0 .. N - 1 /\ Parent(k) # r
        /\ k \in 1 .. (r + 1) - 1
    BY <1>2, <1>3, <2>1
  <2>3. Ranks[k] <= Ranks[Parent(k)]
    BY <1>4, <2>2 DEF Heaps
  <2> QED
    BY <1>8, <2>1, <2>2, <2>3
<1>11. Beyond(Ranks', r)
  <2> SUFFICES ASSUME NEW j \in 0 .. N - 1, NEW k \in 0 .. N - 1, j < k, k >= r
               PROVE  Ranks'[j] <= Ranks'[k]
    BY DEF Beyond
  <2>1. \A x \in 0 .. r : Ranks[x] <= Ranks[0]
    <3>1. r + 1 \in Nat /\ (r + 1) - 1 = r /\ \A x \in 0 .. r : Ranks[x] \in Nat
      BY <1>2, <1>3, <1>9
    <3> QED
      BY <1>4, <3>1, RootIsMost
  <2>2. CASE k = r
    <3>1. Ranks'[k] = Ranks[0]
      BY <1>8, <2>2
    <3>2. Ranks'[j] = IF j = 0 THEN Ranks[r] ELSE Ranks[j]
      BY <1>8, <2>2
    <3> QED
      BY <1>3, <2>1, <2>2, <3>1, <3>2
  <2>3. CASE k > r
    <3>1. Ranks'[k] = Ranks[k] /\ k >= r + 1
      BY <1>3, <1>8, <2>3
    <3>2. \A x \in 0 .. N - 1 : x < k => Ranks[x] <= Ranks[k]
      BY <1>4, <3>1 DEF Beyond
    <3>3. Ranks'[j] = IF j = 0 THEN Ranks[r] ELSE IF j = r THEN Ranks[0] ELSE Ranks[j]
      BY <1>3, <1>8
    <3>4. r < k /\ 0 < k
      BY <1>3, <2>3
    <3> QED
      BY <1>7, <3>1, <3>2, <3>3, <3>4
  <2> QED
    BY <1>3, <2>2, <2>3
<1>12. TypeInv' /\ Depth' = 1 /\ calls' # <<>> /\ Top' = c
  BY <1>1, <1>2, <1>5, <1>8, HeapContinues
<1>13. (Sinking(Ranks, N - Top.i, Top.p) /\ Beyond(Ranks, N - Top.i))'
  <2>1. Top'.i = Top.i /\ Top'.p = 0 /\ N' = N
    BY <1>1, <1>6, <1>12, SameSize
  <2>2. N' - Top'.i = r
    BY <2>1 DEF r
  <2> QED
    BY <1>10, <1>11, <2>1, <2>2 DEF Sinking, Beyond
<1> QED
  BY <1>6, <1>8, <1>12, <1>13 DEF HeapMode

\* Child(p) is the greatest of the children of p, if p has any.
LEMMA ChildFacts ==
  ASSUME TypeInv, HeapMode, calls # <<>>, Top.op = "down",
         2 * Top.p + 1 < N - Top.i, NEW b, b = N - Top.i, NEW d, d = Child(Top.p)
  PROVE  /\ d \in 1 .. b - 1 /\ Parent(d) = Top.p /\ d \in Nat
         /\ \A k \in 1 .. b - 1 : Parent(k) = Top.p => Ranks[k] <= Ranks[d]
<1> DEFINE p == Top.p
           l == 2 * p + 1
<1>1. /\ N \in Nat /\ Held(0 .. N - 1) = Given /\ Top.n = N
      /\ Top.i \in 1 .. N - 1 /\ p \in Nat
  BY HeapFacts
<1>2. d = IF l + 1 < b /\ ~CM(mem[l + 1], mem[l]) THEN l + 1 ELSE l
  BY <1>1 DEF Child, HeapSize
<1> HIDE DEF p
<1>3. l \in Nat /\ b \in Nat /\ l < b /\ b <= N /\ l > 0
  BY <1>1 DEF p
<1>4. \A x \in 0 .. b - 1 : x \in 0 .. N - 1
  BY <1>1, <1>3
<1>5. d \in 1 .. b - 1 /\ (d = 2 * p + 1 \/ d = 2 * p + 2)
  BY <1>1, <1>2, <1>3
<1>6. Parent(d) = p
  BY <1>1, <1>5, ParentFacts
<1>7. ASSUME NEW k \in 1 .. b - 1, Parent(k) = p PROVE Ranks[k] <= Ranks[d]
  <2>1. k = l \/ k = l + 1
    BY <1>1, <1>7, ParentFacts
  <2>2. l \in 0 .. N - 1 /\ Ranks[l] \in Nat
    BY <1>1, <1>3, RanksFacts
  <2>3. CASE l + 1 < b
    <3>1. l + 1 \in 0 .. N - 1 /\ Ranks[l + 1] \in Nat
      BY <1>1, <1>3, <2>3, RanksFacts
    <3>2. /\ CM(mem[l + 1], mem[l]) => Ranks[l + 1] <= Ranks[l]
          /\ ~CM(mem[l + 1], mem[l]) => Ranks[l] <= Ranks[l + 1]
      <4>1. mem[l] \in Elems /\ mem[l + 1] \in Elems
            /\ Ranks[l] = Rank[mem[l]] /\ Ranks[l + 1] = Rank[mem[l + 1]]
        BY <1>1, <2>2, <3>1, RanksFacts
      <4> QED
        BY <4>1, CMFacts
    <3>3. d = l \/ d = l + 1
      BY <1>2
    <3>4. Ranks[l] <= Ranks[d] /\ Ranks[l + 1] <= Ranks[d]
      BY <1>2, <2>2, <2>3, <3>1, <3>2, <3>3
    <3> QED
      BY <2>1, <3>4
  <2>4. CASE ~(l + 1 < b)
    <3>1. k = l /\ d = l
      BY <1>2, <1>3, <2>1, <2>4
    <3> QED
      BY <2>2, <3>1
  <2> QED
    BY <2>3, <2>4
<1> QED
  BY <1>5, <1>6, <1>7 DEF p

LEMMA SiftDownStep ==
  ASSUME TypeInv, HeapMode, SiftDown
  PROVE  TypeInv' /\ HeapMode'
<1> DEFINE b == N - Top.i
           p == Top.p
           d == Child(p)
           c == [op |-> "down", n |-> Top.n, i |-> Top.i, p |-> d]
<1>1. /\ calls # <<>> /\ Top.op = "down" /\ 2 * p + 1 < Top.n - Top.i /\ ~CM(mem[d], mem[p])
      /\ mem' = Swapped(d, p) /\ Continue([Top EXCEPT !.p = d]) /\ given' = given
  BY DEF SiftDown, Sinks, HeapSize
<1>2. /\ N \in Nat /\ Depth = 1 /\ Held(0 .. N - 1) = Given /\ Top.n = N
      /\ Top \in DownItems /\ Top.i \in 1 .. N - 1 /\ p \in Nat /\ p < N
  BY <1>1, HeapFacts
<1>3. /\ d \in 1 .. b - 1 /\ Parent(d) = p /\ d \in Nat
      /\ \A k \in 1 .. b - 1 : Parent(k) = p => Ranks[k] <= Ranks[d]
  <2>1. 2 * Top.p + 1 < N - Top.i
    BY <1>1, <1>2
  <2> QED
    BY <1>1, <2>1, ChildFacts
<1>4. Sinking(Ranks, b, p) /\ Beyond(Ranks, b)
  BY <1>1 DEF HeapMode
<1>5. [Top EXCEPT !.p = d] = c /\ c \in DownItems
  BY <1>2, <1>3 DEF DownItems
<1>6. b \in Nat /\ b <= N
  BY <1>2
<1>7. c \in Items /\ ItemOK(c)
  <2>1. c.op = "down" /\ c.n = N /\ c.i \in 1 .. N - 1 /\ c.p < N
    BY <1>2, <1>3, <1>6
  <2> QED
    BY <1>5, <2>1 DEF Items, ItemOK
<1>8. c.op = "down" /\ c.i = Top.i /\ c.p = d
  OBVIOUS
<1> HIDE DEF c, b, d, p
<1>9. d \in 0 .. N - 1 /\ p \in 0 .. N - 1 /\ \A x \in 0 .. b - 1 : x \in 0 .. N - 1
  BY <1>2, <1>3, <1>6
<1>10. /\ mem' \in [Cells -> Elems \cup {Junk}] /\ (Held(0 .. N - 1) = Given)'
       /\ Ranks'[d] = Ranks[p] /\ Ranks'[p] = Ranks[d]
       /\ \A x \in 0 .. N - 1 : x # d /\ x # p => Ranks'[x] = Ranks[x]
  BY <1>1, <1>2, <1>9, HeapSwap
<1>11. Ranks[p] <= Ranks[d]
  BY <1>1, <1>2, <1>9, RanksFacts, CMFacts
<1>12. Sinking(Ranks', b, d)
  <2>1. \A x \in 0 .. b - 1 : Ranks[x] \in Nat
    BY <1>2, <1>9, RanksFacts
  <2>2. \A x \in 0 .. b - 1 : x # d /\ x # p => Ranks'[x] = Ranks[x]
    BY <1>9, <1>10
  <2> QED
    BY <1>2, <1>3, <1>4, <1>6, <1>10, <1>11, <2>1, <2>2, SinkStep
<1>13. Beyond(Ranks', b)
  <2> SUFFICES ASSUME NEW j \in 0 .. N - 1, NEW k \in 0 .. N - 1, j < k, k >= b
               PROVE  Ranks'[j] <= Ranks'[k]
    BY DEF Beyond
  <2>1. p < d /\ d < b
    BY <1>3, <1>6, ParentFacts
  <2>2. Ranks'[k] = Ranks[k] /\ p < k /\ d < k
    BY <1>2, <1>3, <1>6, <1>10, <2>1
  <2>3. Ranks'[j] = IF j = d THEN Ranks[p] ELSE IF j = p THEN Ranks[d] ELSE Ranks[j]
    BY <1>10
  <2>4. \A x \in 0 .. N - 1 : x < k => Ranks[x] <= Ranks[k]
    BY <1>4 DEF Beyond
  <2> QED
    BY <1>9, <2>2, <2>3, <2>4
<1>14. TypeInv' /\ Depth' = 1 /\ calls' # <<>> /\ Top' = c
  BY <1>1, <1>2, <1>5, <1>7, <1>10, HeapContinues
<1>15. (Sinking(Ranks, N - Top.i, Top.p) /\ Beyond(Ranks, N - Top.i))'
  <2>1. Top'.i = Top.i /\ Top'.p = d /\ N' = N
    BY <1>1, <1>8, <1>14, SameSize
  <2>2. N' - Top'.i = b
    BY <2>1 DEF b
  <2> QED
    BY <1>12, <1>13, <2>1, <2>2 DEF Sinking, Beyond
<1> QED
  BY <1>8, <1>10, <1>14, <1>15 DEF HeapMode

LEMMA NextTakeStep ==
  ASSUME TypeInv, HeapMode, NextTake
  PROVE  TypeInv' /\ HeapMode'
<1> DEFINE b == N - Top.i
           p == Top.p
           c == [op |-> "take", n |-> Top.n, i |-> Top.i + 1]
<1>1. /\ calls # <<>> /\ Top.op = "down"
      /\ 2 * p + 1 < Top.n - Top.i => CM(mem[Child(p)], mem[p])
      /\ mem' = mem /\ Continue(c) /\ given' = given
  BY DEF NextTake, Sinks, HeapSize
<1>2. /\ N \in Nat /\ Depth = 1 /\ Held(0 .. N - 1) = Given /\ Top.n = N
      /\ Top \in DownItems /\ Top.i \in 1 .. N - 1 /\ p \in Nat /\ p < N
  BY <1>1, HeapFacts
<1>3. Sinking(Ranks, b, p) /\ Beyond(Ranks, b)
  BY <1>1 DEF HeapMode
<1>4. b \in Nat /\ b <= N
  BY <1>2
<1>5. Heaps(Ranks, b)
  <2> SUFFICES ASSUME NEW k \in 1 .. b - 1 PROVE Ranks[k] <= Ranks[Parent(k)]
    BY DEF Heaps
  <2>1. CASE Parent(k) # p
    BY <1>3, <2>1 DEF Sinking
  <2>2. CASE Parent(k) = p
    <3>1. 2 * Top.p + 1 < N - Top.i
      <4>1. k \in Nat \ {0} /\ k <= b - 1
        BY <1>4
      <4>2. k = 2 * p + 1 \/ k = 2 * p + 2
        BY <1>2, <2>2, <4>1, ParentFacts
      <4> QED
        BY <1>2, <1>4, <4>1, <4>2
    <3>2. PICK d : d = Child(p)
      OBVIOUS
    <3>3. d \in 1 .. b - 1 /\ Ranks[k] <= Ranks[d]
      BY <1>1, <2>2, <3>1, <3>2, ChildFacts
    <3>4. CM(mem[d], mem[p])
      BY <1>1, <1>2, <3>1, <3>2
    <3>5. d \in 0 .. N - 1 /\ p \in 0 .. N - 1 /\ k \in 0 .. N - 1
      BY <1>2, <1>4, <3>3
    <3>6. Ranks[d] <= Ranks[p] /\ Ranks[k] \in Nat /\ Ranks[d] \in Nat /\ Ranks[p] \in Nat
      BY <1>2, <3>4, <3>5, RanksFacts, CMFacts
    <3> QED
      BY <2>2, <3>3, <3>6
  <2> QED
    BY <2>1, <2>2
<1>6. c \in Items /\ ItemOK(c)
  BY <1>2 DEF Items, TakeItems, ItemOK
<1>7. c.op = "take" /\ c.i = Top.i + 1
  OBVIOUS
<1> HIDE DEF c
<1>8. mem' \in [Cells -> Elems \cup {Junk}] /\ Ranks' = Ranks /\ (Held(0 .. N - 1) = Given)'
      /\ N' = N
  BY <1>1, <1>2, SameSize DEF TypeInv, Ranks, Held
<1>9. TypeInv' /\ Depth' = 1 /\ calls' # <<>> /\ Top' = c
  BY <1>1, <1>2, <1>6, <1>8, HeapContinues
<1>10. (Heaps(Ranks, N - Top.i + 1) /\ Beyond(Ranks, N - Top.i + 1))'
  <2>1. N' - Top'.i + 1 = b
    BY <1>2, <1>7, <1>8, <1>9
  <2> QED
    BY <1>3, <1>5, <1>8, <2>1 DEF Heaps, Beyond
<1> QED
  BY <1>7, <1>8, <1>9, <1>10 DEF HeapMode

\* What there is to say of the array when no function runs.
ReturnInv == calls = <<>> => Held(0 .. N - 1) = Given /\ Sorted(0, N - 1)

\* The last item returns.
LEMMA LastReturns ==
  ASSUME TypeInv, calls # <<>>, Depth = 1, Return, mem' = mem, given' = given
  PROVE  TypeInv' /\ calls' = <<>>
<1>1. calls \in Seq(Items) /\ Len(calls) = 1
  BY DEF TypeInv, Depth
<1>2. calls' = Front(calls) \o <<>> /\ <<>> \in Seq(Items) /\ Len(<<>>) = 0
  BY DEF Return, Replace
<1>3. calls' \in Seq(Items) /\ Len(calls') = 0
  BY <1>1, <1>2, ReplaceFacts
<1>4. calls' = <<>>
  BY <1>3
<1> QED
  BY <1>4, SameSize DEF TypeInv

LEMMA HeapDoneStep ==
  ASSUME TypeInv, HeapMode, HeapDone
  PROVE  TypeInv' /\ ReturnInv' /\ calls' = <<>>
<1>1. /\ calls # <<>> /\ Top.op = "take" /\ Top.i >= Top.n
      /\ mem' = mem /\ Return /\ given' = given
  BY DEF HeapDone
<1>2. /\ N \in Nat /\ Depth = 1 /\ Held(0 .. N - 1) = Given /\ Top.n = N /\ Top.i \in Nat
  BY <1>1, HeapFacts
<1>3. Sorted(0, N - 1)
  <2> SUFFICES ASSUME NEW j \in 0 .. N - 1, NEW k \in 0 .. N - 1, j < k
               PROVE  Rank[mem[j]] <= Rank[mem[k]]
    BY DEF Sorted
  <2>1. k >= N - Top.i + 1
    BY <1>1, <1>2
  <2>2. Ranks[j] <= Ranks[k]
    BY <1>1, <2>1 DEF HeapMode, Beyond
  <2> QED
    BY <2>2 DEF Ranks
<1>4. (Held(0 .. N - 1) = Given)' /\ Sorted(0, N - 1)'
  BY <1>1, <1>2, <1>3, SameSize DEF Held, Sorted
<1> QED
  BY <1>1, <1>2, <1>4, LastReturns DEF ReturnInv

-----------------------------------------------------------------------------
(* The caller.                                                             *)

\* Without an array there is nothing to say.
LEMMA NoArray ==
  ASSUME mem = <<>>, given = <<>>, calls = <<>>
  PROVE  TypeInv /\ ReturnInv
<1>1. DOMAIN given = {}
  OBVIOUS
<1>2. N = 0
  BY <1>1, FS_EmptySet DEF N, Size
<1>3. Cells = {} /\ 0 .. N - 1 = {}
  BY <1>2 DEF Cells
<1>4. mem \in [{} -> Elems \cup {Junk}]
  OBVIOUS
<1>5. calls \in Seq(Items) /\ DOMAIN calls = {}
  OBVIOUS
<1>6. TypeInv
  BY <1>3, <1>4, <1>5 DEF TypeInv
<1>7. Held(0 .. N - 1) = Given /\ Sorted(0, N - 1)
  BY <1>3 DEF Held, Given, Sorted
<1> QED
  BY <1>6, <1>7 DEF ReturnInv

\* A function is given its array, and scratch space where it needs any.
LEMMA CallFacts ==
  ASSUME TypeInv, NEW arr \in Inputs, Call(arr)
  PROVE  /\ given' = arr /\ N' = Size(arr) /\ N' \in Nat
         /\ (Held(0 .. N - 1) = Given)'
         /\ \A c : calls' = <<c>> /\ c \in Items /\ ItemOK(c)'
              => TypeInv' /\ Depth' = 1 /\ calls' # <<>> /\ Top' = c
<1> DEFINE n == Size(arr)
<1>1. /\ given' = arr
      /\ mem' = [k \in 0 .. 2 * n - 1 |-> IF k < n THEN arr[k] ELSE Junk]
  BY DEF Call
<1>2. N' = n /\ n \in Nat /\ arr \in [0 .. n - 1 -> Elems]
  BY <1>1, ConstantsOK DEF N, ConstantsOK
<1> HIDE DEF n
<1>3. Cells' = 0 .. 2 * n - 1 /\ Given' = {arr[k] : k \in 0 .. n - 1}
  BY <1>1, <1>2 DEF Cells, Given
<1>4. mem' \in [Cells' -> Elems \cup {Junk}]
  <2>1. \A k \in 0 .. 2 * n - 1 : (IF k < n THEN arr[k] ELSE Junk) \in Elems \cup {Junk}
    BY <1>2
  <2> QED
    BY <1>1, <1>3, <2>1
<1>5. (Held(0 .. N - 1) = Given)'
  <2>1. \A k \in 0 .. n - 1 : mem'[k] = arr[k]
    BY <1>1, <1>2
  <2>2. {mem'[k] : k \in 0 .. n - 1} = {arr[k] : k \in 0 .. n - 1}
    BY <2>1
  <2> QED
    BY <1>2, <1>3, <2>2 DEF Held
<1>6. ASSUME NEW c, calls' = <<c>>, c \in Items, ItemOK(c)'
      PROVE  TypeInv' /\ Depth' = 1 /\ calls' # <<>> /\ Top' = c
  <2>1. calls' \in Seq(Items) /\ Len(calls') = 1 /\ DOMAIN calls' = {1} /\ calls'[1] = c
    BY <1>6
  <2>2. Depth' = 1 /\ calls' # <<>> /\ Top' = c
    BY <2>1 DEF Depth, Top, Last
  <2>3. (\A k \in DOMAIN calls : ItemOK(calls[k]))'
    <3> SUFFICES ASSUME NEW k \in DOMAIN calls' PROVE ItemOK(calls[k])'
      OBVIOUS
    <3>1. calls'[k] = c
      BY <2>1
    <3> QED
      BY <1>6, <3>1 DEF ItemOK
  <2> QED
    BY <1>1, <1>4, <2>1, <2>2, <2>3 DEF TypeInv
<1> QED
  BY <1>1, <1>2, <1>5, <1>6 DEF n

LEMMA HeapCall ==
  ASSUME TypeInv, NEW arr \in Inputs, Call(arr), calls' = <<Heap(Size(arr))>>
  PROVE  TypeInv' /\ HeapMode' /\ calls' # <<>>
<1> DEFINE c == Heap(Size(arr))
<1>1. /\ N' = Size(arr) /\ N' \in Nat /\ (Held(0 .. N - 1) = Given)'
      /\ \A x : calls' = <<x>> /\ x \in Items /\ ItemOK(x)'
              => TypeInv' /\ Depth' = 1 /\ calls' # <<>> /\ Top' = x
  BY CallFacts
<1>2. c \in Items /\ c.op = "up" /\ c.n = N' /\ c.i = 2 /\ c.j = 1
  BY <1>1 DEF Heap, Items, UpItems
<1> HIDE DEF c
<1>3. ItemOK(c)'
  BY <1>2 DEF ItemOK
<1>4. TypeInv' /\ Depth' = 1 /\ calls' # <<>> /\ Top' = c
  BY <1>1, <1>2, <1>3 DEF c
<1>5. Top'.op = "up" /\ Top'.n = N' /\ Top'.i = 2 /\ Top'.j = 1
  BY <1>2, <1>4
<1>6. Rising(Ranks', IF Top'.i < Top'.n THEN Top'.i ELSE Top'.n, Top'.j)
  <2>1. \A k \in 1 .. (IF 2 < N' THEN 2 ELSE N') - 1 : k = 1
    BY <1>1
  <2>2. Parent(1) # 1
    BY ParentFacts
  <2> QED
    BY <1>5, <2>1, <2>2 DEF Rising
<1>7. Top'.i > Top'.n => Top'.j >= Top'.n
  BY <1>1, <1>5
<1> QED
  BY <1>1, <1>4, <1>5, <1>6, <1>7 DEF HeapMode

-----------------------------------------------------------------------------
(* Quick sort, and insertion sort by itself.                               *)

\* The parts that are still to be sorted lie behind one another, the running
\* one first.
QuickStack ==
  /\ \A k \in DOMAIN calls :
       calls[k].op = "quick" \/ (k = Depth /\ calls[k].op \in {"insertion", "partition"})
  /\ \A k \in DOMAIN calls : calls[k].io + calls[k].n <= N
  /\ \A j, k \in DOMAIN calls : j < k => calls[k].io + calls[k].n <= calls[j].io

\* Elements that are not in the same part are in their order.
Parted ==
  \A j, k \in 0 .. N - 1 :
    j < k => \/ Rank[mem[j]] <= Rank[mem[k]]
             \/ \E c \in DOMAIN calls : j \in Target(calls[c]) /\ k \in Target(calls[c])

\* The pivot is held by the loop; the last place of the part holds some element
\* a second time.
PivotApart ==
  LET last == Top.io + Top.n - 1
  IN  /\ \A j \in 0 .. Top.io - 1 : Rank[mem[j]] <= Rank[Top.pval]
      /\ \A j \in last + 1 .. N - 1 : Rank[Top.pval] <= Rank[mem[j]]
      /\ \A j \in Top.io .. Top.start - 1 : Rank[mem[j]] <= Rank[Top.pval]
      /\ \A j \in Top.end + 1 .. last - 1 : Rank[Top.pval] <= Rank[mem[j]]
      /\ Values(mem, (0 .. N - 1) \ {last}) \cup {Top.pval} = Given
      /\ mem[last] \in Given

QuickMode ==
  /\ QuickStack /\ Parted
  /\ Top.op = "insertion" => Sorted(Top.io, Top.io + Top.i - 1)
  /\ Top.op = "partition" => PivotApart
  /\ Top.op # "partition" => Held(0 .. N - 1) = Given

LEMMA QuickTypes ==
  ASSUME TypeInv, QuickStack, NEW k \in DOMAIN calls
  PROVE  /\ calls[k].io \in Nat /\ calls[k].n \in Nat /\ calls[k].n >= 2
         /\ calls[k].io + calls[k].n <= N /\ N \in Nat
         /\ Target(calls[k]) \subseteq 0 .. N - 1
<1>1. N \in Nat /\ calls[k] \in Items /\ ItemOK(calls[k])
  BY GivenType DEF TypeInv
<1> DEFINE c == calls[k]
<1>2. c.op \in {"quick", "insertion", "partition"} /\ c.io + c.n <= N
  BY DEF QuickStack
<1> HIDE DEF c
<1>3. c \in Items /\ ItemOK(c)
  BY <1>1 DEF c
<1>4. c.io \in Nat /\ c.n \in Nat /\ c.n >= 2
  <2>1. CASE c.op = "quick"
    BY <1>3, <2>1, ItemKinds DEF QuickItems, ItemOK
  <2>2. CASE c.op = "insertion"
    BY <1>3, <2>2, ItemKinds DEF InsertionItems, ItemOK
  <2>3. CASE c.op = "partition"
    BY <1>3, <2>3, ItemKinds DEF PartitionItems, ItemOK
  <2> QED
    BY <1>2, <2>1, <2>2, <2>3
<1> QED
  BY <1>1, <1>2, <1>4 DEF c, Target

\* The running part does not share an element with another one.
LEMMA PartsApart ==
  ASSUME TypeInv, QuickStack, calls # <<>>, NEW k \in DOMAIN calls, k # Depth,
         NEW x \in Target(Top)
  PROVE  x \notin Target(calls[k])
<1>1. k \in 1 .. Depth /\ Depth \in DOMAIN calls /\ Top = calls[Depth] /\ Depth \in Nat
  BY TopFacts
<1>2. calls[Depth].io + calls[Depth].n <= calls[k].io
  BY <1>1 DEF QuickStack
<1>3. calls[k].io \in Nat /\ calls[k].n \in Nat
  BY QuickTypes
<1>4. calls[Depth].io \in Nat /\ calls[Depth].n \in Nat
  BY <1>1, QuickTypes
<1> QED
  BY <1>1, <1>2, <1>3, <1>4 DEF Target

\* What lies before the running part does not rank above it, what lies behind
\* not below it.
LEMMA Around ==
  ASSUME TypeInv, QuickStack, Parted, calls # <<>>,
         NEW x \in Target(Top), NEW j \in 0 .. N - 1
  PROVE  /\ j < Top.io => Rank[mem[j]] <= Rank[mem[x]]
         /\ j >= Top.io + Top.n => Rank[mem[x]] <= Rank[mem[j]]
<1>1. Depth \in DOMAIN calls /\ Top = calls[Depth]
  BY TopFacts
<1>2. Top.io \in Nat /\ Top.n \in Nat /\ x \in 0 .. N - 1 /\ N \in Nat
      /\ x >= Top.io /\ x < Top.io + Top.n
  BY <1>1, QuickTypes DEF Target
<1>3. ASSUME j \notin Target(Top)
      PROVE  /\ j < x => Rank[mem[j]] <= Rank[mem[x]]
             /\ x < j => Rank[mem[x]] <= Rank[mem[j]]
  <2>1. ASSUME NEW d \in DOMAIN calls PROVE ~(j \in Target(calls[d]) /\ x \in Target(calls[d]))
    <3>1. CASE d = Depth
      BY <1>1, <1>3, <3>1
    <3>2. CASE d # Depth
      BY <3>2, PartsApart
    <3> QED
      BY <3>1, <3>2
  <2> QED
    BY <1>2, <2>1 DEF Parted
<1>4. j < Top.io => j \notin Target(Top) /\ j < x
  BY <1>2 DEF Target
<1>5. j >= Top.io + Top.n => j \notin Target(Top) /\ x < j
  BY <1>2 DEF Target
<1> QED
  BY <1>3, <1>4, <1>5

\* An element that has its place in the running part.
Fits(x) ==
  \A j \in 0 .. N - 1 :
    /\ j < Top.io => Rank[mem[j]] <= Rank[x]
    /\ j >= Top.io + Top.n => Rank[x] <= Rank[mem[j]]

\* The running part is replaced by parts of it, when its elements have changed
\* their places, or one of them was put down that the loop held.
LEMMA PartsReplaced ==
  ASSUME TypeInv, QuickStack, Parted, calls # <<>>, given' = given,
         NEW items \in Seq(Items), Replace(items),
         \A k \in DOMAIN items :
           /\ ItemOK(items[k])
           /\ items[k].op = "quick" \/ (k = Len(items) /\ items[k].op \in {"insertion", "partition"})
           /\ Top.io <= items[k].io /\ items[k].io + items[k].n <= Top.io + Top.n,
         \A j, k \in DOMAIN items : j < k => items[k].io + items[k].n <= items[j].io,
         mem' \in [Cells -> Elems \cup {Junk}],
         \A x \in Cells \ Target(Top) : mem'[x] = mem[x],
         NEW v, Fits(v),
         \A x \in Target(Top) : mem'[x] = v \/ \E y \in Target(Top) : mem'[x] = mem[y],
         \A j, k \in Target(Top) :
           j < k => \/ Rank[mem'[j]] <= Rank[mem'[k]]
                    \/ \E d \in DOMAIN items : j \in Target(items[d]) /\ k \in Target(items[d])
  PROVE  /\ TypeInv' /\ QuickStack' /\ Parted'
         /\ Len(items) > 0 => calls' # <<>> /\ Top' = items[Len(items)]
         /\ Len(items) = 0 /\ calls' # <<>> => Top'.op = "quick"
<1> DEFINE c == Top
           m == Depth - 1
           r == Len(items)
<1>1. /\ Depth \in Nat \ {0} /\ DOMAIN calls = 1 .. Depth /\ Depth \in DOMAIN calls
      /\ c = calls[Depth] /\ calls \in Seq(Items) /\ Len(calls) = Depth
      /\ m \in Nat /\ r \in Nat
  BY TopFacts DEF TypeInv, Depth
<1>3. /\ calls' \in Seq(Items) /\ Len(calls') = m + r /\ DOMAIN calls' = 1 .. m + r
      /\ \A k \in 1 .. m : calls'[k] = calls[k]
      /\ \A k \in 1 .. r : calls'[m + k] = items[k]
  BY CallsReplaced
<1>4. /\ c.io \in Nat /\ c.n \in Nat /\ c.io + c.n <= N /\ N \in Nat
      /\ Target(c) \subseteq 0 .. N - 1
  BY <1>1, QuickTypes
<1>5. N' = N /\ Cells' = Cells
  BY SameSize
<1> HIDE DEF c, m, r
<1>6. DOMAIN items = 1 .. r /\ \A k \in 1 .. m : k \in DOMAIN calls /\ k # Depth /\ k < Depth
  BY <1>1 DEF m, r
<1>7. \A k \in DOMAIN calls' : k \in 1 .. m \/ (k - m \in 1 .. r /\ calls'[k] = items[k - m])
  <2> SUFFICES ASSUME NEW k \in 1 .. m + r, ~(k \in 1 .. m)
               PROVE  k - m \in 1 .. r /\ calls'[k] = items[k - m]
    BY <1>3
  <2>1. k - m \in 1 .. r /\ m + (k - m) = k
    BY <1>1
  <2> QED
    BY <1>3, <2>1
<1>8. (\A k \in DOMAIN calls : ItemOK(calls[k]))'
  <2> SUFFICES ASSUME NEW k \in DOMAIN calls' PROVE ItemOK(calls[k])'
    OBVIOUS
  <2> DEFINE d == calls'[k]
  <2>1. ItemOK(d)
    <3>1. CASE k \in 1 .. m
      BY <1>3, <1>6, <3>1 DEF TypeInv
    <3>2. CASE k - m \in 1 .. r /\ calls'[k] = items[k - m]
      BY <1>6, <3>2
    <3> QED
      BY <1>7, <3>1, <3>2
  <2> QED
    BY <1>5, <2>1 DEF ItemOK
<1>9. TypeInv'
  BY <1>3, <1>5, <1>8 DEF TypeInv
<1>10. QuickStack'
  <2>1. ASSUME NEW k \in DOMAIN calls'
        PROVE  /\ calls'[k].op = "quick"
                    \/ (k = m + r /\ calls'[k].op \in {"insertion", "partition"})
               /\ calls'[k].io + calls'[k].n <= N
    <3>1. CASE k \in 1 .. m
      BY <1>3, <1>6, <3>1 DEF QuickStack
    <3>2. CASE k - m \in 1 .. r /\ calls'[k] = items[k - m]
      <4>1. k - m = r => k = m + r
        BY <1>1, <1>3
      <4>2. calls'[k] \in Items
        BY <1>3
      <4>3. items[k - m].op = "quick" \/ (k - m = r /\ items[k - m].op \in {"insertion", "partition"})
        BY <1>6, <3>2 DEF r
      <4>4. calls'[k].io \in Int /\ calls'[k].n \in Int
        BY <3>2, <4>2, <4>3, ItemKinds DEF QuickItems, InsertionItems, PartitionItems
      <4>5. items[k - m].io + items[k - m].n <= c.io + c.n
        BY <1>6, <3>2 DEF c
      <4>6. calls'[k].io + calls'[k].n <= c.io + c.n
        BY <3>2, <4>5
      <4>7. calls'[k].io + calls'[k].n <= N
        BY <1>4, <4>4, <4>6
      <4>8. calls'[k].op = "quick"
              \/ (k = m + r /\ calls'[k].op \in {"insertion", "partition"})
        BY <3>2, <4>1, <4>3
      <4> QED
        BY <4>7, <4>8
    <3> QED
      BY <1>7, <3>1, <3>2
  <2>2. ASSUME NEW j \in DOMAIN calls', NEW k \in DOMAIN calls', j < k
        PROVE  calls'[k].io + calls'[k].n <= calls'[j].io
    <3>1. CASE k \in 1 .. m
      <4>1. j \in 1 .. m
        BY <1>1, <1>3, <2>2, <3>1
      <4> QED
        BY <1>3, <1>6, <2>2, <3>1, <4>1 DEF QuickStack
    <3>2. CASE j \in 1 .. m /\ k - m \in 1 .. r /\ calls'[k] = items[k - m]
      <4>1. c.io + c.n <= calls[j].io
        BY <1>1, <1>6, <3>2 DEF QuickStack, c
      <4>2. items[k - m].io + items[k - m].n <= c.io + c.n
        BY <1>6, <3>2 DEF c
      <4>3. calls'[j] = calls[j]
        BY <1>3, <3>2
      <4>4. calls[j].io \in Nat /\ calls[j].n \in Nat
        BY <1>6, <3>2, QuickTypes
      <4>5. calls'[k] \in Items /\ calls'[k].op \in {"quick", "insertion", "partition"}
        BY <1>3, <2>1
      <4>6. calls'[k].io \in Int /\ calls'[k].n \in Int
        BY <4>5, ItemKinds DEF QuickItems, InsertionItems, PartitionItems
      <4>7. calls'[k].io + calls'[k].n <= c.io + c.n
        BY <3>2, <4>2
      <4>8. c.io \in Nat /\ c.n \in Nat
        BY <1>4
      <4>9. calls'[k].io + calls'[k].n <= calls[j].io
        BY <4>1, <4>4, <4>6, <4>7, <4>8
      <4> QED
        BY <4>3, <4>9
    <3>3. CASE /\ j - m \in 1 .. r /\ calls'[j] = items[j - m]
               /\ k - m \in 1 .. r /\ calls'[k] = items[k - m]
      <4>1. j - m < k - m
        BY <1>1, <1>3, <2>2
      <4> QED
        BY <1>6, <3>3, <4>1
    <3> QED
      BY <1>7, <3>1, <3>2, <3>3
  <2>3. Depth' = m + r
    BY <1>3 DEF Depth
  <2> QED
    BY <1>5, <2>1, <2>2, <2>3 DEF QuickStack
<1>11. ASSUME NEW d \in DOMAIN calls, d # Depth
       PROVE  d \in DOMAIN calls' /\ calls'[d] = calls[d]
  <2>1. d \in 1 .. m
    BY <1>1, <1>11 DEF m
  <2> QED
    BY <1>1, <1>3, <2>1
<1>12. ASSUME NEW d \in DOMAIN items
       PROVE  \E e \in DOMAIN calls' : calls'[e] = items[d]
  <2>1. d \in 1 .. r /\ m + d \in 1 .. m + r
    BY <1>1, <1>6
  <2> QED
    BY <1>3, <2>1
<1>13. \A x \in 0 .. N - 1 : x \in Cells /\ (x \notin Target(c) => mem'[x] = mem[x])
  BY <1>4 DEF Cells, c
<1>14. Parted'
  <2> SUFFICES ASSUME NEW j \in 0 .. N - 1, NEW k \in 0 .. N - 1, j < k
               PROVE  \/ Rank[mem'[j]] <= Rank[mem'[k]]
                      \/ \E d \in DOMAIN calls' : j \in Target(calls'[d]) /\ k \in Target(calls'[d])
    BY <1>5 DEF Parted, Target
  <2>1. CASE j \in Target(c) /\ k \in Target(c)
    <3>1. \/ Rank[mem'[j]] <= Rank[mem'[k]]
          \/ \E d \in DOMAIN items : j \in Target(items[d]) /\ k \in Target(items[d])
      BY <2>1 DEF c
    <3> QED
      BY <1>12, <3>1
  <2>2. CASE j \notin Target(c) /\ k \notin Target(c)
    <3>1. mem'[j] = mem[j] /\ mem'[k] = mem[k]
      BY <1>13, <2>2
    <3>2. CASE Rank[mem[j]] <= Rank[mem[k]]
      BY <3>1, <3>2
    <3>3. CASE ~(Rank[mem[j]] <= Rank[mem[k]])
      <4>1. PICK d \in DOMAIN calls : j \in Target(calls[d]) /\ k \in Target(calls[d])
        BY <3>3 DEF Parted
      <4>2. d # Depth
        BY <1>1, <2>2, <4>1
      <4> QED
        BY <1>11, <4>1, <4>2
    <3> QED
      BY <3>2, <3>3
  <2>3. CASE j \notin Target(c) /\ k \in Target(c)
    <3>1. j < c.io
      BY <1>4, <2>3 DEF Target
    <3>2. mem'[j] = mem[j]
      BY <1>13, <2>3
    <3>3. CASE mem'[k] = v
      <4>1. Rank[mem[j]] <= Rank[v]
        BY <3>1 DEF c, Fits
      <4> QED
        BY <3>2, <3>3, <4>1
    <3>4. CASE \E y \in Target(c) : mem'[k] = mem[y]
      <4>1. PICK y \in Target(c) : mem'[k] = mem[y]
        BY <3>4
      <4>2. Rank[mem[j]] <= Rank[mem[y]]
        BY <3>1, Around DEF c
      <4> QED
        BY <3>2, <4>1, <4>2
    <3> QED
      BY <2>3, <3>3, <3>4 DEF c
  <2>4. CASE j \in Target(c) /\ k \notin Target(c)
    <3>1. k >= c.io + c.n
      BY <1>4, <2>4 DEF Target
    <3>2. mem'[k] = mem[k]
      BY <1>13, <2>4
    <3>3. CASE mem'[j] = v
      <4>1. Rank[v] <= Rank[mem[k]]
        BY <3>1 DEF c, Fits
      <4> QED
        BY <3>2, <3>3, <4>1
    <3>4. CASE \E y \in Target(c) : mem'[j] = mem[y]
      <4>1. PICK y \in Target(c) : mem'[j] = mem[y]
        BY <3>4
      <4>2. Rank[mem[y]] <= Rank[mem[k]]
        BY <3>1, Around DEF c
      <4> QED
        BY <3>2, <4>1, <4>2
    <3> QED
      BY <2>4, <3>3, <3>4 DEF c
  <2> QED
    BY <2>1, <2>2, <2>3, <2>4
<1>15. r > 0 => calls' # <<>> /\ Top' = items[r]
  <2> SUFFICES ASSUME r > 0 PROVE calls' # <<>> /\ Top' = items[r]
    OBVIOUS
  <2>1. r \in 1 .. r /\ Len(calls') = m + r /\ m + r > 0
    BY <1>1, <1>3
  <2> QED
    BY <1>3, <2>1 DEF Top, Last
<1>16. r = 0 /\ calls' # <<>> => Top'.op = "quick"
  <2> SUFFICES ASSUME r = 0, calls' # <<>> PROVE Top'.op = "quick"
    OBVIOUS
  <2>1. Len(calls') = m /\ m > 0 /\ m \in 1 .. m
    BY <1>1, <1>3
  <2>2. Top' = calls[m]
    BY <1>3, <2>1 DEF Top, Last
  <2>3. m \in DOMAIN calls /\ m # Depth
    BY <1>6, <2>1
  <2> QED
    BY <2>2, <2>3 DEF QuickStack
<1> QED
  BY <1>9, <1>10, <1>14, <1>15, <1>16 DEF r

\* g is f, but that the values on a part T of S have changed their places.
Shuffles(f, g, S, T) ==
  /\ T \subseteq S
  /\ \A x \in S \ T : g[x] = f[x]
  /\ \A x \in T : \E y \in T : g[x] = f[y]
  /\ \A y \in T : \E x \in T : g[x] = f[y]

LEMMA Shuffled ==
  ASSUME NEW S, NEW T, NEW f, NEW g, Shuffles(f, g, S, T)
  PROVE  Values(g, S) = Values(f, S)
<1>1. ASSUME NEW x \in S PROVE \E y \in S : g[x] = f[y]
  BY <1>1 DEF Shuffles
<1>2. ASSUME NEW y \in S PROVE \E x \in S : g[x] = f[y]
  <2>1. CASE y \in T
    BY <2>1 DEF Shuffles
  <2>2. CASE y \notin T
    BY <1>2, <2>2 DEF Shuffles
  <2> QED
    BY <2>1, <2>2
<1> QED
  BY <1>1, <1>2 DEF Values

\* All the array holds is elements.
LEMMA QuickElems ==
  ASSUME TypeInv, QuickMode, calls # <<>>
  PROVE  \A x \in 0 .. N - 1 : mem[x] \in Elems
<1>1. Given \subseteq Elems /\ N \in Nat
  BY GivenType
<1> SUFFICES ASSUME NEW x \in 0 .. N - 1 PROVE mem[x] \in Given
  BY <1>1
<1>2. CASE Top.op # "partition"
  BY <1>2 DEF QuickMode, Held
<1>3. CASE Top.op = "partition"
  <2>1. Values(mem, (0 .. N - 1) \ {Top.io + Top.n - 1}) \cup {Top.pval} = Given
        /\ mem[Top.io + Top.n - 1] \in Given
    BY <1>3 DEF QuickMode, PivotApart
  <2>2. x # Top.io + Top.n - 1 => mem[x] \in Values(mem, (0 .. N - 1) \ {Top.io + Top.n - 1})
    BY DEF Values
  <2> QED
    BY <2>1, <2>2
<1> QED
  BY <1>2, <1>3

\* The running item, the place of its part in the array, and its elements.
LEMMA QuickTop ==
  ASSUME TypeInv, QuickMode, calls # <<>>
  PROVE  /\ Top \in Items /\ ItemOK(Top)
         /\ Top.io \in Nat /\ Top.n \in Nat /\ Top.n >= 2 /\ Top.io + Top.n <= N /\ N \in Nat
         /\ Target(Top) \subseteq 0 .. N - 1 /\ 0 .. N - 1 \subseteq Cells
         /\ \A x \in 0 .. N - 1 : mem[x] \in Elems
         /\ \A x : x \in Target(Top) <=> x \in Int /\ Top.io <= x /\ x < Top.io + Top.n
<1>1. Depth \in DOMAIN calls /\ Top = calls[Depth] /\ Top \in Items /\ ItemOK(Top)
  BY TopFacts
<1>2. /\ Top.io \in Nat /\ Top.n \in Nat /\ Top.n >= 2 /\ Top.io + Top.n <= N /\ N \in Nat
      /\ Target(Top) \subseteq 0 .. N - 1
  BY <1>1, QuickTypes DEF QuickMode
<1>3. 0 .. N - 1 \subseteq Cells
  BY <1>2 DEF Cells
<1>4. \A x : x \in Target(Top) <=> x \in Int /\ Top.io <= x /\ x < Top.io + Top.n
  BY <1>2 DEF Target
<1> QED
  BY <1>1, <1>2, <1>3, <1>4, QuickElems

\* When nothing is held the part may have been shuffled.
LEMMA PartsShuffled ==
  ASSUME TypeInv, QuickMode, calls # <<>>, given' = given, Top.op # "partition",
         NEW items \in Seq(Items), Replace(items),
         \A k \in DOMAIN items :
           /\ ItemOK(items[k])
           /\ items[k].op = "quick" \/ (k = Len(items) /\ items[k].op \in {"insertion", "partition"})
           /\ Top.io <= items[k].io /\ items[k].io + items[k].n <= Top.io + Top.n,
         \A j, k \in DOMAIN items : j < k => items[k].io + items[k].n <= items[j].io,
         mem' \in [Cells -> Elems \cup {Junk}],
         \A x \in Cells \ Target(Top) : mem'[x] = mem[x],
         \A x \in Target(Top) : \E y \in Target(Top) : mem'[x] = mem[y],
         \A y \in Target(Top) : \E x \in Target(Top) : mem'[x] = mem[y],
         \A j, k \in Target(Top) :
           j < k => \/ Rank[mem'[j]] <= Rank[mem'[k]]
                    \/ \E d \in DOMAIN items : j \in Target(items[d]) /\ k \in Target(items[d])
  PROVE  /\ TypeInv' /\ QuickStack' /\ Parted' /\ (Held(0 .. N - 1) = Given)'
         /\ Len(items) > 0 => calls' # <<>> /\ Top' = items[Len(items)]
         /\ Len(items) = 0 /\ calls' # <<>> => Top'.op = "quick"
<1>1. /\ Top.io \in Target(Top) /\ QuickStack /\ Parted
      /\ Target(Top) \subseteq 0 .. N - 1 /\ 0 .. N - 1 \subseteq Cells
  <2>1. /\ Top.io \in Nat /\ Top.n \in Nat /\ Top.n >= 2
        /\ Target(Top) \subseteq 0 .. N - 1 /\ 0 .. N - 1 \subseteq Cells
    BY QuickTop
  <2>2. Top.io \in Target(Top)
    BY <2>1 DEF Target
  <2> QED
    BY <2>1, <2>2 DEF QuickMode
<1> DEFINE v == mem[Top.io]
<1>2. Fits(v)
  BY <1>1, Around DEF Fits
<1> HIDE DEF v
<1>3. \A x \in Target(Top) : mem'[x] = v \/ \E y \in Target(Top) : mem'[x] = mem[y]
  OBVIOUS
<1>4. /\ TypeInv' /\ QuickStack' /\ Parted'
      /\ Len(items) > 0 => calls' # <<>> /\ Top' = items[Len(items)]
      /\ Len(items) = 0 /\ calls' # <<>> => Top'.op = "quick"
  BY <1>1, <1>2, <1>3, PartsReplaced
<1>5. (Held(0 .. N - 1) = Given)'
  <2>1. Held(0 .. N - 1) = Given
    BY DEF QuickMode
  <2>2. \A x \in (0 .. N - 1) \ Target(Top) : mem'[x] = mem[x]
    BY <1>1
  <2>3. Values(mem', 0 .. N - 1) = Values(mem, 0 .. N - 1)
    <3>1. Shuffles(mem, mem', 0 .. N - 1, Target(Top))
      BY <1>1, <2>2 DEF Shuffles
    <3> QED
      BY <3>1, Shuffled
  <2>4. N' = N /\ Given' = Given
    BY SameSize
  <2> QED
    BY <2>1, <2>3, <2>4 DEF Held, Values
<1> QED
  BY <1>4, <1>5

\* What a part leaves when it has been sorted.
Onward == IF calls = <<>> THEN ReturnInv ELSE QuickMode

\* A part was sorted, and the next one is up.
LEMMA NextPart ==
  TypeInv /\ QuickStack /\ Parted /\ Held(0 .. N - 1) = Given
    /\ (calls # <<>> => Top.op = "quick")
  => Onward
<1> SUFFICES ASSUME TypeInv, QuickStack, Parted, Held(0 .. N - 1) = Given,
                    calls # <<>> => Top.op = "quick"
             PROVE  Onward
  OBVIOUS
<1>1. CASE calls = <<>>
  <2>1. DOMAIN calls = {}
    BY <1>1
  <2>2. Sorted(0, N - 1)
    BY <2>1 DEF Parted, Sorted
  <2> QED
    BY <1>1, <2>2 DEF ReturnInv, Onward
<1>2. CASE calls # <<>>
  BY <1>2 DEF QuickMode, Onward
<1> QED
  BY <1>1, <1>2

LEMMA QuickFewStep ==
  ASSUME TypeInv, QuickMode, QuickFew
  PROVE  TypeInv' /\ QuickMode' /\ calls' # <<>>
<1> DEFINE c == Insertion(Top.io, Top.n)
<1>1. /\ calls # <<>> /\ Top.op = "quick" /\ Continue(c) /\ mem' = mem /\ given' = given
  BY DEF QuickFew
<1>2. /\ Top.io \in Nat /\ Top.n \in Nat /\ Top.n >= 2 /\ Top.io + Top.n <= N /\ N \in Nat
      /\ Target(Top) \subseteq 0 .. N - 1 /\ 0 .. N - 1 \subseteq Cells
  BY <1>1, QuickTop
<1>3. c \in Items /\ c.op = "insertion" /\ c.io = Top.io /\ c.n = Top.n /\ c.i = 1
  BY <1>2 DEF Insertion, Items, InsertionItems
<1> HIDE DEF c
<1>4. ItemOK(c) /\ Target(c) = Target(Top)
  BY <1>2, <1>3 DEF ItemOK, Target
<1> DEFINE items == <<c>>
<1>5. /\ items \in Seq(Items) /\ DOMAIN items = {1} /\ items[1] = c /\ Len(items) = 1
      /\ Replace(items)
  BY <1>1, <1>3 DEF Continue
<1> HIDE DEF items
<1>6. \A k \in DOMAIN items :
        /\ ItemOK(items[k])
        /\ items[k].op = "quick" \/ (k = Len(items) /\ items[k].op \in {"insertion", "partition"})
        /\ Top.io <= items[k].io /\ items[k].io + items[k].n <= Top.io + Top.n
  BY <1>2, <1>3, <1>4, <1>5
<1>7. \A j, k \in DOMAIN items : j < k => items[k].io + items[k].n <= items[j].io
  BY <1>5
<1>8. mem' \in [Cells -> Elems \cup {Junk}]
  BY <1>1 DEF TypeInv
<1>9. \A j, k \in Target(Top) :
        j < k => \E d \in DOMAIN items : j \in Target(items[d]) /\ k \in Target(items[d])
  BY <1>4, <1>5
<1>10. TypeInv' /\ QuickStack' /\ Parted' /\ (Held(0 .. N - 1) = Given)' /\ calls' # <<>> /\ Top' = c
  <2>1. /\ Top.op # "partition" /\ \A x \in Cells \ Target(Top) : mem'[x] = mem[x]
        /\ \A x \in Target(Top) : \E y \in Target(Top) : mem'[x] = mem[y]
        /\ \A y \in Target(Top) : \E x \in Target(Top) : mem'[x] = mem[y]
    BY <1>1
  <2>2. \A j, k \in Target(Top) :
          j < k => \/ Rank[mem'[j]] <= Rank[mem'[k]]
                   \/ \E d \in DOMAIN items : j \in Target(items[d]) /\ k \in Target(items[d])
    BY <1>9
  <2>3. /\ TypeInv' /\ QuickStack' /\ Parted' /\ (Held(0 .. N - 1) = Given)'
        /\ Len(items) > 0 => calls' # <<>> /\ Top' = items[Len(items)]
    BY <1>1, <1>5, <1>6, <1>7, <1>8, <2>1, <2>2, PartsShuffled
  <2> QED
    BY <1>5, <2>3
<1>11. Top'.op = "insertion" /\ Sorted(Top.io, Top.io + Top.i - 1)'
  <2>1. Top'.io + Top'.i - 1 = Top'.io /\ Top'.io \in Nat
    BY <1>2, <1>3, <1>10
  <2> QED
    BY <1>3, <1>10, <2>1 DEF Sorted
<1> QED
  BY <1>10, <1>11 DEF QuickMode

LEMMA PartInsertDone ==
  ASSUME TypeInv, QuickMode, InsertDone
  PROVE  TypeInv' /\ Onward'
<1>1. /\ calls # <<>> /\ Top.op = "insertion" /\ Top.i >= Top.n
      /\ Replace(<<>>) /\ mem' = mem /\ given' = given
  BY DEF InsertDone, Return
<1>2. /\ Top.io \in Nat /\ Top.n \in Nat /\ Top.n >= 2 /\ Top.io + Top.n <= N /\ N \in Nat
      /\ Target(Top) \subseteq 0 .. N - 1 /\ 0 .. N - 1 \subseteq Cells
  BY <1>1, QuickTop
<1>3. Top.i = Top.n
  BY <1>1, <1>2, QuickTop DEF ItemOK
<1>4. Sorted(Top.io, Top.io + Top.n - 1)
  BY <1>1, <1>3 DEF QuickMode
<1> DEFINE items == <<>>
<1>5. items \in Seq(Items) /\ DOMAIN items = {} /\ Len(items) = 0
  OBVIOUS
<1>6. Replace(items)
  BY <1>1
<1> HIDE DEF items
<1>7. mem' \in [Cells -> Elems \cup {Junk}]
  BY <1>1 DEF TypeInv
<1>8. \A j, k \in Target(Top) : j < k => Rank[mem'[j]] <= Rank[mem'[k]]
  BY <1>1, <1>4 DEF Sorted, Target
<1>9. /\ TypeInv' /\ QuickStack' /\ Parted' /\ (Held(0 .. N - 1) = Given)'
      /\ (calls # <<>> => Top.op = "quick")'
  BY <1>1, <1>2, <1>5, <1>6, <1>7, <1>8, PartsShuffled
<1> QED
  BY <1>9, NextPart, PTL

LEMMA PartInsert ==
  ASSUME TypeInv, QuickMode, Insert
  PROVE  TypeInv' /\ QuickMode' /\ calls' # <<>>
<1> DEFINE at == Top.io + Gap(Top.io, Top.i)
           from == Top.io + Top.i
           c == [Top EXCEPT !.i = @ + 1]
           items == <<c>>
<1>1. /\ calls # <<>> /\ Top.op = "insertion" /\ Top.i < Top.n /\ Continue(c) /\ given' = given
      /\ mem' = [k \in DOMAIN mem |-> IF k = at THEN mem[from]
                                      ELSE IF at < k /\ k <= from THEN mem[k - 1]
                                      ELSE mem[k]]
  BY DEF Insert
<1>2. /\ Top \in Items /\ ItemOK(Top)
      /\ Top.io \in Nat /\ Top.n \in Nat /\ Top.n >= 2 /\ Top.io + Top.n <= N /\ N \in Nat
      /\ Target(Top) \subseteq 0 .. N - 1 /\ 0 .. N - 1 \subseteq Cells
      /\ \A x \in 0 .. N - 1 : mem[x] \in Elems
  BY <1>1, QuickTop
<1>3. Top \in InsertionItems /\ Top.i \in 1 .. Top.n /\ Sorted(Top.io, Top.io + Top.i - 1)
  BY <1>1, <1>2, ItemKinds DEF ItemOK, QuickMode
<1>4. /\ c \in InsertionItems /\ c.op = "insertion" /\ c.io = Top.io /\ c.n = Top.n /\ c.i = Top.i + 1
  BY <1>3 DEF InsertionItems
<1> HIDE DEF c
<1>5. c \in Items /\ ItemOK(c) /\ Target(c) = Target(Top)
  <2>1. c.n >= 2 /\ c.i \in 1 .. c.n /\ c.io + c.n <= 2 * N
    BY <1>1, <1>2, <1>3, <1>4
  <2> QED
    BY <1>4, <2>1 DEF ItemOK, Items, Target
<1>6. /\ mem' \in [Cells -> Elems \cup {Junk}]
      /\ \A x \in Cells \ Target(Top) : mem'[x] = mem[x]
      /\ \A x \in Target(Top) : \E y \in Target(Top) : mem'[x] = mem[y]
      /\ \A y \in Target(Top) : \E x \in Target(Top) : mem'[x] = mem[y]
      /\ \A j, k \in Top.io .. from : j < k => Rank[mem'[j]] <= Rank[mem'[k]]
  <2> DEFINE t == Top
  <2>1. \A x \in Target(t) : mem[x] \in Elems
    BY <1>2
  <2>2. /\ mem' \in [Cells -> Elems \cup {Junk}]
        /\ \A x \in Cells \ Target(t) : mem'[x] = mem[x]
        /\ \A x \in Target(t) : \E y \in Target(t) : mem'[x] = mem[y]
        /\ \A y \in Target(t) : \E x \in Target(t) : mem'[x] = mem[y]
        /\ \A j, k \in t.io .. from : j < k => Rank[mem'[j]] <= Rank[mem'[k]]
    <3> PICK u : u = Top
      OBVIOUS
    <3> PICK a, f : a = at /\ f = from
      OBVIOUS
    <3>1. /\ u \in InsertionItems /\ ItemOK(u) /\ u.i < u.n
          /\ \A x \in Target(u) : mem[x] \in Elems
          /\ Sorted(u.io, u.io + u.i - 1)
          /\ f = u.io + u.i /\ a = u.io + Gap(u.io, u.i)
      BY <1>1, <1>2, <1>3, <2>1
    <3>2. Inserted(mem, mem', a, f)
      BY <1>1 DEF Inserted
    <3>3. /\ mem' \in [Cells -> Elems \cup {Junk}]
          /\ \A x \in Cells \ Target(u) : mem'[x] = mem[x]
          /\ \A x \in Target(u) : \E y \in Target(u) : mem'[x] = mem[y]
          /\ \A y \in Target(u) : \E x \in Target(u) : mem'[x] = mem[y]
          /\ Sorted(u.io, f)'
      BY <3>1, <3>2, InsertFacts
    <3> QED
      BY <3>3 DEF Sorted
  <2> QED
    BY <2>2
<1> HIDE DEF at, from
<1>7. /\ items \in Seq(Items) /\ DOMAIN items = {1} /\ items[1] = c /\ Len(items) = 1
      /\ Replace(items)
  BY <1>1, <1>5 DEF Continue
<1> HIDE DEF items
<1>8. \A k \in DOMAIN items :
        /\ ItemOK(items[k])
        /\ items[k].op = "quick" \/ (k = Len(items) /\ items[k].op \in {"insertion", "partition"})
        /\ Top.io <= items[k].io /\ items[k].io + items[k].n <= Top.io + Top.n
  BY <1>2, <1>4, <1>5, <1>7
<1>9. \A j, k \in DOMAIN items : j < k => items[k].io + items[k].n <= items[j].io
  BY <1>7
<1>10. \A j, k \in Target(Top) :
         j < k => \/ Rank[mem'[j]] <= Rank[mem'[k]]
                  \/ \E d \in DOMAIN items : j \in Target(items[d]) /\ k \in Target(items[d])
  BY <1>5, <1>7
<1>11. /\ TypeInv' /\ QuickStack' /\ Parted' /\ (Held(0 .. N - 1) = Given)'
       /\ Len(items) > 0 => calls' # <<>> /\ Top' = items[Len(items)]
  BY <1>1, <1>6, <1>7, <1>8, <1>9, <1>10, PartsShuffled
<1>12. calls' # <<>> /\ Top' = c
  BY <1>7, <1>11
<1>13. Top'.op = "insertion" /\ Sorted(Top.io, Top.io + Top.i - 1)'
  <2>1. Top'.io = Top.io /\ Top'.io + Top'.i - 1 = from
    BY <1>2, <1>3, <1>4, <1>12 DEF from
  <2> QED
    BY <1>4, <1>6, <1>12, <2>1 DEF Sorted
<1> QED
  BY <1>11, <1>12, <1>13 DEF QuickMode

LEMMA MiddleFacts ==
  ASSUME NEW f, NEW m, NEW l
  PROVE  MiddleOf(f, m, l) \in {f, m, l}
<1>1. \A p, q : InOrder(p, q) \in {<<p, q>>, <<q, p>>}
  BY DEF InOrder
<1> DEFINE a == InOrder(l, m)
           b == InOrder(f, a[1])
<1>2. a[1] \in {l, m} /\ a[2] \in {l, m}
  BY <1>1
<1> HIDE DEF a
<1>3. b[2] \in {f, a[1]}
  BY <1>1
<1> HIDE DEF b
<1>4. InOrder(b[2], a[2])[1] \in {b[2], a[2]}
  BY <1>1
<1> QED
  BY <1>2, <1>3, <1>4 DEF MiddleOf, a, b

\* An element is taken out, and the one at the end put where it was.
LEMMA TakenOut ==
  ASSUME NEW S, NEW a \in S, NEW b \in S, NEW f, NEW g,
         g[a] = f[b], \A x \in S \ {a} : g[x] = f[x]
  PROVE  Values(g, S \ {b}) \cup {f[a]} = Values(f, S)
<1>1. ASSUME NEW x \in S \ {b} PROVE \E y \in S : g[x] = f[y]
  OBVIOUS
<1>2. ASSUME NEW y \in S PROVE f[y] = f[a] \/ \E x \in S \ {b} : g[x] = f[y]
  <2>1. CASE y = b
    BY <2>1
  <2>2. CASE y # b
    BY <2>2
  <2> QED
    BY <2>1, <2>2
<1> QED
  BY <1>1, <1>2 DEF Values

\* It is put back at a, and the one that is there goes to the end b.
Replaced(f, g, S, a, b, v) ==
  /\ a \in S /\ b \in S /\ g[a] = v
  /\ b # a => g[b] = f[a]
  /\ \A x \in S \ {a, b} : g[x] = f[x]

LEMMA PutBack ==
  ASSUME NEW S, NEW a, NEW b, NEW f, NEW g, NEW v, Replaced(f, g, S, a, b, v)
  PROVE  Values(g, S) = Values(f, S \ {b}) \cup {v}
<1>1. ASSUME NEW x \in S PROVE g[x] = v \/ \E y \in S \ {b} : g[x] = f[y]
  <2>1. CASE x = b
    BY <2>1 DEF Replaced
  <2>2. CASE x # b
    BY <2>2 DEF Replaced
  <2> QED
    BY <2>1, <2>2
<1>2. ASSUME NEW y \in S \ {b} PROVE \E x \in S : g[x] = f[y]
  BY DEF Replaced
<1> QED
  BY <1>1, <1>2 DEF Values, Replaced

\* What the loop of the partitioning must find, and leave.
LEMMA PartitionIs ==
  ASSUME TypeInv', QuickStack', Parted', given' = given, calls' # <<>>, NEW c \in PartitionItems, Top' = c,
         NEW last, last = c.io + c.n - 1,
         \A j \in 0 .. c.io - 1 : Rank[mem'[j]] <= Rank[c.pval],
         \A j \in last + 1 .. N - 1 : Rank[c.pval] <= Rank[mem'[j]],
         \A j \in c.io .. c.start - 1 : Rank[mem'[j]] <= Rank[c.pval],
         \A j \in c.end + 1 .. last - 1 : Rank[c.pval] <= Rank[mem'[j]],
         Values(mem', (0 .. N - 1) \ {last}) \cup {c.pval} = Given, mem'[last] \in Given
  PROVE  QuickMode'
<1>1. N' = N /\ Given' = Given
  BY SameSize
<1>2. Top'.io + Top'.n - 1 = last
  OBVIOUS
<1>3. (\A j \in 0 .. Top.io - 1 : Rank[mem[j]] <= Rank[Top.pval])'
  OBVIOUS
<1>4. (\A j \in Top.io + Top.n - 1 + 1 .. N - 1 : Rank[Top.pval] <= Rank[mem[j]])'
  BY <1>1, <1>2
<1>5. (\A j \in Top.io .. Top.start - 1 : Rank[mem[j]] <= Rank[Top.pval])'
  OBVIOUS
<1>6. (\A j \in Top.end + 1 .. Top.io + Top.n - 1 - 1 : Rank[Top.pval] <= Rank[mem[j]])'
  <2>1. c.io \in Nat /\ c.n \in Nat
    BY DEF PartitionItems
  <2>2. Top'.io + Top'.n - 1 - 1 = last - 1
    BY <1>2, <2>1
  <2> QED
    BY <2>2
<1>7. (Values(mem, (0 .. N - 1) \ {Top.io + Top.n - 1}) \cup {Top.pval} = Given)'
  BY <1>1, <1>2
<1>8. (mem[Top.io + Top.n - 1] \in Given)'
  BY <1>1, <1>2
<1>9. PivotApart'
  BY <1>3, <1>4, <1>5, <1>6, <1>7, <1>8 DEF PivotApart
<1> QED
  BY <1>9 DEF QuickMode, PartitionItems

LEMMA PivotStep ==
  ASSUME TypeInv, QuickMode, Pivot
  PROVE  TypeInv' /\ QuickMode' /\ calls' # <<>>
<1> DEFINE io == Top.io
           n == Top.n
           last == io + n - 1
           p2 == IF n >= QuickMedian THEN MiddleOf(io, io + (n - 1) \div 2, last) ELSE last
           c == [op |-> "partition", io |-> io, n |-> n, start |-> io, end |-> last - 1,
                 pval |-> mem[p2]]
           items == <<c>>
           S == 0 .. N - 1
<1>1. /\ calls # <<>> /\ Top.op = "quick" /\ n >= QuickSmall /\ given' = given
      /\ mem' = [mem EXCEPT ![p2] = mem[last]] /\ Replace(items)
  BY DEF Pivot, Continue
<1>2. /\ io \in Nat /\ n \in Nat /\ io + n <= N /\ N \in Nat
      /\ Target(Top) \subseteq S /\ S \subseteq Cells
      /\ \A x \in S : mem[x] \in Elems
      /\ \A x : x \in Target(Top) <=> x \in Int /\ io <= x /\ x < io + n
  BY <1>1, QuickTop
<1>3. n >= 3
  BY <1>1, <1>2, ConstantsOK DEF ConstantsOK
<1>4. last \in Nat /\ last - 1 \in Nat /\ last \in Target(Top) /\ last = io + n - 1
  BY <1>2, <1>3
<1>5. p2 \in Target(Top)
  <2>1. io \in Target(Top) /\ io + (n - 1) \div 2 \in Target(Top)
    BY <1>2, <1>3
  <2> HIDE DEF io, n, last
  <2>2. p2 \in {io, io + (n - 1) \div 2, last}
    BY MiddleFacts
  <2> QED
    BY <1>4, <2>1, <2>2
<1>6. QuickStack /\ Parted /\ Values(mem, S) = Given
  BY <1>1 DEF QuickMode, Held, Values
<1> HIDE DEF p2
<1>7. c \in PartitionItems /\ c \in Items
  BY <1>2, <1>4, <1>5 DEF PartitionItems, Items
<1>8. /\ c.op = "partition" /\ c.io = io /\ c.n = n /\ c.start = io /\ c.end = last - 1
      /\ c.pval = mem[p2]
  OBVIOUS
<1> HIDE DEF c
<1>9. ItemOK(c) /\ Target(c) = Target(Top)
  <2>1. /\ c.n > 2 /\ c.io + c.n <= N /\ c.io <= c.start /\ c.start < c.io + c.n
        /\ c.io <= c.end + 1 /\ c.end <= c.io + c.n - 2
    BY <1>2, <1>3, <1>8
  <2> QED
    BY <1>8, <2>1 DEF ItemOK, Target
<1> HIDE DEF S, last
<1>10. /\ items \in Seq(Items) /\ DOMAIN items = {1} /\ items[1] = c /\ Len(items) = 1
       /\ Replace(items)
  BY <1>1, <1>7
<1> HIDE DEF items
<1>11. \A k \in DOMAIN items :
         /\ ItemOK(items[k])
         /\ items[k].op = "quick" \/ (k = Len(items) /\ items[k].op \in {"insertion", "partition"})
         /\ Top.io <= items[k].io /\ items[k].io + items[k].n <= Top.io + Top.n
  BY <1>2, <1>8, <1>9, <1>10
<1>12. \A j, k \in DOMAIN items : j < k => items[k].io + items[k].n <= items[j].io
  BY <1>10
<1>13. /\ mem' \in [Cells -> Elems \cup {Junk}]
       /\ mem'[p2] = mem[last] /\ \A x \in Cells : x # p2 => mem'[x] = mem[x]
  BY <1>1, <1>2, <1>4, <1>5 DEF TypeInv
<1>14. /\ \A x \in Cells \ Target(Top) : mem'[x] = mem[x]
       /\ \A x \in Target(Top) : \E y \in Target(Top) : mem'[x] = mem[y]
  BY <1>2, <1>4, <1>5, <1>13
<1>15. \A j, k \in Target(Top) :
         j < k => \E d \in DOMAIN items : j \in Target(items[d]) /\ k \in Target(items[d])
  BY <1>9, <1>10
<1> DEFINE v == mem[p2]
<1>16. Fits(v)
  BY <1>1, <1>5, <1>6, Around DEF Fits
<1>17. /\ TypeInv' /\ QuickStack' /\ Parted' /\ calls' # <<>> /\ Top' = c
  <2> HIDE DEF v
  <2>1. \A x \in Target(Top) : mem'[x] = v \/ \E y \in Target(Top) : mem'[x] = mem[y]
    BY <1>14
  <2>2. \A j, k \in Target(Top) :
          j < k => \/ Rank[mem'[j]] <= Rank[mem'[k]]
                   \/ \E d \in DOMAIN items : j \in Target(items[d]) /\ k \in Target(items[d])
    BY <1>15
  <2>3. /\ TypeInv' /\ QuickStack' /\ Parted'
        /\ Len(items) > 0 => calls' # <<>> /\ Top' = items[Len(items)]
    BY <1>1, <1>6, <1>10, <1>11, <1>12, <1>13, <1>14, <1>16, <2>1, <2>2, PartsReplaced
  <2> QED
    BY <1>10, <2>3
<1>18. N' = N /\ Given' = Given
  BY <1>1, SameSize
<1>19. Values(mem', S \ {last}) \cup {v} = Given
  <2>1. last \in S /\ p2 \in S /\ \A x \in S \ {p2} : mem'[x] = mem[x]
    BY <1>2, <1>4, <1>5, <1>13
  <2>2. Values(mem', S \ {last}) \cup {mem[p2]} = Values(mem, S)
    <3> HIDE DEF last
    <3> QED
      BY <1>13, <2>1, TakenOut
  <2> QED
    BY <1>6, <2>2
<1>20. mem'[last] \in Given
  <2>1. mem'[last] = mem[last]
    BY <1>2, <1>4, <1>13
  <2>2. mem[last] \in Values(mem, S)
    BY <1>2, <1>4 DEF Values
  <2> QED
    BY <1>6, <2>1, <2>2
<1>21. QuickMode'
  <2>1. \A j \in 0 .. io - 1 : Rank[mem'[j]] <= Rank[v]
    <3> SUFFICES ASSUME NEW j \in 0 .. io - 1 PROVE Rank[mem'[j]] <= Rank[v]
      OBVIOUS
    <3>1. j \in S /\ j \in 0 .. N - 1 /\ j < Top.io /\ j # p2
      BY <1>2, <1>5 DEF S
    <3>2. mem'[j] = mem[j]
      BY <1>2, <1>13, <3>1
    <3>3. Rank[mem[j]] <= Rank[v]
      BY <1>16, <3>1 DEF Fits
    <3> QED
      BY <3>2, <3>3
  <2>2. \A j \in last + 1 .. N - 1 : Rank[v] <= Rank[mem'[j]]
    <3> SUFFICES ASSUME NEW j \in last + 1 .. N - 1 PROVE Rank[v] <= Rank[mem'[j]]
      OBVIOUS
    <3>1. j \in S /\ j \in 0 .. N - 1 /\ j >= Top.io + Top.n /\ j # p2
      BY <1>2, <1>4, <1>5 DEF S
    <3>2. mem'[j] = mem[j]
      BY <1>2, <1>13, <3>1
    <3>3. Rank[v] <= Rank[mem[j]]
      BY <1>16, <3>1 DEF Fits
    <3> QED
      BY <3>2, <3>3
  <2>3. /\ \A j \in c.io .. c.start - 1 : FALSE
        /\ \A j \in c.end + 1 .. last - 1 : FALSE
    BY <1>2, <1>4, <1>8
  <2>4. /\ \A j \in c.io .. c.start - 1 : Rank[mem'[j]] <= Rank[v]
        /\ \A j \in c.end + 1 .. last - 1 : Rank[v] <= Rank[mem'[j]]
    BY <2>3
  <2>5. last = c.io + c.n - 1 /\ c.pval = v
    BY <1>4, <1>8
  <2> HIDE DEF v, last
  <2>6. /\ \A j \in 0 .. c.io - 1 : Rank[mem'[j]] <= Rank[c.pval]
        /\ \A j \in last + 1 .. N - 1 : Rank[c.pval] <= Rank[mem'[j]]
        /\ \A j \in c.io .. c.start - 1 : Rank[mem'[j]] <= Rank[c.pval]
        /\ \A j \in c.end + 1 .. last - 1 : Rank[c.pval] <= Rank[mem'[j]]
    BY <1>8, <2>1, <2>2, <2>4, <2>5
  <2>7. Values(mem', (0 .. N - 1) \ {last}) \cup {c.pval} = Given /\ mem'[last] \in Given
    BY <1>19, <1>20, <2>5 DEF S
  <2> QED
    BY <1>1, <1>7, <1>17, <2>5, <2>6, <2>7, PartitionIs
<1> QED
  BY <1>17, <1>21

\* What the loop that partitions can rely on.
LEMMA PartitionFacts ==
  ASSUME TypeInv, QuickMode, calls # <<>>, Top.op = "partition",
         NEW last, last = Top.io + Top.n - 1
  PROVE  /\ Top \in PartitionItems /\ ItemOK(Top) /\ QuickStack /\ Parted
         /\ Top.io \in Nat /\ Top.n \in Nat /\ Top.n > 2 /\ Top.io + Top.n <= N /\ N \in Nat
         /\ Top.start \in Nat /\ Top.end \in Nat /\ Top.pval \in Elems
         /\ Top.io <= Top.start /\ Top.start <= last /\ Top.io <= Top.end + 1 /\ Top.end < last
         /\ last \in Nat /\ last \in Target(Top)
         /\ Target(Top) \subseteq 0 .. N - 1 /\ 0 .. N - 1 \subseteq Cells
         /\ \A x \in 0 .. N - 1 : mem[x] \in Elems
         /\ \A x : x \in Target(Top) <=> x \in Int /\ Top.io <= x /\ x < Top.io + Top.n
         /\ \A j \in 0 .. Top.io - 1 : Rank[mem[j]] <= Rank[Top.pval]
         /\ \A j \in last + 1 .. N - 1 : Rank[Top.pval] <= Rank[mem[j]]
         /\ \A j \in Top.io .. Top.start - 1 : Rank[mem[j]] <= Rank[Top.pval]
         /\ \A j \in Top.end + 1 .. last - 1 : Rank[Top.pval] <= Rank[mem[j]]
         /\ Values(mem, (0 .. N - 1) \ {last}) \cup {Top.pval} = Given
         /\ mem[last] \in Given
<1>1. /\ Top \in Items /\ ItemOK(Top)
      /\ Top.io \in Nat /\ Top.n \in Nat /\ Top.io + Top.n <= N /\ N \in Nat
      /\ Target(Top) \subseteq 0 .. N - 1 /\ 0 .. N - 1 \subseteq Cells
      /\ \A x \in 0 .. N - 1 : mem[x] \in Elems
      /\ \A x : x \in Target(Top) <=> x \in Int /\ Top.io <= x /\ x < Top.io + Top.n
  BY QuickTop
<1>2. Top \in PartitionItems
  BY <1>1, ItemKinds
<1>3. Top.start \in Nat /\ Top.end \in Nat /\ Top.pval \in Elems
  BY <1>2 DEF PartitionItems
<1>4. /\ Top.n > 2 /\ Top.io <= Top.start /\ Top.start < Top.io + Top.n
      /\ Top.io <= Top.end + 1 /\ Top.end <= Top.io + Top.n - 2
  BY <1>1 DEF ItemOK
<1>5. Top.start <= last /\ Top.end < last /\ last \in Nat /\ last \in Target(Top)
  <2>1. /\ Top.io \in Nat /\ Top.n \in Nat /\ Top.start \in Nat /\ Top.end \in Nat
        /\ Top.n > 2 /\ Top.start < Top.io + Top.n /\ Top.end <= Top.io + Top.n - 2
    BY <1>1, <1>3, <1>4
  <2>2. last \in Nat /\ Top.io <= last /\ last < Top.io + Top.n
    BY <2>1
  <2>3. Top.start <= last /\ Top.end < last
    BY <2>1
  <2> QED
    BY <1>1, <2>2, <2>3
<1>6. PivotApart /\ QuickStack /\ Parted
  BY DEF QuickMode
<1>7. /\ \A j \in 0 .. Top.io - 1 : Rank[mem[j]] <= Rank[Top.pval]
      /\ \A j \in last + 1 .. N - 1 : Rank[Top.pval] <= Rank[mem[j]]
      /\ \A j \in Top.io .. Top.start - 1 : Rank[mem[j]] <= Rank[Top.pval]
      /\ \A j \in Top.end + 1 .. last - 1 : Rank[Top.pval] <= Rank[mem[j]]
      /\ Values(mem, (0 .. N - 1) \ {last}) \cup {Top.pval} = Given
      /\ mem[last] \in Given
  BY <1>6 DEF PivotApart
<1> QED
  BY <1>1, <1>2, <1>3, <1>4, <1>5, <1>6, <1>7

\* An iteration leaves the last place alone, and the rest of the array.
LEMMA PartitionGoesOn ==
  ASSUME TypeInv, QuickMode, calls # <<>>, Top.op = "partition", given' = given,
         NEW last, last = Top.io + Top.n - 1,
         NEW c \in PartitionItems, Continue(c), ItemOK(c),
         c.io = Top.io, c.n = Top.n, c.pval = Top.pval,
         mem' \in [Cells -> Elems \cup {Junk}],
         \A x \in Cells \ (Target(Top) \ {last}) : mem'[x] = mem[x],
         \A x \in Target(Top) \ {last} : \E y \in Target(Top) \ {last} : mem'[x] = mem[y],
         \A y \in Target(Top) \ {last} : \E x \in Target(Top) \ {last} : mem'[x] = mem[y],
         \A j \in c.io .. c.start - 1 : Rank[mem'[j]] <= Rank[c.pval],
         \A j \in c.end + 1 .. last - 1 : Rank[c.pval] <= Rank[mem'[j]]
  PROVE  TypeInv' /\ QuickMode' /\ calls' # <<>>
<1> DEFINE items == <<c>>
           S == 0 .. N - 1
<1>1. /\ QuickStack /\ Parted /\ N \in Nat /\ last \in Nat /\ last \in Target(Top)
      /\ Top.io \in Nat /\ Top.n \in Nat
      /\ Target(Top) \subseteq S /\ S \subseteq Cells
      /\ \A x : x \in Target(Top) <=> x \in Int /\ Top.io <= x /\ x < Top.io + Top.n
      /\ \A j \in 0 .. Top.io - 1 : Rank[mem[j]] <= Rank[Top.pval]
      /\ \A j \in last + 1 .. N - 1 : Rank[Top.pval] <= Rank[mem[j]]
      /\ Values(mem, S \ {last}) \cup {Top.pval} = Given
      /\ mem[last] \in Given
  BY PartitionFacts
<1>2. c \in Items /\ c.op = "partition" /\ Target(c) = Target(Top)
  BY DEF Items, PartitionItems, Target
<1>3. /\ items \in Seq(Items) /\ DOMAIN items = {1} /\ items[1] = c /\ Len(items) = 1
      /\ Replace(items)
  BY <1>2 DEF Continue
<1> HIDE DEF items
<1>4. \A k \in DOMAIN items :
        /\ ItemOK(items[k])
        /\ items[k].op = "quick" \/ (k = Len(items) /\ items[k].op \in {"insertion", "partition"})
        /\ Top.io <= items[k].io /\ items[k].io + items[k].n <= Top.io + Top.n
  BY <1>1, <1>2, <1>3
<1>5. \A j, k \in DOMAIN items : j < k => items[k].io + items[k].n <= items[j].io
  BY <1>3
<1> DEFINE v == mem[last]
<1>6. Fits(v)
  BY <1>1, Around DEF Fits
<1>7. /\ TypeInv' /\ QuickStack' /\ Parted' /\ calls' # <<>> /\ Top' = c
  <2> HIDE DEF v
  <2>1. /\ \A x \in Cells \ Target(Top) : mem'[x] = mem[x]
        /\ \A x \in Target(Top) : mem'[x] = v \/ \E y \in Target(Top) : mem'[x] = mem[y]
    <3>1. \A x \in Cells \ Target(Top) : mem'[x] = mem[x]
      OBVIOUS
    <3>2. last \in Cells \ (Target(Top) \ {last})
      BY <1>1
    <3>3. mem'[last] = v
      BY <3>2 DEF v
    <3>4. \A x \in Target(Top) : x = last \/ \E y \in Target(Top) : mem'[x] = mem[y]
      OBVIOUS
    <3> QED
      BY <3>1, <3>3, <3>4
  <2>2. \A j, k \in Target(Top) :
          j < k => \/ Rank[mem'[j]] <= Rank[mem'[k]]
                   \/ \E d \in DOMAIN items : j \in Target(items[d]) /\ k \in Target(items[d])
    BY <1>2, <1>3
  <2>3. QuickStack /\ Parted /\ items \in Seq(Items) /\ Replace(items)
    BY <1>1, <1>3
  <2>4. /\ TypeInv' /\ QuickStack' /\ Parted'
        /\ Len(items) > 0 => calls' # <<>> /\ Top' = items[Len(items)]
    BY <1>4, <1>5, <1>6, <2>1, <2>2, <2>3, PartsReplaced
  <2> QED
    BY <1>3, <2>4
<1>8. Values(mem', S \ {last}) \cup {c.pval} = Given
  <2>1. Shuffles(mem, mem', S \ {last}, Target(Top) \ {last})
    BY <1>1 DEF Shuffles
  <2>2. Values(mem', S \ {last}) = Values(mem, S \ {last})
    BY <2>1, Shuffled
  <2> QED
    BY <1>1, <2>2
<1>9. mem'[last] \in Given
  BY <1>1
<1>10. \A j \in 0 .. c.io - 1 : Rank[mem'[j]] <= Rank[c.pval]
  <2> SUFFICES ASSUME NEW j \in 0 .. c.io - 1 PROVE Rank[mem'[j]] <= Rank[c.pval]
    OBVIOUS
  <2>1. j \in Cells /\ j \notin Target(Top) /\ j \in 0 .. Top.io - 1
    BY <1>1
  <2> QED
    BY <1>1, <2>1
<1>11. \A j \in last + 1 .. N - 1 : Rank[c.pval] <= Rank[mem'[j]]
  <2> SUFFICES ASSUME NEW j \in last + 1 .. N - 1 PROVE Rank[c.pval] <= Rank[mem'[j]]
    OBVIOUS
  <2>1. j \in Cells /\ j \notin Target(Top)
    BY <1>1
  <2> QED
    BY <1>1, <2>1
<1>12. QuickMode'
  BY <1>7, <1>8, <1>9, <1>10, <1>11, PartitionIs
<1> QED
  BY <1>7, <1>12

LEMMA ScanStep ==
  ASSUME TypeInv, QuickMode, Scan
  PROVE  TypeInv' /\ QuickMode' /\ calls' # <<>>
<1> DEFINE last == Top.io + Top.n - 1
           c == [Top EXCEPT !.start = @ + 1]
<1>1. /\ calls # <<>> /\ Top.op = "partition" /\ Top.start >= Top.end
      /\ Top.start < last /\ CM(mem[Top.start], Top.pval)
      /\ Continue(c) /\ mem' = mem /\ given' = given
  BY DEF Scan, Scans
<1>2. /\ Top \in PartitionItems /\ ItemOK(Top) /\ N \in Nat
      /\ Top.io \in Nat /\ Top.n \in Nat /\ Top.n > 2 /\ Top.io + Top.n <= N
      /\ Top.start \in Nat /\ Top.end \in Nat /\ Top.pval \in Elems
      /\ Top.io <= Top.start /\ Top.io <= Top.end + 1 /\ Top.end < last
      /\ Target(Top) \subseteq 0 .. N - 1
      /\ \A x \in 0 .. N - 1 : mem[x] \in Elems
      /\ \A x : x \in Target(Top) <=> x \in Int /\ Top.io <= x /\ x < Top.io + Top.n
      /\ \A j \in Top.io .. Top.start - 1 : Rank[mem[j]] <= Rank[Top.pval]
      /\ \A j \in Top.end + 1 .. last - 1 : Rank[Top.pval] <= Rank[mem[j]]
  BY <1>1, PartitionFacts
<1>3. /\ c \in PartitionItems /\ c.op = "partition" /\ c.io = Top.io /\ c.n = Top.n
      /\ c.pval = Top.pval /\ c.start = Top.start + 1 /\ c.end = Top.end
  BY <1>2 DEF PartitionItems
<1> HIDE DEF c
<1>4. ItemOK(c)
  <2>1. /\ Top.op = "partition" /\ ItemOK(Top) /\ Top.start < last
        /\ Top.io \in Nat /\ Top.n \in Nat /\ Top.start \in Nat
    BY <1>1, <1>2
  <2>2. Top.start + 1 < Top.io + Top.n /\ Top.io <= Top.start + 1
    BY <2>1 DEF ItemOK
  <2> QED
    BY <1>3, <2>1, <2>2 DEF ItemOK
<1>5. \A j \in c.io .. c.start - 1 : Rank[mem'[j]] <= Rank[c.pval]
  <2> SUFFICES ASSUME NEW j \in c.io .. c.start - 1 PROVE Rank[mem[j]] <= Rank[c.pval]
    BY <1>1
  <2>1. j = Top.start \/ j \in Top.io .. Top.start - 1
    BY <1>2, <1>3
  <2>2. Top.start \in 0 .. N - 1
    BY <1>1, <1>2
  <2> QED
    BY <1>1, <1>2, <1>3, <2>1, <2>2, CMFacts
<1>6. \A j \in c.end + 1 .. last - 1 : Rank[c.pval] <= Rank[mem'[j]]
  BY <1>1, <1>2, <1>3
<1>7. mem' \in [Cells -> Elems \cup {Junk}]
  BY <1>1 DEF TypeInv
<1> PICK l : l = last
  OBVIOUS
<1>8. l = Top.io + Top.n - 1 /\ \A j \in c.end + 1 .. l - 1 : Rank[c.pval] <= Rank[mem'[j]]
  BY <1>6
<1> HIDE DEF last
<1>9. /\ \A x \in Cells \ (Target(Top) \ {l}) : mem'[x] = mem[x]
      /\ \A x \in Target(Top) \ {l} : \E y \in Target(Top) \ {l} : mem'[x] = mem[y]
      /\ \A y \in Target(Top) \ {l} : \E x \in Target(Top) \ {l} : mem'[x] = mem[y]
  BY <1>1
<1> QED
  BY <1>1, <1>3, <1>4, <1>5, <1>7, <1>8, <1>9, PartitionGoesOn

\* Both ends of what is left move at once.
LEMMA BothItem ==
  ASSUME NEW t \in PartitionItems, NEW x, NEW y
  PROVE  [t EXCEPT !.start = x, !.end = y]
           = [op |-> "partition", io |-> t.io, n |-> t.n, start |-> x, end |-> y, pval |-> t.pval]
<1>1. t = [op |-> "partition", io |-> t.io, n |-> t.n, start |-> t.start, end |-> t.end,
           pval |-> t.pval]
  BY DEF PartitionItems
<1>2. DOMAIN t = {"op", "io", "n", "start", "end", "pval"}
  BY <1>1
<1>3. [t EXCEPT !.start = x, !.end = y]
        = [k \in DOMAIN t |-> IF k = "end" THEN y ELSE IF k = "start" THEN x ELSE t[k]]
  OBVIOUS
<1> QED
  BY <1>1, <1>2, <1>3

\* The loop has moved one of its indices, or both, towards the other.
LEMMA Narrower ==
  ASSUME NEW d \in PartitionItems, ItemOK(d), d.start < d.end, NEW c \in PartitionItems,
         c.io = d.io, c.n = d.n,
         c.start = d.start \/ c.start = d.start + 1, c.end = d.end \/ c.end = d.end - 1
  PROVE  ItemOK(c)
<1>1. /\ d.op = "partition" /\ c.op = "partition"
      /\ d.io \in Nat /\ d.n \in Nat /\ d.start \in Nat /\ d.end \in Nat
  BY DEF PartitionItems
<1>2. /\ d.n > 2 /\ d.io + d.n <= N
      /\ d.io <= d.start /\ d.start < d.io + d.n
      /\ d.io <= d.end + 1 /\ d.end <= d.io + d.n - 2
  BY <1>1 DEF ItemOK
<1>3. c.n > 2 /\ c.io + c.n <= N
  BY <1>2
<1>4. c.io <= c.start /\ c.start < c.io + c.n
  BY <1>1, <1>2
<1>5. c.io <= c.end + 1 /\ c.end <= c.io + c.n - 2
  BY <1>1, <1>2
<1> QED
  BY <1>1, <1>3, <1>4, <1>5 DEF ItemOK

LEMMA PartitionStep ==
  ASSUME TypeInv, QuickMode, Partition
  PROVE  TypeInv' /\ QuickMode' /\ calls' # <<>>
<1> DEFINE last == Top.io + Top.n - 1
           a == Top.start
           b == Top.end
<1>1. /\ calls # <<>> /\ Top.op = "partition" /\ a < b /\ given' = given
      /\ \/ /\ CM(mem[a], Top.pval) /\ Continue([Top EXCEPT !.start = @ + 1]) /\ mem' = mem
         \/ /\ ~CM(mem[a], Top.pval) /\ CM(mem[b], Top.pval) /\ mem' = Swapped(a, b)
            /\ Continue([Top EXCEPT !.start = @ + 1, !.end = @ - 1])
         \/ /\ ~CM(mem[a], Top.pval) /\ ~CM(mem[b], Top.pval)
            /\ Continue([Top EXCEPT !.end = @ - 1]) /\ mem' = mem
  BY DEF Partition
<1> PICK l : l = last
  OBVIOUS
<1>2. /\ Top \in PartitionItems /\ ItemOK(Top) /\ N \in Nat
      /\ Top.io \in Nat /\ Top.n \in Nat /\ Top.n > 2 /\ Top.io + Top.n <= N
      /\ a \in Nat /\ b \in Nat /\ Top.pval \in Elems
      /\ Top.io <= a /\ Top.io <= b + 1 /\ b < l /\ l \in Nat /\ l = Top.io + Top.n - 1
      /\ Target(Top) \subseteq 0 .. N - 1 /\ 0 .. N - 1 \subseteq Cells
      /\ \A x \in 0 .. N - 1 : mem[x] \in Elems
      /\ \A x : x \in Target(Top) <=> x \in Int /\ Top.io <= x /\ x < Top.io + Top.n
      /\ \A j \in Top.io .. a - 1 : Rank[mem[j]] <= Rank[Top.pval]
      /\ \A j \in b + 1 .. l - 1 : Rank[Top.pval] <= Rank[mem[j]]
  BY <1>1, PartitionFacts
<1>3. /\ a \in Target(Top) \ {l} /\ b \in Target(Top) \ {l}
      /\ a \in 0 .. N - 1 /\ b \in 0 .. N - 1 /\ a \in Cells /\ b \in Cells
  <2>1. /\ a \in Int /\ Top.io <= a /\ a < Top.io + Top.n /\ a # l
        /\ b \in Int /\ Top.io <= b /\ b < Top.io + Top.n /\ b # l
    <3>1. /\ Top.io \in Nat /\ Top.n \in Nat /\ a \in Nat /\ b \in Nat /\ l \in Nat
          /\ Top.io <= a /\ a < b /\ b < l /\ l = Top.io + Top.n - 1
      BY <1>1, <1>2
    <3> HIDE DEF a, b
    <3> QED
      BY <3>1
  <2>2. a \in Target(Top) /\ b \in Target(Top)
    BY <1>2, <2>1
  <2> QED
    BY <1>2, <2>1, <2>2
<1>4. /\ CM(mem[a], Top.pval) => Rank[mem[a]] <= Rank[Top.pval]
      /\ ~CM(mem[a], Top.pval) => Rank[Top.pval] <= Rank[mem[a]]
      /\ CM(mem[b], Top.pval) => Rank[mem[b]] <= Rank[Top.pval]
      /\ ~CM(mem[b], Top.pval) => Rank[Top.pval] <= Rank[mem[b]]
  BY <1>2, <1>3, CMFacts
<1> HIDE DEF last, a, b
<1>5. mem' = mem => /\ mem' \in [Cells -> Elems \cup {Junk}]
                    /\ \A x \in Cells \ (Target(Top) \ {l}) : mem'[x] = mem[x]
                    /\ \A x \in Target(Top) \ {l} : \E y \in Target(Top) \ {l} : mem'[x] = mem[y]
                    /\ \A y \in Target(Top) \ {l} : \E x \in Target(Top) \ {l} : mem'[x] = mem[y]
  BY DEF TypeInv
<1>6. CASE /\ CM(mem[a], Top.pval) /\ Continue([Top EXCEPT !.start = @ + 1]) /\ mem' = mem
  <2> DEFINE c == [Top EXCEPT !.start = @ + 1]
  <2>1. /\ c \in PartitionItems /\ c.op = "partition" /\ c.io = Top.io /\ c.n = Top.n
        /\ c.pval = Top.pval /\ c.start = a + 1 /\ c.end = b
    BY <1>2 DEF PartitionItems, a, b
  <2>2. Continue(c)
    BY <1>6
  <2> HIDE DEF c
  <2>3. ItemOK(c)
    BY <1>1, <1>2, <2>1, Narrower DEF a, b
  <2>4. \A j \in c.io .. c.start - 1 : Rank[mem'[j]] <= Rank[c.pval]
    <3> SUFFICES ASSUME NEW j \in c.io .. c.start - 1 PROVE Rank[mem[j]] <= Rank[c.pval]
      BY <1>6
    <3>1. j = a \/ j \in Top.io .. a - 1
      BY <1>2, <2>1
    <3> QED
      BY <1>2, <1>4, <1>6, <2>1, <3>1
  <2>5. \A j \in c.end + 1 .. l - 1 : Rank[c.pval] <= Rank[mem'[j]]
    BY <1>2, <1>6, <2>1
  <2> QED
    BY <1>1, <1>2, <1>5, <1>6, <2>1, <2>2, <2>3, <2>4, <2>5, PartitionGoesOn
<1>7. CASE /\ ~CM(mem[a], Top.pval) /\ ~CM(mem[b], Top.pval)
           /\ Continue([Top EXCEPT !.end = @ - 1]) /\ mem' = mem
  <2> DEFINE c == [Top EXCEPT !.end = @ - 1]
  <2>1. b - 1 \in Nat
    BY <1>1, <1>2
  <2>2. /\ c \in PartitionItems /\ c.op = "partition" /\ c.io = Top.io /\ c.n = Top.n
        /\ c.pval = Top.pval /\ c.start = a /\ c.end = b - 1
    BY <1>2, <2>1 DEF PartitionItems, a, b
  <2>3. Continue(c)
    BY <1>7
  <2> HIDE DEF c
  <2>4. ItemOK(c)
    BY <1>1, <1>2, <2>2, Narrower DEF a, b
  <2>5. \A j \in c.io .. c.start - 1 : Rank[mem'[j]] <= Rank[c.pval]
    BY <1>2, <1>7, <2>2
  <2>6. \A j \in c.end + 1 .. l - 1 : Rank[c.pval] <= Rank[mem'[j]]
    <3> SUFFICES ASSUME NEW j \in c.end + 1 .. l - 1 PROVE Rank[c.pval] <= Rank[mem[j]]
      BY <1>7
    <3>1. j = b \/ j \in b + 1 .. l - 1
      BY <1>2, <2>2
    <3> QED
      BY <1>2, <1>4, <1>7, <2>2, <3>1
  <2> QED
    BY <1>1, <1>2, <1>5, <1>7, <2>2, <2>3, <2>4, <2>5, <2>6, PartitionGoesOn
<1>8. CASE /\ ~CM(mem[a], Top.pval) /\ CM(mem[b], Top.pval) /\ mem' = Swapped(a, b)
           /\ Continue([Top EXCEPT !.start = @ + 1, !.end = @ - 1])
  <2> DEFINE c == [Top EXCEPT !.start = @ + 1, !.end = @ - 1]
             d == [op |-> "partition", io |-> Top.io, n |-> Top.n, start |-> a + 1,
                   end |-> b - 1, pval |-> Top.pval]
  <2>1. b - 1 \in Nat /\ a + 1 \in Nat
    BY <1>1, <1>2
  <2>2. c = d
    <3>1. [Top EXCEPT !.start = Top.start + 1, !.end = Top.end - 1] = d
      BY <1>2, BothItem DEF a, b
    <3> QED
      BY <3>1
  <2>3. d \in PartitionItems
    BY <1>2, <2>1 DEF PartitionItems
  <2>4. /\ c \in PartitionItems /\ c.op = "partition" /\ c.io = Top.io /\ c.n = Top.n
        /\ c.pval = Top.pval /\ c.start = a + 1 /\ c.end = b - 1
    <3> HIDE DEF c
    <3> QED
      BY <2>2, <2>3
  <2>5. Continue(c)
    BY <1>8
  <2> HIDE DEF c, d
  <2>6. ItemOK(c)
    BY <1>1, <1>2, <2>4, Narrower DEF a, b
  <2>7. /\ mem' \in [Cells -> Elems \cup {Junk}] /\ mem'[a] = mem[b] /\ mem'[b] = mem[a]
        /\ \A x \in Cells : x # a /\ x # b => mem'[x] = mem[x]
    BY <1>3, <1>8, SwapFacts
  <2>8. \A j \in c.io .. c.start - 1 : Rank[mem'[j]] <= Rank[c.pval]
    <3> SUFFICES ASSUME NEW j \in c.io .. c.start - 1 PROVE Rank[mem'[j]] <= Rank[c.pval]
      OBVIOUS
    <3>1. j = a \/ (j \in Top.io .. a - 1 /\ j # a /\ j # b)
      BY <1>1, <1>2, <2>4
    <3>2. CASE j = a
      BY <1>4, <1>8, <2>4, <2>7, <3>2
    <3>3. CASE j \in Top.io .. a - 1 /\ j # a /\ j # b
      <4>1. j \in Cells
        BY <1>2, <1>3, <3>3
      <4> QED
        BY <1>2, <2>4, <2>7, <3>3, <4>1
    <3> QED
      BY <3>1, <3>2, <3>3
  <2>9. \A j \in c.end + 1 .. l - 1 : Rank[c.pval] <= Rank[mem'[j]]
    <3> SUFFICES ASSUME NEW j \in c.end + 1 .. l - 1 PROVE Rank[c.pval] <= Rank[mem'[j]]
      OBVIOUS
    <3>1. j = b \/ (j \in b + 1 .. l - 1 /\ j # a /\ j # b)
      BY <1>1, <1>2, <2>4
    <3>2. CASE j = b
      BY <1>4, <1>8, <2>4, <2>7, <3>2
    <3>3. CASE j \in b + 1 .. l - 1 /\ j # a /\ j # b
      <4>1. j \in 0 .. N - 1
        BY <1>2, <3>3
      <4> QED
        BY <1>2, <2>4, <2>7, <3>3, <4>1
    <3> QED
      BY <3>1, <3>2, <3>3
  <2>10. /\ \A x \in Cells \ (Target(Top) \ {l}) : mem'[x] = mem[x]
         /\ \A x \in Target(Top) \ {l} : \E y \in Target(Top) \ {l} : mem'[x] = mem[y]
         /\ \A y \in Target(Top) \ {l} : \E x \in Target(Top) \ {l} : mem'[x] = mem[y]
    <3> DEFINE T == Target(Top) \ {l}
    <3>1. a \in T /\ b \in T /\ T \subseteq Cells
      BY <1>2, <1>3
    <3> HIDE DEF T
    <3>2. /\ \A x \in Cells \ T : mem'[x] = mem[x]
          /\ \A x \in T : \E y \in T : mem'[x] = mem[y]
          /\ \A y \in T : \E x \in T : mem'[x] = mem[y]
      BY <2>7, <3>1
    <3> QED
      BY <3>2 DEF T
  <2> QED
    BY <1>1, <1>2, <2>4, <2>5, <2>6, <2>7, <2>8, <2>9, <2>10, PartitionGoesOn
<1> QED
  BY <1>1, <1>6, <1>7, <1>8

LEMMA Joined ==
  ASSUME NEW f \in Seq(Items), NEW h \in Seq(Items)
  PROVE  /\ f \o h \in Seq(Items) /\ Len(f \o h) = Len(f) + Len(h)
         /\ \A k \in 1 .. Len(f) : (f \o h)[k] = f[k]
         /\ \A k \in 1 .. Len(h) : (f \o h)[Len(f) + k] = h[k]
OBVIOUS

\* The parts of a part, of those that have something to sort.
Halves(right, q, left, y) ==
  (IF right > 1 THEN <<q>> ELSE <<>>) \o (IF left > 1 THEN <<y>> ELSE <<>>)

AreHalves(items, right, q, left, y) ==
  /\ items \in Seq(Items)
  /\ \A k \in DOMAIN items : (right > 1 /\ items[k] = q) \/ (left > 1 /\ items[k] = y)
  /\ \A j, k \in DOMAIN items :
       j < k => right > 1 /\ left > 1 /\ items[j] = q /\ items[k] = y
  /\ right > 1 => \E k \in DOMAIN items : items[k] = q
  /\ left > 1 => \E k \in DOMAIN items : items[k] = y

LEMMA TwoParts ==
  ASSUME NEW right, NEW q, right > 1 => q \in Items, NEW left, NEW y, left > 1 => y \in Items
  PROVE  AreHalves(Halves(right, q, left, y), right, q, left, y)
<1> DEFINE items == Halves(right, q, left, y)
<1> SUFFICES AreHalves(items, right, q, left, y)
  OBVIOUS
<1>1. CASE right > 1 /\ left > 1
  <2> DEFINE f == <<q>>
             h == <<y>>
  <2>1. items = f \o h
    BY <1>1 DEF Halves
  <2> HIDE DEF items
  <2>2. /\ f \in Seq(Items) /\ Len(f) = 1 /\ f[1] = q
        /\ h \in Seq(Items) /\ Len(h) = 1 /\ h[1] = y
    BY <1>1
  <2> HIDE DEF f, h
  <2>3. /\ f \o h \in Seq(Items) /\ Len(f \o h) = Len(f) + Len(h)
        /\ \A k \in 1 .. Len(f) : (f \o h)[k] = f[k]
        /\ \A k \in 1 .. Len(h) : (f \o h)[Len(f) + k] = h[k]
    BY <2>2, Joined
  <2>4. items \in Seq(Items) /\ Len(items) = 2 /\ items[1] = q /\ items[1 + 1] = y
    BY <2>1, <2>2, <2>3
  <2>5. DOMAIN items = 1 .. 2
    BY <2>4
  <2>6. DOMAIN items = {1, 2} /\ items[2] = y
    BY <2>4, <2>5
  <2> QED
    BY <1>1, <2>4, <2>6 DEF AreHalves
<1>2. CASE right > 1 /\ ~(left > 1)
  <2>1. items = <<q>>
    BY <1>2 DEF Halves
  <2> HIDE DEF items
  <2>2. items \in Seq(Items) /\ DOMAIN items = {1} /\ items[1] = q
    BY <1>2, <2>1
  <2> QED
    BY <1>2, <2>2 DEF AreHalves
<1>3. CASE ~(right > 1) /\ left > 1
  <2>1. items = <<y>>
    BY <1>3 DEF Halves
  <2> HIDE DEF items
  <2>2. items \in Seq(Items) /\ DOMAIN items = {1} /\ items[1] = y
    BY <1>3, <2>1
  <2> QED
    BY <1>3, <2>2 DEF AreHalves
<1>4. CASE ~(right > 1) /\ ~(left > 1)
  <2>1. items = <<>>
    BY <1>4 DEF Halves
  <2> HIDE DEF items
  <2>2. items \in Seq(Items) /\ DOMAIN items = {}
    BY <2>1
  <2> QED
    BY <1>4, <2>2 DEF AreHalves
<1> QED
  BY <1>1, <1>2, <1>3, <1>4

LEMMA PlaceStep ==
  ASSUME TypeInv, QuickMode, Place
  PROVE  TypeInv' /\ Onward'
<1> DEFINE last == Top.io + Top.n - 1
           a == Top.start
           pv == Top.pval
           left == a - Top.io
           right == last - a
           q2 == Quick(a + 1, right)
           q1 == Quick(Top.io, left)
           items == Halves(right, q2, left, q1)
           S == 0 .. N - 1
<1>1. /\ calls # <<>> /\ Top.op = "partition" /\ a >= Top.end /\ given' = given
      /\ ~(a < last) \/ ~CM(mem[a], pv)
      /\ mem' = [mem EXCEPT ![last] = mem[a], ![a] = pv] /\ Replace(items)
  BY DEF Place, Scans, Halves
<1> PICK l : l = last
  OBVIOUS
<1>2. /\ Top \in PartitionItems /\ N \in Nat /\ QuickStack /\ Parted
      /\ Top.io \in Nat /\ Top.n \in Nat /\ Top.n > 2 /\ Top.io + Top.n <= N
      /\ a \in Nat /\ Top.end \in Nat /\ pv \in Elems
      /\ Top.io <= a /\ a <= l /\ Top.end < l /\ l \in Nat /\ l = Top.io + Top.n - 1
      /\ l \in Target(Top) /\ Target(Top) \subseteq S /\ S \subseteq Cells
      /\ \A x \in S : mem[x] \in Elems
      /\ \A x : x \in Target(Top) <=> x \in Int /\ Top.io <= x /\ x < Top.io + Top.n
      /\ \A j \in 0 .. Top.io - 1 : Rank[mem[j]] <= Rank[pv]
      /\ \A j \in l + 1 .. N - 1 : Rank[pv] <= Rank[mem[j]]
      /\ \A j \in Top.io .. a - 1 : Rank[mem[j]] <= Rank[pv]
      /\ \A j \in Top.end + 1 .. l - 1 : Rank[pv] <= Rank[mem[j]]
      /\ Values(mem, S \ {l}) \cup {pv} = Given
  BY <1>1, PartitionFacts
<1>3. a \in Target(Top) /\ a \in S /\ l \in S
  <2>1. a \in Int /\ Top.io <= a /\ a < Top.io + Top.n
    BY <1>2
  <2> QED
    BY <1>2, <2>1
<1>4. ~(a >= l) => Rank[pv] <= Rank[mem[a]]
  BY <1>1, <1>2, <1>3, CMFacts
<1>5. left \in Nat /\ right \in Nat /\ left = a - Top.io /\ right = l - a
  BY <1>2
<1>6. /\ right > 1 => /\ q2 \in Items /\ ItemOK(q2) /\ q2.op = "quick"
                      /\ q2.io = a + 1 /\ q2.n = right
      /\ left > 1 => /\ q1 \in Items /\ ItemOK(q1) /\ q1.op = "quick"
                     /\ q1.io = Top.io /\ q1.n = left
  <2>1. a + 1 \in Nat
    BY <1>2
  <2>2. q2 \in Items /\ q1 \in Items
    BY <1>2, <1>5, <2>1 DEF Quick, Items, QuickItems
  <2>3. /\ q2.op = "quick" /\ q2.io = a + 1 /\ q2.n = right
        /\ q1.op = "quick" /\ q1.io = Top.io /\ q1.n = left
    BY DEF Quick
  <2>4. right > 1 => ItemOK(q2)
    <3>1. right > 1 => q2.n >= 2 /\ q2.io + q2.n <= N
      BY <1>2, <1>5, <2>3
    <3> HIDE DEF q2
    <3> QED
      BY <2>3, <3>1 DEF ItemOK
  <2>5. left > 1 => ItemOK(q1)
    <3>1. left > 1 => q1.n >= 2 /\ q1.io + q1.n <= N
      BY <1>2, <1>5, <2>3
    <3> HIDE DEF q1
    <3> QED
      BY <2>3, <3>1 DEF ItemOK
  <2> QED
    BY <2>2, <2>3, <2>4, <2>5
<1>7. mem' = [mem EXCEPT ![l] = mem[a], ![a] = pv]
  BY <1>1
<1> HIDE DEF last, a, pv, left, right, q1, q2, S
<1>8. /\ items \in Seq(Items)
      /\ \A k \in DOMAIN items : (right > 1 /\ items[k] = q2) \/ (left > 1 /\ items[k] = q1)
      /\ \A j, k \in DOMAIN items : j < k => right > 1 /\ left > 1 /\ items[j] = q2 /\ items[k] = q1
      /\ right > 1 => \E k \in DOMAIN items : items[k] = q2
      /\ left > 1 => \E k \in DOMAIN items : items[k] = q1
  <2>1. (right > 1 => q2 \in Items) /\ (left > 1 => q1 \in Items)
    BY <1>6
  <2>2. AreHalves(items, right, q2, left, q1)
    BY <2>1, TwoParts
  <2> HIDE DEF items
  <2> QED
    BY <2>2 DEF AreHalves
<1>9. Replace(items)
  BY <1>1
<1> HIDE DEF items
<1>10. \A k \in DOMAIN items :
         /\ ItemOK(items[k]) /\ items[k].op = "quick"
         /\ Top.io <= items[k].io /\ items[k].io + items[k].n <= Top.io + Top.n
  <2> SUFFICES ASSUME NEW k \in DOMAIN items
               PROVE  /\ ItemOK(items[k]) /\ items[k].op = "quick"
                      /\ Top.io <= items[k].io /\ items[k].io + items[k].n <= Top.io + Top.n
    OBVIOUS
  <2>1. CASE right > 1 /\ items[k] = q2
    <3>1. Top.io <= q2.io /\ q2.io + q2.n <= Top.io + Top.n
      BY <1>2, <1>5, <1>6, <2>1
    <3> QED
      BY <1>6, <2>1, <3>1
  <2>2. CASE left > 1 /\ items[k] = q1
    <3>1. Top.io <= q1.io /\ q1.io + q1.n <= Top.io + Top.n
      BY <1>2, <1>5, <1>6, <2>2
    <3> QED
      BY <1>6, <2>2, <3>1
  <2> QED
    BY <1>8, <2>1, <2>2
<1>11. \A j, k \in DOMAIN items : j < k => items[k].io + items[k].n <= items[j].io
  <2> SUFFICES ASSUME NEW j \in DOMAIN items, NEW k \in DOMAIN items, j < k
               PROVE  items[k].io + items[k].n <= items[j].io
    OBVIOUS
  <2>1. right > 1 /\ left > 1 /\ items[j] = q2 /\ items[k] = q1
    BY <1>8
  <2>2. q1.io + q1.n <= q2.io
    BY <1>2, <1>5, <1>6, <2>1
  <2> QED
    BY <2>1, <2>2
<1>12. /\ mem' \in [Cells -> Elems \cup {Junk}]
       /\ mem'[a] = pv
       /\ l # a => mem'[l] = mem[a]
       /\ \A x \in Cells : x # a /\ x # l => mem'[x] = mem[x]
  BY <1>2, <1>3, <1>7 DEF TypeInv
<1>13. /\ \A x \in Cells \ Target(Top) : mem'[x] = mem[x]
       /\ \A x \in Target(Top) : mem'[x] = pv \/ \E y \in Target(Top) : mem'[x] = mem[y]
  <2> DEFINE T == Target(Top)
  <2>1. a \in T /\ l \in T /\ T \subseteq Cells
    BY <1>2, <1>3
  <2> HIDE DEF T
  <2>2. /\ \A x \in Cells \ T : mem'[x] = mem[x]
        /\ \A x \in T : mem'[x] = pv \/ \E y \in T : mem'[x] = mem[y]
    BY <1>12, <2>1
  <2> QED
    BY <2>2 DEF T
<1>14. Fits(pv)
  <2> SUFFICES ASSUME NEW j \in 0 .. N - 1
               PROVE  /\ j < Top.io => Rank[mem[j]] <= Rank[pv]
                      /\ j >= Top.io + Top.n => Rank[pv] <= Rank[mem[j]]
    BY DEF Fits
  <2>1. j < Top.io => j \in 0 .. Top.io - 1
    BY <1>2
  <2>2. j >= Top.io + Top.n => j \in l + 1 .. N - 1
    BY <1>2
  <2> QED
    BY <1>2, <2>1, <2>2
<1>15. ASSUME NEW j \in Target(Top)
       PROVE  /\ j < a => Rank[mem'[j]] <= Rank[pv]
              /\ a < j => Rank[pv] <= Rank[mem'[j]]
  <2>1. j \in Int /\ Top.io <= j /\ j <= l /\ j \in Cells
    BY <1>2
  <2>2. CASE j < a
    <3>1. j \in Top.io .. a - 1 /\ j # a /\ j # l
      BY <1>2, <2>1, <2>2
    <3>2. mem'[j] = mem[j]
      BY <1>12, <2>1, <3>1
    <3> QED
      BY <1>2, <2>2, <3>1, <3>2
  <2>3. CASE a < j /\ j # l
    <3>1. j \in Top.end + 1 .. l - 1
      <4>1. a >= Top.end /\ a \in Nat /\ Top.end \in Nat /\ l \in Nat
        BY <1>1, <1>2 DEF a
      <4> QED
        BY <2>1, <2>3, <4>1
    <3>2. mem'[j] = mem[j]
      BY <1>2, <1>12, <2>1, <2>3
    <3> QED
      BY <1>2, <2>1, <2>3, <3>1, <3>2
  <2>4. CASE a < j /\ j = l
    <3>1. mem'[j] = mem[a] /\ ~(a >= l)
      BY <1>2, <1>12, <2>1, <2>4
    <3> QED
      BY <1>2, <1>4, <2>1, <2>4, <3>1
  <2> QED
    BY <1>2, <2>1, <2>2, <2>3, <2>4
<1>16. ASSUME NEW j \in Target(Top), NEW k \in Target(Top), j < k
       PROVE  \/ Rank[mem'[j]] <= Rank[mem'[k]]
              \/ \E d \in DOMAIN items : j \in Target(items[d]) /\ k \in Target(items[d])
  <2>1. /\ j \in Int /\ Top.io <= j /\ j <= l /\ j \in S
        /\ k \in Int /\ Top.io <= k /\ k <= l /\ k \in S
    BY <1>2
  <2>2. CASE k < a
    <3>1. left > 1 /\ j \in Target(q1) /\ k \in Target(q1)
      <4>1. left > 1
        BY <1>2, <1>5, <1>16, <2>1, <2>2
      <4>2. q1.io = Top.io /\ q1.n = left
        BY <1>6, <4>1
      <4> QED
        BY <1>2, <1>5, <1>16, <2>1, <2>2, <4>1, <4>2 DEF Target
    <3> QED
      BY <1>8, <3>1
  <2>3. CASE a < j
    <3>1. right > 1 /\ j \in Target(q2) /\ k \in Target(q2)
      <4>1. right > 1
        BY <1>2, <1>5, <1>16, <2>1, <2>3
      <4>2. q2.io = a + 1 /\ q2.n = right
        BY <1>6, <4>1
      <4> QED
        BY <1>2, <1>5, <1>16, <2>1, <2>3, <4>1, <4>2 DEF Target
    <3> QED
      BY <1>8, <3>1
  <2>4. CASE j <= a /\ a <= k
    <3>1. /\ j < a => Rank[mem'[j]] <= Rank[pv]
          /\ a < k => Rank[pv] <= Rank[mem'[k]]
      BY <1>15
    <3>2. mem'[a] = pv
      BY <1>12
    <3>3. /\ pv \in Elems /\ mem'[j] \in Elems /\ mem'[k] \in Elems
      <4>1. \A x \in Target(Top) : mem'[x] \in Elems
        BY <1>2, <1>13
      <4> QED
        BY <1>2, <4>1
    <3>4. Rank[pv] \in Nat /\ Rank[mem'[j]] \in Nat /\ Rank[mem'[k]] \in Nat
      BY <3>3, RankType
    <3>5. Rank[mem'[j]] <= Rank[pv]
      BY <1>2, <2>1, <2>4, <3>1, <3>2, <3>4
    <3>6. Rank[pv] <= Rank[mem'[k]]
      BY <1>2, <2>1, <2>4, <3>1, <3>2, <3>4
    <3> QED
      BY <3>4, <3>5, <3>6
  <2> QED
    BY <1>2, <2>1, <2>2, <2>3, <2>4
<1>17. /\ TypeInv' /\ QuickStack' /\ Parted'
       /\ Len(items) > 0 => calls' # <<>> /\ Top' = items[Len(items)]
       /\ Len(items) = 0 /\ calls' # <<>> => Top'.op = "quick"
  <2>1. QuickStack /\ Parted /\ items \in Seq(Items)
    BY <1>2, <1>8
  <2>2. mem' \in [Cells -> Elems \cup {Junk}]
    BY <1>12
  <2> QED
    BY <1>1, <1>9, <1>10, <1>11, <1>13, <1>14, <1>16, <2>1, <2>2, PartsReplaced
<1>18. (calls # <<>> => Top.op = "quick")'
  <2>1. Len(items) \in Nat /\ (Len(items) > 0 => Len(items) \in DOMAIN items)
    BY <1>8
  <2> QED
    BY <1>10, <1>17, <2>1
<1>19. (Held(0 .. N - 1) = Given)'
  <2>1. Values(mem', S) = Values(mem, S \ {l}) \cup {pv}
    <3>1. Replaced(mem, mem', S, a, l, pv)
      BY <1>2, <1>3, <1>12 DEF Replaced
    <3> QED
      BY <3>1, PutBack
  <2>2. N' = N /\ Given' = Given
    BY <1>1, SameSize
  <2> QED
    BY <1>2, <2>1, <2>2 DEF Held, Values, S
<1> QED
  BY <1>17, <1>18, <1>19, NextPart, PTL

\* A single part, all of the array.
LEMMA PartCall ==
  ASSUME TypeInv, NEW arr \in Inputs, Call(arr), NEW c \in Items, calls' = <<c>>,
         c.op \in {"quick", "insertion"}, ItemOK(c)', c.io = 0, c.n = Size(arr),
         c.op = "insertion" => c.i = 1
  PROVE  TypeInv' /\ QuickMode' /\ calls' # <<>>
<1>1. /\ N' = Size(arr) /\ N' \in Nat /\ (Held(0 .. N - 1) = Given)'
      /\ TypeInv' /\ Depth' = 1 /\ calls' # <<>> /\ Top' = c
  BY CallFacts
<1>2. DOMAIN calls' = {1} /\ calls'[1] = c
  OBVIOUS
<1>3. QuickStack'
  BY <1>1, <1>2 DEF QuickStack
<1>4. Parted'
  <2>1. \A j \in 0 .. N' - 1 : j \in Target(calls'[1])
    BY <1>1, <1>2 DEF Target
  <2> QED
    BY <1>2, <2>1 DEF Parted, Target
<1>5. Top'.op = "insertion" => Sorted(Top.io, Top.io + Top.i - 1)'
  BY <1>1 DEF Sorted
<1> QED
  BY <1>1, <1>3, <1>4, <1>5 DEF QuickMode

-----------------------------------------------------------------------------
(* Merge sort.  These operators say of a stack s and a memory f what the    *)
(* state says of calls and mem.                                            *)

Ordered(f, lo, hi) == \A j, k \in lo .. hi : j < k => Rank[f[j]] <= Rank[f[k]]

\* The merging at j waits for its first half: the call for the second one, right
\* above it, waits as well.
FirstRunning(s, j) == j + 1 < Len(s) /\ s[j + 1].op = "merge"

\* The elements an item answers for: those it has been given, unless a call above
\* it does.
Keeps(s, j) ==
  IF s[j].op # "merging" THEN Target(s[j])
  ELSE IF j = Len(s) THEN (s[j].io .. s[j].out - 1) \cup First(s[j]) \cup Second(s[j])
  ELSE IF FirstRunning(s, j) THEN {} ELSE First(s[j])

Kept(s) == UNION {Keeps(s, j) : j \in 1 .. Len(s)}

Scratch(c) == c.sc .. c.sc + c.n - 1
Writes(c) == IF c.op = "merge" THEN Target(c) \cup Scratch(c) ELSE Target(c)

\* A merging that has not begun, with the calls above it that sort its halves.
Waiting(s, f, j) ==
  /\ s[j].out = s[j].io /\ s[j].p2 = s[j].p1 + s[j].l1
  /\ s[j + 1].io = s[j].p2 /\ s[j + 1].n = s[j].l2
  /\ FirstRunning(s, j) => /\ s[j + 1].sc = s[j].io
                           /\ s[j + 2].io = s[j].p1 /\ s[j + 2].n = s[j].l1
  /\ ~FirstRunning(s, j) => Ordered(f, s[j].p1, s[j].p1 + s[j].l1 - 1)

\* What was merged is in order, so are the halves, and nothing left in them ranks
\* below what was merged.
Merged(f, c) ==
  /\ Ordered(f, c.p1, c.p1 + c.l1 - 1) /\ Ordered(f, c.p2, c.p2 + c.l2 - 1)
  /\ Ordered(f, c.io, c.out - 1)
  /\ \A j \in c.io .. c.out - 1, k \in First(c) \cup Second(c) : Rank[f[j]] <= Rank[f[k]]

MergeStack(s, f) ==
  /\ \A k \in 1 .. Len(s) :
       s[k].op \in {"merge", "merging"} \/ (k = Len(s) /\ s[k].op = "insertion")
  /\ \A j \in 1 .. Len(s) - 1 : s[j].op = "merging" => Waiting(s, f, j)
  /\ \A j \in 1 .. Len(s) - 1 : s[j].op = "merge" => j > 1 /\ s[j - 1].op = "merging"
  /\ \A j, k \in 1 .. Len(s) : j < k => Writes(s[k]) \cap Keeps(s, j) = {}

MergeMode ==
  /\ calls[1].io = 0 /\ calls[1].n = N
  /\ MergeStack(calls, mem)
  /\ Values(mem, Kept(calls)) = Given
  /\ Top.op = "insertion" => Ordered(mem, Top.io, Top.io + Top.i - 1)
  /\ Top.op = "merging" => Merged(mem, Top)

\* The part of the stack below the running item does not notice that it is
\* replaced by items that begin with one for the same part of the array.
LEMMA KeepsBelow ==
  ASSUME NEW s \in Seq(Items), NEW t \in Seq(Items), NEW m \in Nat, m = Len(s),
         Len(t) >= m, \A k \in 1 .. m - 1 : t[k] = s[k],
         t[m].op # "merge" \/ Len(t) = m
  PROVE  \A j \in 1 .. m - 1 : /\ FirstRunning(t, j) <=> FirstRunning(s, j)
                               /\ Keeps(t, j) = Keeps(s, j)
<1> SUFFICES ASSUME NEW j \in 1 .. m - 1
             PROVE  /\ FirstRunning(t, j) <=> FirstRunning(s, j)
                    /\ Keeps(t, j) = Keeps(s, j)
  OBVIOUS
<1>1. j \in Nat /\ j < m /\ t[j] = s[j] /\ j # Len(s) /\ j # Len(t) /\ Len(t) \in Nat
  OBVIOUS
<1>2. FirstRunning(t, j) <=> FirstRunning(s, j)
  <2>1. CASE j + 1 < m
    <3>1. j + 1 \in 1 .. m - 1 /\ j + 1 < Len(t)
      BY <1>1, <2>1
    <3> QED
      BY <2>1, <3>1 DEF FirstRunning
  <2>2. CASE j + 1 = m
    BY <2>2 DEF FirstRunning
  <2> QED
    BY <1>1, <2>1, <2>2
<1>3. Keeps(t, j) = Keeps(s, j)
  BY <1>1, <1>2 DEF Keeps
<1> QED
  BY <1>2, <1>3

LEMMA WaitingBelow ==
  ASSUME NEW s \in Seq(Items), NEW t \in Seq(Items), NEW m \in Nat, m = Len(s),
         Len(t) >= m, \A k \in 1 .. m - 1 : t[k] = s[k],
         t[m].op # "merge" \/ Len(t) = m,
         m > 0, t[m].io = s[m].io, t[m].n = s[m].n, NEW f, NEW g, MergeStack(s, f),
         \A j \in 1 .. m - 1 : \A x \in Keeps(s, j) : g[x] = f[x]
  PROVE  \A j \in 1 .. m - 1 : /\ t[j].op = "merging" => Waiting(t, g, j)
                               /\ t[j].op = "merge" => j > 1 /\ t[j - 1].op = "merging"
                               /\ t[j].op \in {"merge", "merging"}
<1> SUFFICES ASSUME NEW j \in 1 .. m - 1
             PROVE  /\ t[j].op = "merging" => Waiting(t, g, j)
                    /\ t[j].op = "merge" => j > 1 /\ t[j - 1].op = "merging"
                    /\ t[j].op \in {"merge", "merging"}
  OBVIOUS
<1>1. j \in Nat /\ j < m /\ t[j] = s[j] /\ j # Len(s) /\ j \in 1 .. Len(s) - 1
  OBVIOUS
<1>2. /\ s[j].op = "merging" => Waiting(s, f, j)
      /\ s[j].op = "merge" => j > 1 /\ s[j - 1].op = "merging"
      /\ s[j].op \in {"merge", "merging"}
  BY <1>1 DEF MergeStack
<1>3. j > 1 => t[j - 1] = s[j - 1]
  BY <1>1
<1>4. ASSUME s[j].op = "merging" PROVE Waiting(t, g, j)
  <2>1. FirstRunning(t, j) <=> FirstRunning(s, j)
    BY KeepsBelow
  <2>2. \A k \in 1 .. m : t[k].io = s[k].io /\ t[k].n = s[k].n
    <3>1. \A k \in 1 .. m : k = m \/ k \in 1 .. m - 1
      OBVIOUS
    <3> QED
      BY <3>1
  <2>3. t[j + 1].io = s[j + 1].io /\ t[j + 1].n = s[j + 1].n
    BY <1>1, <2>2
  <2>4. FirstRunning(s, j) => /\ t[j + 1] = s[j + 1]
                              /\ t[j + 2].io = s[j + 2].io /\ t[j + 2].n = s[j + 2].n
    <3> SUFFICES ASSUME FirstRunning(s, j)
                 PROVE  /\ t[j + 1] = s[j + 1]
                        /\ t[j + 2].io = s[j + 2].io /\ t[j + 2].n = s[j + 2].n
      OBVIOUS
    <3>1. j + 1 \in 1 .. m - 1 /\ j + 2 \in 1 .. m
      BY <1>1 DEF FirstRunning
    <3> QED
      BY <2>2, <3>1
  <2>5. Waiting(s, f, j)
    BY <1>2, <1>4
  <2>6. ASSUME ~FirstRunning(s, j) PROVE Ordered(g, s[j].p1, s[j].p1 + s[j].l1 - 1)
    <3>1. Keeps(s, j) = s[j].p1 .. s[j].p1 + s[j].l1 - 1
      BY <1>1, <1>4, <2>6 DEF Keeps, First
    <3>2. Ordered(f, s[j].p1, s[j].p1 + s[j].l1 - 1)
      BY <2>5, <2>6 DEF Waiting
    <3> DEFINE R == s[j].p1 .. s[j].p1 + s[j].l1 - 1
    <3>3. \A x \in R : g[x] = f[x]
      BY <3>1
    <3>4. \A x, y \in R : x < y => Rank[f[x]] <= Rank[f[y]]
      BY <3>2 DEF Ordered
    <3> HIDE DEF R
    <3>5. \A x, y \in R : x < y => Rank[g[x]] <= Rank[g[y]]
      BY <3>3, <3>4
    <3> QED
      BY <3>5 DEF Ordered, R
  <2> QED
    BY <1>1, <2>1, <2>3, <2>4, <2>5, <2>6 DEF Waiting
<1> QED
  BY <1>1, <1>2, <1>3, <1>4

\* An item of a merge sort, and the places it has to do with.
LEMMA MergeTypes ==
  ASSUME TypeInv, MergeMode, NEW k \in DOMAIN calls
  PROVE  /\ calls[k] \in Items /\ ItemOK(calls[k])
         /\ calls[k].op \in {"merge", "merging", "insertion"}
         /\ calls[k].io \in Nat /\ calls[k].n \in Nat /\ N \in Nat
         /\ calls[k].io + calls[k].n <= 2 * N
         /\ Target(calls[k]) \subseteq Cells /\ Writes(calls[k]) \subseteq Cells
         /\ Keeps(calls, k) \subseteq Cells
         /\ \A x \in Keeps(calls, k) : mem[x] \in Elems
<1> PICK c : c = calls[k]
  OBVIOUS
<1>1. calls \in Seq(Items) /\ DOMAIN calls = 1 .. Len(calls) /\ c \in Items /\ ItemOK(c)
  BY DEF TypeInv
<1>2. c.op \in {"merge", "merging", "insertion"}
  BY <1>1 DEF MergeMode, MergeStack
<1>3. N \in Nat /\ Given \subseteq Elems
  BY GivenType
<1>4. /\ c.op = "merge" => c \in MergeItems
      /\ c.op = "merging" => c \in MergingItems
      /\ c.op = "insertion" => c \in InsertionItems
  BY <1>1, ItemKinds
<1>5. c.io \in Nat /\ c.n \in Nat
  BY <1>2, <1>4 DEF MergeItems, MergingItems, InsertionItems
<1>6. c.io + c.n <= 2 * N
  BY <1>1, <1>2 DEF ItemOK
<1>7. Target(c) \subseteq Cells
  BY <1>3, <1>5, <1>6 DEF Target, Cells
<1>8. Writes(c) \subseteq Cells
  <2>1. CASE c.op = "merge"
    <3>1. c.sc \in Nat /\ c.sc + c.n <= 2 * N
      BY <1>1, <1>4, <2>1 DEF MergeItems, ItemOK
    <3>2. Scratch(c) \subseteq Cells
      BY <1>3, <1>5, <3>1 DEF Scratch, Cells
    <3> QED
      BY <1>7, <3>2 DEF Writes
  <2> QED
    BY <1>7, <2>1 DEF Writes
<1>9. Keeps(calls, k) \subseteq Cells
  <2>1. CASE c.op = "merging"
    <3>1. /\ c.out \in Nat /\ c.p1 \in Nat /\ c.l1 \in Nat /\ c.p2 \in Nat /\ c.l2 \in Nat
          /\ c.out + c.l1 + c.l2 = c.io + c.n
          /\ c.p1 + c.l1 <= 2 * N /\ c.p2 + c.l2 <= 2 * N
      BY <1>1, <1>4, <2>1 DEF MergingItems, ItemOK
    <3>2. First(c) \subseteq Cells /\ Second(c) \subseteq Cells /\ c.io .. c.out - 1 \subseteq Cells
      BY <1>3, <1>5, <1>6, <3>1 DEF First, Second, Cells
    <3> QED
      BY <2>1, <3>2 DEF Keeps
  <2> QED
    BY <1>7, <2>1 DEF Keeps
<1>10. ASSUME NEW x \in Keeps(calls, k) PROVE mem[x] \in Elems
  <2>1. k \in 1 .. Len(calls)
    BY <1>1
  <2>2. x \in Kept(calls)
    BY <2>1 DEF Kept
  <2>3. mem[x] \in Values(mem, Kept(calls))
    BY <2>2 DEF Values
  <2> QED
    BY <1>3, <2>3 DEF MergeMode
<1> QED
  BY <1>1, <1>2, <1>3, <1>5, <1>6, <1>7, <1>8, <1>9, <1>10

\* The items from place m on take the place of the one at m, for the same part of
\* the array, and touch nothing that it did not.
Replaces(s, t, f, g) ==
  LET m == Len(s)
  IN  /\ s \in Seq(Items) /\ t \in Seq(Items) /\ m > 0 /\ Len(t) >= m
      /\ \A k \in 1 .. m - 1 : t[k] = s[k]
      /\ t[m].op # "merge" \/ Len(t) = m
      /\ t[m].io = s[m].io /\ t[m].n = s[m].n
      /\ MergeStack(s, f)
      /\ \A j \in 1 .. m - 1 : \A x \in Keeps(s, j) : g[x] = f[x]
      /\ \A k \in m .. Len(t) : Writes(t[k]) \subseteq Writes(s[m])
      /\ \A k \in m .. Len(t) :
           t[k].op \in {"merge", "merging"} \/ (k = Len(t) /\ t[k].op = "insertion")
      /\ \A j \in m .. Len(t) - 1 : /\ t[j].op = "merging" => Waiting(t, g, j)
                                    /\ t[j].op = "merge" => j > m /\ t[j - 1].op = "merging"
      /\ \A j, k \in m .. Len(t) : j < k => Writes(t[k]) \cap Keeps(t, j) = {}
      /\ Values(g, UNION {Keeps(t, j) : j \in m .. Len(t)}) = Values(f, Keeps(s, m))

LEMMA StackReplaced ==
  ASSUME NEW s, NEW t, NEW f, NEW g, Replaces(s, t, f, g)
  PROVE  MergeStack(t, g) /\ Values(g, Kept(t)) = Values(f, Kept(s))
<1> DEFINE m == Len(s)
<1>1. /\ s \in Seq(Items) /\ t \in Seq(Items) /\ m > 0 /\ Len(t) >= m
      /\ \A k \in 1 .. m - 1 : t[k] = s[k]
      /\ t[m].op # "merge" \/ Len(t) = m
      /\ t[m].io = s[m].io /\ t[m].n = s[m].n
      /\ MergeStack(s, f)
      /\ \A j \in 1 .. m - 1 : \A x \in Keeps(s, j) : g[x] = f[x]
  BY DEF Replaces
<1>2. m \in Nat \ {0} /\ Len(t) \in Nat /\ m <= Len(t)
  BY <1>1
<1>3. \A j \in 1 .. m - 1 : Keeps(t, j) = Keeps(s, j)
  BY <1>1, <1>2, KeepsBelow
<1>4. \A j \in 1 .. m - 1 : /\ t[j].op = "merging" => Waiting(t, g, j)
                            /\ t[j].op = "merge" => j > 1 /\ t[j - 1].op = "merging"
                            /\ t[j].op \in {"merge", "merging"}
  BY <1>1, <1>2, WaitingBelow
<1> HIDE DEF m
<1>5. /\ \A k \in m .. Len(t) :
           t[k].op \in {"merge", "merging"} \/ (k = Len(t) /\ t[k].op = "insertion")
      /\ \A j \in m .. Len(t) - 1 : /\ t[j].op = "merging" => Waiting(t, g, j)
                                    /\ t[j].op = "merge" => j > m /\ t[j - 1].op = "merging"
      /\ \A k \in m .. Len(t) : Writes(t[k]) \subseteq Writes(s[m])
      /\ \A j, k \in m .. Len(t) : j < k => Writes(t[k]) \cap Keeps(t, j) = {}
      /\ Values(g, UNION {Keeps(t, j) : j \in m .. Len(t)}) = Values(f, Keeps(s, m))
  BY DEF Replaces, m
<1>6. \A j \in 1 .. Len(t) : j \in 1 .. m - 1 \/ j \in m .. Len(t)
  BY <1>2
<1>7. \A j \in 1 .. Len(t) - 1 : j \in 1 .. m - 1 \/ j \in m .. Len(t) - 1
  BY <1>2
<1>8. \A k \in 1 .. Len(t) :
        t[k].op \in {"merge", "merging"} \/ (k = Len(t) /\ t[k].op = "insertion")
  BY <1>4, <1>5, <1>6
<1>9. \A j \in 1 .. Len(t) - 1 : t[j].op = "merging" => Waiting(t, g, j)
  BY <1>4, <1>5, <1>7
<1>10. \A j \in 1 .. Len(t) - 1 : t[j].op = "merge" => j > 1 /\ t[j - 1].op = "merging"
  BY <1>2, <1>4, <1>5, <1>7
<1>11. ASSUME NEW j \in 1 .. Len(t), NEW k \in 1 .. Len(t), j < k
       PROVE  Writes(t[k]) \cap Keeps(t, j) = {}
  <2>1. CASE j \in m .. Len(t)
    <3>1. k \in m .. Len(t)
      BY <1>2, <1>11, <2>1
    <3> QED
      BY <1>5, <1>11, <2>1, <3>1
  <2>2. CASE j \in 1 .. m - 1
    <3>1. Keeps(t, j) = Keeps(s, j)
      BY <1>3, <2>2
    <3>2. j \in 1 .. m /\ m \in 1 .. m /\ j < m
      BY <1>2, <2>2
    <3>3. \A i \in 1 .. m : j < i => Writes(s[i]) \cap Keeps(s, j) = {}
      BY <1>1, <3>2 DEF MergeStack, m
    <3>4. CASE k \in 1 .. m - 1
      <4>1. t[k] = s[k] /\ k \in 1 .. m
        BY <1>1, <1>2, <3>4
      <4> QED
        BY <1>11, <3>1, <3>3, <4>1
    <3>5. CASE k \in m .. Len(t)
      <4>1. Writes(t[k]) \subseteq Writes(s[m])
        BY <1>5, <3>5
      <4> QED
        BY <3>1, <3>2, <3>3, <4>1
    <3> QED
      BY <1>6, <3>4, <3>5
  <2> QED
    BY <1>6, <2>1, <2>2
<1>12. MergeStack(t, g)
  BY <1>8, <1>9, <1>10, <1>11 DEF MergeStack
<1>13. Values(g, Kept(t)) = Values(f, Kept(s))
  <2> DEFINE below == UNION {Keeps(s, j) : j \in 1 .. m - 1}
             above == UNION {Keeps(t, j) : j \in m .. Len(t)}
  <2>1. Kept(s) = below \cup Keeps(s, m)
    <3>1. \A j : j \in 1 .. m <=> j \in 1 .. m - 1 \/ j = m
      BY <1>2
    <3> QED
      BY <3>1 DEF Kept, m
  <2>2. Kept(t) = below \cup above
    <3>1. \A j : j \in 1 .. Len(t) <=> j \in 1 .. m - 1 \/ j \in m .. Len(t)
      BY <1>2
    <3> QED
      BY <1>3, <3>1 DEF Kept
  <2>3. Values(g, above) = Values(f, Keeps(s, m))
    BY <1>5
  <2>4. \A x \in below : g[x] = f[x]
    BY <1>1 DEF m
  <2> HIDE DEF below, above
  <2>5. Values(g, below) = Values(f, below)
    BY <2>4 DEF Values
  <2>6. /\ Values(g, Kept(t)) = Values(g, below) \cup Values(g, above)
        /\ Values(f, Kept(s)) = Values(f, below) \cup Values(f, Keeps(s, m))
    BY <2>1, <2>2 DEF Values
  <2> QED
    BY <2>3, <2>5, <2>6
<1> QED
  BY <1>12, <1>13

\* The running item is replaced, and the merge sort goes on.
LEMMA MergeReplaced ==
  ASSUME TypeInv, MergeMode, calls # <<>>, given' = given,
         NEW items \in Seq(Items), Len(items) > 0, Replace(items),
         \A k \in DOMAIN items : ItemOK(items[k]),
         mem' \in [Cells -> Elems \cup {Junk}],
         Replaces(calls, calls', mem, mem'),
         NEW d, d = items[Len(items)],
         d.op = "insertion" => Ordered(mem', d.io, d.io + d.i - 1),
         d.op = "merging" => Merged(mem', d)
  PROVE  TypeInv' /\ MergeMode' /\ calls' # <<>> /\ Top' = d
<1> DEFINE m == Depth - 1
           r == Len(items)
<1>1. /\ Depth \in Nat \ {0} /\ calls \in Seq(Items) /\ Len(calls) = Depth
      /\ m \in Nat /\ r \in Nat /\ r > 0
  BY TopFacts DEF TypeInv, Depth
<1>2. /\ calls' \in Seq(Items) /\ Len(calls') = m + r /\ DOMAIN calls' = 1 .. m + r
      /\ \A k \in 1 .. m : calls'[k] = calls[k]
      /\ \A k \in 1 .. r : calls'[m + k] = items[k]
  BY <1>1, ReplaceFacts DEF Replace
<1>3. N' = N /\ Cells' = Cells /\ Given' = Given
  BY SameSize
<1>4. DOMAIN items = 1 .. r /\ \A k \in 1 .. m : k \in DOMAIN calls
  BY <1>1
<1> HIDE DEF m, r
<1>5. \A k \in DOMAIN calls' : k \in 1 .. m \/ (k - m \in 1 .. r /\ calls'[k] = items[k - m])
  <2> SUFFICES ASSUME NEW k \in 1 .. m + r, ~(k \in 1 .. m)
               PROVE  k - m \in 1 .. r /\ calls'[k] = items[k - m]
    BY <1>2
  <2>1. k - m \in 1 .. r /\ m + (k - m) = k
    BY <1>1
  <2> QED
    BY <1>2, <2>1
<1>6. (\A k \in DOMAIN calls : ItemOK(calls[k]))'
  <2> SUFFICES ASSUME NEW k \in DOMAIN calls' PROVE ItemOK(calls[k])'
    OBVIOUS
  <2> DEFINE c == calls'[k]
  <2>1. ItemOK(c)
    <3>1. CASE k \in 1 .. m
      BY <1>2, <1>4, <3>1 DEF TypeInv
    <3>2. CASE k - m \in 1 .. r /\ calls'[k] = items[k - m]
      BY <1>4, <3>2
    <3> QED
      BY <1>5, <3>1, <3>2
  <2> QED
    BY <1>3, <2>1 DEF ItemOK
<1>7. TypeInv'
  BY <1>2, <1>3, <1>6 DEF TypeInv
<1>8. calls' # <<>> /\ Top' = d
  <2>1. r \in 1 .. r /\ Len(calls') # 0
    BY <1>1, <1>2
  <2> QED
    BY <1>2, <2>1 DEF Top, Last, r
<1>9. MergeStack(calls', mem') /\ Values(mem', Kept(calls')) = Given'
  BY <1>3, StackReplaced DEF MergeMode
<1>10. calls'[1].io = 0 /\ calls'[1].n = N'
  <2>1. calls'[1].io = calls[1].io /\ calls'[1].n = calls[1].n
    <3>1. CASE m = 0
      BY <1>1, <3>1 DEF Replaces, m
    <3>2. CASE m # 0
      <4>1. 1 \in 1 .. m
        BY <1>1, <3>2
      <4> QED
        BY <1>2, <4>1
    <3> QED
      BY <3>1, <3>2
  <2> QED
    BY <1>3, <2>1 DEF MergeMode
<1> QED
  BY <1>7, <1>8, <1>9, <1>10 DEF MergeMode

\* What the running item answers for.
Own(c) ==
  IF c.op = "merging" THEN (c.io .. c.out - 1) \cup First(c) \cup Second(c) ELSE Target(c)

LEMMA OwnTop ==
  ASSUME NEW s, Len(s) \in Nat
  PROVE  Keeps(s, Len(s)) = Own(s[Len(s)])
BY DEF Keeps, Own

\* The running item goes on, or as one that has no scratch space.
LEMMA MergeContinues ==
  ASSUME TypeInv, MergeMode, calls # <<>>, given' = given,
         NEW d \in Items, ItemOK(d), Continue(d), d.io = Top.io, d.n = Top.n,
         d.op \in {"merging", "insertion"},
         mem' \in [Cells -> Elems \cup {Junk}],
         \A x \in Cells \ Target(Top) : mem'[x] = mem[x],
         Values(mem', Own(d)) = Values(mem, Own(Top)),
         d.op = "insertion" => Ordered(mem', d.io, d.io + d.i - 1),
         d.op = "merging" => Merged(mem', d)
  PROVE  TypeInv' /\ MergeMode' /\ calls' # <<>>
<1> DEFINE items == <<d>>
           m == Len(calls)
<1>1. /\ items \in Seq(Items) /\ Len(items) = 1 /\ items[1] = d /\ DOMAIN items = {1}
      /\ Replace(items)
  BY DEF Continue
<1>2. /\ m \in Nat \ {0} /\ calls \in Seq(Items) /\ Top = calls[m]
      /\ DOMAIN calls = 1 .. m
  BY TopFacts DEF TypeInv, Depth
<1> HIDE DEF items
<1>3. /\ calls' \in Seq(Items) /\ Len(calls') = m
      /\ \A k \in 1 .. m - 1 : calls'[k] = calls[k]
      /\ calls'[m] = d
  <2>1. /\ calls' \in Seq(Items) /\ Len(calls') = m - 1 + Len(items)
        /\ \A k \in 1 .. m - 1 : calls'[k] = calls[k]
        /\ \A k \in 1 .. Len(items) : calls'[m - 1 + k] = items[k]
    BY <1>1, <1>2, ReplaceFacts DEF Replace
  <2> HIDE DEF m
  <2>2. m - 1 + 1 = m
    BY <1>2
  <2> QED
    BY <1>1, <2>1, <2>2
<1>4. \A j \in 1 .. m - 1 : \A x \in Keeps(calls, j) : mem'[x] = mem[x]
  <2> SUFFICES ASSUME NEW j \in 1 .. m - 1, NEW x \in Keeps(calls, j)
               PROVE  mem'[x] = mem[x]
    OBVIOUS
  <2>1. j \in 1 .. m /\ m \in 1 .. m /\ j < m
    BY <1>2
  <2>2. Writes(calls[m]) \cap Keeps(calls, j) = {}
    BY <2>1 DEF MergeMode, MergeStack
  <2>3. x \in Cells
    BY <1>2, <2>1, MergeTypes
  <2> QED
    BY <1>2, <2>2, <2>3 DEF Writes
<1>6. Writes(d) \subseteq Writes(Top)
  BY DEF Writes, Target
<1>7. UNION {Keeps(calls', j) : j \in m .. m} = Own(d)
  <2>1. Keeps(calls', m) = Own(d)
    BY <1>2, <1>3, OwnTop
  <2>2. m .. m = {m}
    BY <1>2
  <2> QED
    BY <2>1, <2>2
<1>8. Keeps(calls, m) = Own(Top)
  BY <1>2, OwnTop
<1> HIDE DEF m
<1>5. \A k \in m .. m : k = m
  BY <1>2
<1>9. Replaces(calls, calls', mem, mem')
  <2>1. m .. m - 1 = {}
    BY <1>2
  <2>2. MergeStack(calls, mem)
    BY DEF MergeMode
  <2>3. \A j, k \in m .. m : ~(j < k)
    BY <1>2
  <2>4. \A k \in m .. m : Writes(calls'[k]) \subseteq Writes(calls[m])
    BY <1>2, <1>3, <1>5, <1>6
  <2>5. \A k \in m .. m : calls'[k].op \in {"merge", "merging"}
                            \/ (k = m /\ calls'[k].op = "insertion")
    BY <1>3, <1>5
  <2>6. Values(mem', UNION {Keeps(calls', j) : j \in m .. m}) = Values(mem, Keeps(calls, m))
    BY <1>7, <1>8
  <2>7. calls'[m].io = calls[m].io /\ calls'[m].n = calls[m].n /\ calls'[m].op # "merge"
    BY <1>2, <1>3
  <2>8. m > 0 /\ m >= m
    BY <1>2
  <2> QED
    BY <1>2, <1>3, <1>4, <2>1, <2>2, <2>3, <2>4, <2>5, <2>6, <2>7, <2>8 DEF Replaces, m
<1>10. \A k \in DOMAIN items : ItemOK(items[k])
  BY <1>1
<1>11. d = items[Len(items)] /\ Len(items) > 0
  BY <1>1
<1> QED
  BY <1>1, <1>9, <1>10, <1>11, MergeReplaced

LEMMA MergeTop ==
  ASSUME TypeInv, MergeMode, calls # <<>>
  PROVE  /\ Top \in Items /\ ItemOK(Top) /\ Top.op \in {"merge", "merging", "insertion"}
         /\ Top.io \in Nat /\ Top.n \in Nat /\ N \in Nat /\ Top.io + Top.n <= 2 * N
         /\ Target(Top) \subseteq Cells /\ Own(Top) \subseteq Cells
         /\ \A x \in Own(Top) : mem[x] \in Elems
         /\ DOMAIN mem = Cells
<1>1. Depth \in DOMAIN calls /\ Top = calls[Depth] /\ Depth \in Nat
  BY TopFacts
<1>2. Keeps(calls, Depth) = Own(Top)
  BY <1>1, OwnTop DEF Depth
<1> QED
  BY <1>1, <1>2, MergeTypes DEF TypeInv

LEMMA MergeFewStep ==
  ASSUME TypeInv, MergeMode, MergeFew
  PROVE  TypeInv' /\ MergeMode' /\ calls' # <<>>
<1> PICK d : d = Insertion(Top.io, Top.n)
  OBVIOUS
<1>1. calls # <<>> /\ Top.op = "merge" /\ Continue(d) /\ mem' = mem /\ given' = given
  BY DEF MergeFew
<1>2. /\ Top \in Items /\ ItemOK(Top) /\ Top.io \in Nat /\ Top.n \in Nat
      /\ Top.io + Top.n <= 2 * N /\ N \in Nat
  BY <1>1, MergeTop
<1>3. /\ d \in Items /\ d.op = "insertion" /\ d.io = Top.io /\ d.n = Top.n /\ d.i = 1
  BY <1>2 DEF Insertion, Items, InsertionItems
<1>4. ItemOK(d)
  BY <1>1, <1>2, <1>3 DEF ItemOK
<1>5. Own(d) = Own(Top)
  BY <1>1, <1>3 DEF Own, Target
<1>6. Values(mem', Own(d)) = Values(mem, Own(Top))
  BY <1>1, <1>5
<1>7. Ordered(mem', d.io, d.io + d.i - 1)
  BY <1>2, <1>3 DEF Ordered
<1>8. mem' \in [Cells -> Elems \cup {Junk}] /\ \A x \in Cells \ Target(Top) : mem'[x] = mem[x]
  BY <1>1 DEF TypeInv
<1> QED
  BY <1>1, <1>3, <1>4, <1>6, <1>7, <1>8, MergeContinues

LEMMA MergeInsert ==
  ASSUME TypeInv, MergeMode, Insert
  PROVE  TypeInv' /\ MergeMode' /\ calls' # <<>>
<1> PICK at, from : at = Top.io + Gap(Top.io, Top.i) /\ from = Top.io + Top.i
  OBVIOUS
<1> PICK u : u = Top
  OBVIOUS
<1> DEFINE d == [Top EXCEPT !.i = @ + 1]
<1>1. /\ calls # <<>> /\ Top.op = "insertion" /\ Top.i < Top.n /\ given' = given
      /\ mem' = [k \in DOMAIN mem |-> IF k = at THEN mem[from]
                                      ELSE IF at < k /\ k <= from THEN mem[k - 1]
                                      ELSE mem[k]]
  BY DEF Insert
<1>2. /\ u \in Items /\ ItemOK(u) /\ u.io \in Nat /\ u.n \in Nat
      /\ u.io + u.n <= 2 * N /\ N \in Nat
      /\ \A x \in Own(u) : mem[x] \in Elems
  BY <1>1, MergeTop
<1>3. /\ u \in InsertionItems /\ u.i \in 1 .. u.n /\ u.n >= 2
      /\ Ordered(mem, u.io, u.io + u.i - 1) /\ Own(u) = Target(u)
  BY <1>1, <1>2, ItemKinds DEF ItemOK, MergeMode, Own
<1>4. /\ mem' \in [Cells -> Elems \cup {Junk}]
      /\ \A x \in Cells \ Target(u) : mem'[x] = mem[x]
      /\ \A x \in Target(u) : \E y \in Target(u) : mem'[x] = mem[y]
      /\ \A y \in Target(u) : \E x \in Target(u) : mem'[x] = mem[y]
      /\ Sorted(u.io, from)'
  <2>1. Sorted(u.io, u.io + u.i - 1)
    BY <1>3 DEF Sorted, Ordered
  <2>2. \A x \in Target(u) : mem[x] \in Elems
    BY <1>2, <1>3
  <2>3. u.i < u.n /\ from = u.io + u.i /\ at = u.io + Gap(u.io, u.i)
    BY <1>1
  <2>4. Inserted(mem, mem', at, from)
    BY <1>1 DEF Inserted
  <2>5. u \in InsertionItems /\ ItemOK(u)
    BY <1>2, <1>3
  <2> QED
    BY <2>1, <2>2, <2>3, <2>4, <2>5, InsertFacts
<1>5. /\ d \in InsertionItems /\ d.op = "insertion" /\ d.io = u.io /\ d.n = u.n /\ d.i = u.i + 1
  BY <1>3 DEF InsertionItems
<1>6. Continue(d)
  BY DEF Insert
<1> HIDE DEF d
<1>7. d \in Items /\ ItemOK(d) /\ Own(d) = Target(u)
  <2>1. d.n >= 2 /\ d.i \in 1 .. d.n /\ d.io + d.n <= 2 * N
    BY <1>1, <1>2, <1>3, <1>5
  <2> QED
    BY <1>5, <2>1 DEF ItemOK, Items, Target, Own
<1>8. Values(mem', Own(d)) = Values(mem, Own(u))
  <2> DEFINE T == Target(u)
  <2>1. Shuffles(mem, mem', T, T)
    BY <1>4 DEF Shuffles
  <2>2. Values(mem', T) = Values(mem, T)
    BY <2>1, Shuffled
  <2> QED
    BY <1>3, <1>7, <2>2
<1>9. Ordered(mem', d.io, d.io + d.i - 1)
  <2>1. d.io + d.i - 1 = from
    BY <1>1, <1>3, <1>5
  <2> QED
    BY <1>4, <1>5, <2>1 DEF Ordered, Sorted
<1> QED
  BY <1>1, <1>4, <1>5, <1>7, <1>8, <1>9, <1>6, MergeContinues

LEMMA MergingTop ==
  ASSUME TypeInv, MergeMode, calls # <<>>, Top.op = "merging"
  PROVE  /\ Top \in MergingItems
         /\ Top.io \in Nat /\ Top.n \in Nat /\ N \in Nat /\ Top.io + Top.n <= 2 * N
         /\ Top.out \in Nat /\ Top.p1 \in Nat /\ Top.l1 \in Nat /\ Top.p2 \in Nat /\ Top.l2 \in Nat
         /\ Top.io <= Top.out /\ Top.out + Top.l1 + Top.l2 = Top.io + Top.n
         /\ Top.p1 + Top.l1 <= 2 * N /\ Top.p2 + Top.l2 <= 2 * N
         /\ Target(Top) \cap (First(Top) \cup Second(Top)) = {}
         /\ Merged(mem, Top)
<1>1. /\ Top \in Items /\ ItemOK(Top) /\ N \in Nat /\ Top.io + Top.n <= 2 * N
  BY MergeTop
<1>2. Top \in MergingItems
  BY <1>1, ItemKinds
<1> QED
  BY <1>1, <1>2 DEF MergingItems, ItemOK, MergeMode

\* The fields of an item that merges, when three of them are given new values.
LEMMA FirstItem ==
  ASSUME NEW t \in MergingItems, NEW x, NEW y, NEW z
  PROVE  [t EXCEPT !.out = x, !.p1 = y, !.l1 = z]
           = [op |-> "merging", io |-> t.io, n |-> t.n, out |-> x, p1 |-> y, l1 |-> z,
              p2 |-> t.p2, l2 |-> t.l2]
<1>1. t = [op |-> "merging", io |-> t.io, n |-> t.n, out |-> t.out, p1 |-> t.p1, l1 |-> t.l1,
           p2 |-> t.p2, l2 |-> t.l2]
  BY DEF MergingItems
<1>2. DOMAIN t = {"op", "io", "n", "out", "p1", "l1", "p2", "l2"}
  BY <1>1
<1>3. [t EXCEPT !.out = x, !.p1 = y, !.l1 = z]
        = [k \in DOMAIN t |-> IF k = "l1" THEN z ELSE IF k = "p1" THEN y
                              ELSE IF k = "out" THEN x ELSE t[k]]
  OBVIOUS
<1> QED
  BY <1>1, <1>2, <1>3

LEMMA SecondItem ==
  ASSUME NEW t \in MergingItems, NEW x, NEW y, NEW z
  PROVE  [t EXCEPT !.out = x, !.p2 = y, !.l2 = z]
           = [op |-> "merging", io |-> t.io, n |-> t.n, out |-> x, p1 |-> t.p1, l1 |-> t.l1,
              p2 |-> y, l2 |-> z]
<1>1. t = [op |-> "merging", io |-> t.io, n |-> t.n, out |-> t.out, p1 |-> t.p1, l1 |-> t.l1,
           p2 |-> t.p2, l2 |-> t.l2]
  BY DEF MergingItems
<1>2. DOMAIN t = {"op", "io", "n", "out", "p1", "l1", "p2", "l2"}
  BY <1>1
<1>3. [t EXCEPT !.out = x, !.p2 = y, !.l2 = z]
        = [k \in DOMAIN t |-> IF k = "l2" THEN z ELSE IF k = "p2" THEN y
                              ELSE IF k = "out" THEN x ELSE t[k]]
  OBVIOUS
<1> QED
  BY <1>1, <1>2, <1>3

\* A part of an array, what it begins with, and a longer one.
LEMMA Longer ==
  ASSUME NEW a \in Nat, NEW l \in Nat, NEW n \in Nat
  PROVE  /\ l <= n => a .. a + l - 1 \subseteq a .. a + n - 1
         /\ \A k \in a .. a + l - 1 : k = a \/ a < k
OBVIOUS

LEMMA Remains ==
  ASSUME NEW o \in Nat, NEW a \in Nat, NEW b \in Nat, NEW i \in Nat, NEW n \in Nat,
         o + a + b = i + n
  PROVE  /\ a + b > 0 => o <= i + n - 1
         /\ i = o => b <= n /\ a <= n
OBVIOUS

LEMMA LastAdded ==
  ASSUME NEW a \in Nat, NEW b \in Nat, a <= b
  PROVE  a .. b = (a .. b - 1) \cup {b}
OBVIOUS

\* One of the halves gives an element that none of the rest ranks below.
LEMMA TakeOne ==
  ASSUME TypeInv, MergeMode, calls # <<>>, Top.op = "merging", given' = given,
         NEW p \in First(Top) \cup Second(Top), mem' = [mem EXCEPT ![Top.out] = mem[p]],
         \A k \in First(Top) \cup Second(Top) : Rank[mem[p]] <= Rank[mem[k]],
         NEW d \in MergingItems, Continue(d), d.io = Top.io, d.n = Top.n, d.out = Top.out + 1,
         d.out + d.l1 + d.l2 = d.io + d.n, d.p1 + d.l1 <= 2 * N, d.p2 + d.l2 <= 2 * N,
         First(d) \subseteq First(Top), Second(d) \subseteq Second(Top),
         First(Top) \cup Second(Top) = First(d) \cup Second(d) \cup {p}
  PROVE  TypeInv' /\ MergeMode' /\ calls' # <<>>
<1> PICK c : c = Top
  OBVIOUS
<1> PICK out : out = c.out
  OBVIOUS
<1> DEFINE rest == First(c) \cup Second(c)
<1>1. /\ c \in MergingItems
      /\ c.io \in Nat /\ c.n \in Nat /\ N \in Nat /\ c.io + c.n <= 2 * N
      /\ out \in Nat /\ c.p1 \in Nat /\ c.l1 \in Nat /\ c.p2 \in Nat /\ c.l2 \in Nat
      /\ c.io <= out /\ out + c.l1 + c.l2 = c.io + c.n
      /\ Target(c) \cap rest = {} /\ Merged(mem, c)
  BY MergingTop
<1>2. /\ Own(c) \subseteq Cells /\ \A x \in Own(c) : mem[x] \in Elems
      /\ Target(c) \subseteq Cells /\ DOMAIN mem = Cells
  BY MergeTop
<1>3. Own(c) = (c.io .. out - 1) \cup rest /\ rest \subseteq Own(c) /\ p \in rest
  BY DEF Own
<1>4. c.l1 + c.l2 > 0
  <2>1. c.l1 > 0 \/ c.l2 > 0
    BY <1>1, <1>3 DEF First, Second
  <2> QED
    BY <1>1, <2>1
<1>5. out \in Target(c) /\ out \in Cells /\ out \notin rest /\ out \notin c.io .. out - 1
  <2>1. out <= c.io + c.n - 1
    BY <1>1, <1>4, Remains
  <2>3. out \notin c.io .. out - 1
    BY <1>1
  <2>2. out \in Target(c)
    BY <1>1, <2>1 DEF Target
  <2> HIDE DEF rest
  <2> QED
    BY <1>1, <1>2, <2>2, <2>3
<1>6. mem'[out] = mem[p] /\ \A x \in Cells : x # out => mem'[x] = mem[x]
  BY <1>2, <1>5
<1>7. mem[p] \in Elems
  BY <1>2, <1>3
<1>8. mem' \in [Cells -> Elems \cup {Junk}] /\ \A x \in Cells \ Target(c) : mem'[x] = mem[x]
  BY <1>2, <1>5, <1>6, <1>7 DEF TypeInv
<1> DEFINE rest2 == First(d) \cup Second(d)
           old == c.io .. out - 1
<1>9. /\ rest = rest2 \cup {p} /\ rest2 \subseteq rest
      /\ \A x \in rest : mem'[x] = mem[x]
      /\ \A x \in old : mem'[x] = mem[x]
      /\ \A x \in rest \cup old : mem[x] \in Elems /\ Rank[mem[x]] \in Nat
  <2>1. rest = rest2 \cup {p}
    OBVIOUS
  <2>2. rest \cup old = Own(c)
    BY <1>3
  <2>3. \A x \in Own(c) : x # out => mem'[x] = mem[x]
    BY <1>2, <1>6
  <2>4. \A x \in rest \cup old : mem[x] \in Elems /\ Rank[mem[x]] \in Nat
    BY <1>2, <2>2, RankType
  <2> QED
    BY <1>5, <2>1, <2>2, <2>3, <2>4
<1>10. /\ d \in Items /\ d.op = "merging" /\ Own(d) = (c.io .. out) \cup rest2
       /\ Target(d) = Target(c)
  <2>1. d.out - 1 = out
    BY <1>1
  <2>2. d \in Items /\ d.op = "merging"
    BY DEF Items, MergingItems
  <2>3. Own(d) = (c.io .. out) \cup rest2
    BY <2>1, <2>2 DEF Own
  <2>4. Target(d) = Target(c)
    BY DEF Target
  <2> QED
    BY <2>2, <2>3, <2>4
<1>11. ItemOK(d)
  <2>1. d.io <= d.out
    BY <1>1
  <2>2. Target(d) \cap rest2 = {}
    BY <1>1, <1>9, <1>10
  <2> QED
    BY <1>1, <1>10, <2>1, <2>2 DEF ItemOK
<1>12. Values(mem', Own(d)) = Values(mem, Own(c))
  <2>1. c.io .. out = old \cup {out}
    <3>1. c.io \in Nat /\ out \in Nat /\ c.io <= out
      BY <1>1
    <3> QED
      BY <3>1, LastAdded
  <2> HIDE DEF old, rest, rest2
  <2>2. Own(d) = old \cup rest2 \cup {out} /\ Own(c) = old \cup rest2 \cup {p}
    BY <1>3, <1>9, <1>10, <2>1 DEF old
  <2>3. \A x \in old \cup rest2 : mem'[x] = mem[x]
    BY <1>9
  <2> QED
    BY <1>6, <2>2, <2>3 DEF Values
<1>13. Merged(mem', d)
  <2>1. /\ \A j, k \in First(c) : j < k => Rank[mem[j]] <= Rank[mem[k]]
        /\ \A j, k \in Second(c) : j < k => Rank[mem[j]] <= Rank[mem[k]]
        /\ \A j, k \in old : j < k => Rank[mem[j]] <= Rank[mem[k]]
        /\ \A j \in old, k \in rest : Rank[mem[j]] <= Rank[mem[k]]
    BY <1>1 DEF Merged, Ordered, First, Second
  <2>2. \A k \in rest : Rank[mem[p]] <= Rank[mem[k]]
    OBVIOUS
  <2>3. \A j \in c.io .. out : j = out \/ j \in old
    BY <1>1
  <2>4. \A j \in old : ~(out < j) /\ j < out
    BY <1>1
  <2> HIDE DEF old
  <2>5. /\ First(d) \subseteq rest /\ Second(d) \subseteq rest /\ ~(out < out)
    BY <1>1
  <2> HIDE DEF rest
  <2>6. /\ \A j, k \in First(d) : j < k => Rank[mem'[j]] <= Rank[mem'[k]]
        /\ \A j, k \in Second(d) : j < k => Rank[mem'[j]] <= Rank[mem'[k]]
    BY <1>9, <2>1, <2>5
  <2>7. \A j, k \in c.io .. out : j < k => Rank[mem'[j]] <= Rank[mem'[k]]
    BY <1>3, <1>6, <1>9, <2>1, <2>3, <2>4, <2>5
  <2>8. \A j \in c.io .. out, k \in rest2 : Rank[mem'[j]] <= Rank[mem'[k]]
    BY <1>6, <1>9, <2>1, <2>2, <2>3
  <2>9. d.io = c.io /\ d.out - 1 = out
    BY <1>1
  <2> QED
    BY <2>6, <2>7, <2>8, <2>9 DEF Merged, Ordered, First, Second
<1> QED
  BY <1>8, <1>10, <1>11, <1>12, <1>13, MergeContinues

LEMMA TakeFirstStep ==
  ASSUME TypeInv, MergeMode, TakeFirst
  PROVE  TypeInv' /\ MergeMode' /\ calls' # <<>>
<1> DEFINE d == [Top EXCEPT !.out = @ + 1, !.p1 = @ + 1, !.l1 = @ - 1]
<1>1. calls # <<>> /\ Top.op = "merging" /\ Continue(d)
  BY DEF TakeFirst
<1>2. d = [op |-> "merging", io |-> Top.io, n |-> Top.n, out |-> Top.out + 1, p1 |-> Top.p1 + 1,
           l1 |-> Top.l1 - 1, p2 |-> Top.p2, l2 |-> Top.l2]
  <2>1. Top \in MergingItems
    BY <1>1, MergingTop
  <2>2. [Top EXCEPT !.out = Top.out + 1, !.p1 = Top.p1 + 1, !.l1 = Top.l1 - 1]
          = [op |-> "merging", io |-> Top.io, n |-> Top.n, out |-> Top.out + 1, p1 |-> Top.p1 + 1,
           l1 |-> Top.l1 - 1, p2 |-> Top.p2, l2 |-> Top.l2]
    BY <2>1, FirstItem
  <2> QED
    BY <2>2
<1> HIDE DEF d
<1> PICK c : c = Top
  OBVIOUS
<1>3. /\ c.op = "merging" /\ c.l1 > 0
      /\ c.l2 > 0 => CM(mem[c.p1], mem[c.p2])
      /\ mem' = [mem EXCEPT ![c.out] = mem[c.p1]] /\ given' = given
  BY DEF TakeFirst, FirstIsNext
<1>4. /\ c \in MergingItems
      /\ c.io \in Nat /\ c.n \in Nat /\ N \in Nat /\ c.io + c.n <= 2 * N
      /\ c.out \in Nat /\ c.p1 \in Nat /\ c.l1 \in Nat /\ c.p2 \in Nat /\ c.l2 \in Nat
      /\ c.io <= c.out /\ c.out + c.l1 + c.l2 = c.io + c.n
      /\ c.p1 + c.l1 <= 2 * N /\ c.p2 + c.l2 <= 2 * N
  BY <1>1, MergingTop
<1> PICK x, y, z : x = c.out + 1 /\ y = c.p1 + 1 /\ z = c.l1 - 1
  OBVIOUS
<1>5. /\ d.op = "merging" /\ d.io = c.io /\ d.n = c.n /\ d.out = x
      /\ d.p1 = y /\ d.l1 = z /\ d.p2 = c.p2 /\ d.l2 = c.l2
  BY <1>2
<1>6. x \in Nat /\ y \in Nat /\ z \in Nat
  <2>1. c.l1 > 0
    BY <1>3
  <2> QED
    BY <1>4, <2>1
<1>7. d \in MergingItems
  BY <1>4, <1>6, <1>2 DEF MergingItems
<1>8. /\ d.io = c.io /\ d.n = c.n /\ d.out = c.out + 1
      /\ d.out + d.l1 + d.l2 = d.io + d.n /\ d.p1 + d.l1 <= 2 * N /\ d.p2 + d.l2 <= 2 * N
  <2>1. x + z + c.l2 = c.io + c.n /\ y + z = c.p1 + c.l1
    BY <1>4
  <2> QED
    BY <1>4, <1>5, <2>1
<1>9. First(c) = First(d) \cup {c.p1} /\ Second(d) = Second(c) /\ c.p1 \in First(c)
  <2>1. First(d) = c.p1 + 1 .. c.p1 + c.l1 - 1
    <3>1. d.p1 = y /\ d.l1 = z /\ y + z - 1 = c.p1 + c.l1 - 1
      BY <1>4, <1>5
    <3> QED
      BY <3>1 DEF First
  <2>2. First(c) = (c.p1 + 1 .. c.p1 + c.l1 - 1) \cup {c.p1}
    BY <1>3, <1>4 DEF First
  <2> QED
    BY <1>5, <2>1, <2>2 DEF Second
<1>10. \A k \in First(c) \cup Second(c) : mem[k] \in Elems /\ Rank[mem[k]] \in Nat
  <2>1. \A j \in Own(c) : mem[j] \in Elems
    BY <1>1, MergeTop
  <2> QED
    BY <1>3, <2>1, RankType DEF Own
<1>11. Merged(mem, c)
  BY <1>1, MergingTop
<1>12. ASSUME NEW k \in First(c) \cup Second(c) PROVE Rank[mem[c.p1]] <= Rank[mem[k]]
  <2>1. CASE k \in First(c)
    <3>1. k = c.p1 \/ c.p1 < k
      <4>1. k \in c.p1 .. c.p1 + c.l1 - 1
        BY <2>1 DEF First
      <4> QED
        BY <1>4, <4>1, Longer
    <3>2. c.p1 < k => Rank[mem[c.p1]] <= Rank[mem[k]]
      BY <1>9, <1>11, <2>1 DEF Merged, Ordered, First
    <3> QED
      BY <1>9, <1>10, <3>1, <3>2
  <2>2. CASE k \in Second(c)
    <3>1. c.l2 > 0 /\ c.p2 \in Second(c) /\ (k = c.p2 \/ c.p2 < k)
      BY <1>4, <2>2 DEF Second
    <3>2. c.p2 < k => Rank[mem[c.p2]] <= Rank[mem[k]]
      BY <1>11, <2>2, <3>1 DEF Merged, Ordered, Second
    <3>3. Rank[mem[c.p1]] <= Rank[mem[c.p2]]
      BY <1>3, <1>9, <1>10, <3>1, CMFacts
    <3> QED
      BY <1>9, <1>10, <3>1, <3>2, <3>3
  <2> QED
    BY <2>1, <2>2
<1> QED
  BY <1>3, <1>7, <1>8, <1>9, <1>12, <1>1, TakeOne

LEMMA TakeSecondStep ==
  ASSUME TypeInv, MergeMode, TakeSecond
  PROVE  TypeInv' /\ MergeMode' /\ calls' # <<>>
<1> DEFINE d == [Top EXCEPT !.out = @ + 1, !.p2 = @ + 1, !.l2 = @ - 1]
<1>1. calls # <<>> /\ Top.op = "merging" /\ Continue(d)
  BY DEF TakeSecond
<1>2. d = [op |-> "merging", io |-> Top.io, n |-> Top.n, out |-> Top.out + 1, p1 |-> Top.p1,
           l1 |-> Top.l1, p2 |-> Top.p2 + 1, l2 |-> Top.l2 - 1]
  <2>1. Top \in MergingItems
    BY <1>1, MergingTop
  <2>2. [Top EXCEPT !.out = Top.out + 1, !.p2 = Top.p2 + 1, !.l2 = Top.l2 - 1]
          = [op |-> "merging", io |-> Top.io, n |-> Top.n, out |-> Top.out + 1, p1 |-> Top.p1,
           l1 |-> Top.l1, p2 |-> Top.p2 + 1, l2 |-> Top.l2 - 1]
    BY <2>1, SecondItem
  <2> QED
    BY <2>2
<1> HIDE DEF d
<1> PICK c : c = Top
  OBVIOUS
<1>3. /\ c.op = "merging" /\ c.l2 > 0
      /\ c.l1 > 0 => ~CM(mem[c.p1], mem[c.p2])
      /\ mem' = [mem EXCEPT ![c.out] = mem[c.p2]] /\ given' = given
  BY DEF TakeSecond, FirstIsNext
<1>4. /\ c \in MergingItems
      /\ c.io \in Nat /\ c.n \in Nat /\ N \in Nat /\ c.io + c.n <= 2 * N
      /\ c.out \in Nat /\ c.p1 \in Nat /\ c.l1 \in Nat /\ c.p2 \in Nat /\ c.l2 \in Nat
      /\ c.io <= c.out /\ c.out + c.l1 + c.l2 = c.io + c.n
      /\ c.p1 + c.l1 <= 2 * N /\ c.p2 + c.l2 <= 2 * N
  BY <1>1, MergingTop
<1> PICK x, y, z : x = c.out + 1 /\ y = c.p2 + 1 /\ z = c.l2 - 1
  OBVIOUS
<1>5. /\ d.op = "merging" /\ d.io = c.io /\ d.n = c.n /\ d.out = x
      /\ d.p1 = c.p1 /\ d.l1 = c.l1 /\ d.p2 = y /\ d.l2 = z
  BY <1>2
<1>6. x \in Nat /\ y \in Nat /\ z \in Nat
  <2>1. c.l2 > 0
    BY <1>3
  <2> QED
    BY <1>4, <2>1
<1>7. d \in MergingItems
  BY <1>4, <1>6, <1>2 DEF MergingItems
<1>8. /\ d.io = c.io /\ d.n = c.n /\ d.out = c.out + 1
      /\ d.out + d.l1 + d.l2 = d.io + d.n /\ d.p1 + d.l1 <= 2 * N /\ d.p2 + d.l2 <= 2 * N
  <2>1. x + c.l1 + z = c.io + c.n /\ y + z = c.p2 + c.l2
    BY <1>4
  <2> QED
    BY <1>4, <1>5, <2>1
<1>9. Second(c) = Second(d) \cup {c.p2} /\ First(d) = First(c) /\ c.p2 \in Second(c)
  <2>1. Second(d) = c.p2 + 1 .. c.p2 + c.l2 - 1
    <3>1. d.p2 = y /\ d.l2 = z /\ y + z - 1 = c.p2 + c.l2 - 1
      BY <1>4, <1>5
    <3> QED
      BY <3>1 DEF Second
  <2>2. Second(c) = (c.p2 + 1 .. c.p2 + c.l2 - 1) \cup {c.p2}
    BY <1>3, <1>4 DEF Second
  <2> QED
    BY <1>5, <2>1, <2>2 DEF First
<1>10. \A k \in First(c) \cup Second(c) : mem[k] \in Elems /\ Rank[mem[k]] \in Nat
  <2>1. \A j \in Own(c) : mem[j] \in Elems
    BY <1>1, MergeTop
  <2> QED
    BY <1>3, <2>1, RankType DEF Own
<1>11. Merged(mem, c)
  BY <1>1, MergingTop
<1>12. ASSUME NEW k \in First(c) \cup Second(c) PROVE Rank[mem[c.p2]] <= Rank[mem[k]]
  <2>1. CASE k \in Second(c)
    <3>1. k = c.p2 \/ c.p2 < k
      <4>1. k \in c.p2 .. c.p2 + c.l2 - 1
        BY <2>1 DEF Second
      <4> QED
        BY <1>4, <4>1, Longer
    <3>2. c.p2 < k => Rank[mem[c.p2]] <= Rank[mem[k]]
      BY <1>9, <1>11, <2>1 DEF Merged, Ordered, Second
    <3> QED
      BY <1>9, <1>10, <3>1, <3>2
  <2>2. CASE k \in First(c)
    <3>1. c.l1 > 0 /\ c.p1 \in First(c) /\ (k = c.p1 \/ c.p1 < k)
      BY <1>4, <2>2 DEF First
    <3>2. c.p1 < k => Rank[mem[c.p1]] <= Rank[mem[k]]
      BY <1>11, <2>2, <3>1 DEF Merged, Ordered, First
    <3>3. Rank[mem[c.p2]] <= Rank[mem[c.p1]]
      BY <1>3, <1>9, <1>10, <3>1, CMFacts
    <3> QED
      BY <1>9, <1>10, <3>1, <3>2, <3>3
  <2> QED
    BY <2>1, <2>2
<1> QED
  BY <1>3, <1>7, <1>8, <1>9, <1>12, <1>1, TakeOne

\* The running item of s has put its part in order, and t is what is left.
Popped(s, t, f) ==
  LET m == Len(s)
  IN  /\ s \in Seq(Items) /\ t \in Seq(Items) /\ m > 1 /\ Len(t) = m - 1
      /\ \A k \in 1 .. m - 1 : t[k] = s[k]
      /\ \A k \in 1 .. m : ItemOK(s[k])
      /\ MergeStack(s, f)
      /\ Keeps(s, m) = Target(s[m]) /\ Ordered(f, s[m].io, s[m].io + s[m].n - 1)

\* Where the item below still sees its first half run, or never did, nothing
\* changes.
LEMMA PoppedBelow ==
  ASSUME NEW s, NEW t, NEW f, Popped(s, t, f), NEW j \in 1 .. Len(t) - 1,
         FirstRunning(t, j) <=> FirstRunning(s, j)
  PROVE  /\ Keeps(t, j) = Keeps(s, j)
         /\ t[j].op = "merging" => Waiting(t, f, j)
<1>1. /\ s \in Seq(Items) /\ t \in Seq(Items) /\ Len(s) > 1 /\ Len(t) = Len(s) - 1
      /\ \A k \in 1 .. Len(s) - 1 : t[k] = s[k]
      /\ MergeStack(s, f)
  BY DEF Popped
<1>2. /\ Len(s) \in Nat /\ j \in Nat /\ j \in 1 .. Len(s) - 1 /\ j + 1 \in 1 .. Len(s) - 1
      /\ j # Len(s) /\ j # Len(t)
  BY <1>1
<1>3. t[j] = s[j] /\ t[j + 1] = s[j + 1]
  BY <1>1, <1>2
<1>4. Keeps(t, j) = Keeps(s, j)
  BY <1>2, <1>3 DEF Keeps
<1>5. ASSUME t[j].op = "merging" PROVE Waiting(t, f, j)
  <2>1. Waiting(s, f, j)
    BY <1>1, <1>2, <1>3, <1>5 DEF MergeStack
  <2>2. FirstRunning(t, j) => t[j + 2] = s[j + 2]
    <3> SUFFICES ASSUME FirstRunning(t, j) PROVE t[j + 2] = s[j + 2]
      OBVIOUS
    <3>1. j + 2 \in 1 .. Len(s) - 1
      BY <1>1, <1>2 DEF FirstRunning
    <3> QED
      BY <1>1, <3>1
  <2> QED
    BY <1>3, <2>1, <2>2 DEF Waiting
<1> QED
  BY <1>4, <1>5

\* The item below was the one for the second half: both are now in order.
LEMMA PoppedMerging ==
  ASSUME NEW s, NEW t, NEW f, Popped(s, t, f), NEW q, q = Len(t), s[q].op = "merging"
  PROVE  /\ MergeStack(t, f) /\ Kept(t) = Kept(s) /\ Merged(f, t[q])
<1> PICK c : c = s[q]
  OBVIOUS
<1> PICK e : e = s[q + 1]
  OBVIOUS
<1>1. /\ s \in Seq(Items) /\ t \in Seq(Items) /\ Len(s) > 1 /\ Len(t) = Len(s) - 1
      /\ \A k \in 1 .. Len(s) - 1 : t[k] = s[k]
      /\ \A k \in 1 .. Len(s) : ItemOK(s[k])
      /\ MergeStack(s, f)
      /\ Keeps(s, Len(s)) = Target(s[Len(s)])
      /\ Ordered(f, s[Len(s)].io, s[Len(s)].io + s[Len(s)].n - 1)
  BY DEF Popped
<1>2. /\ Len(s) \in Nat /\ q \in Nat /\ q > 0 /\ Len(s) = q + 1 /\ q \in 1 .. Len(s) - 1
  BY <1>1
<1>3. /\ t[q] = c /\ c \in Items /\ Keeps(s, q + 1) = Target(e)
      /\ Ordered(f, e.io, e.io + e.n - 1)
  BY <1>1, <1>2
<1>4. /\ c.io \in Nat /\ c.out \in Nat /\ c.p1 \in Nat /\ c.l1 \in Nat /\ c.p2 \in Nat /\ c.l2 \in Nat
  BY <1>3, ItemKinds DEF MergingItems
<1>5. ~FirstRunning(s, q)
  BY <1>2 DEF FirstRunning
<1>6. /\ c.out = c.io /\ c.p2 = c.p1 + c.l1 /\ e.io = c.p2 /\ e.n = c.l2
      /\ Ordered(f, c.p1, c.p1 + c.l1 - 1)
  <2>1. Waiting(s, f, q)
    BY <1>1, <1>2 DEF MergeStack
  <2> QED
    BY <1>5, <2>1 DEF Waiting
<1>7. \A j \in 1 .. q - 1 : FirstRunning(t, j) <=> FirstRunning(s, j)
  <2> SUFFICES ASSUME NEW j \in 1 .. q - 1 PROVE FirstRunning(t, j) <=> FirstRunning(s, j)
    OBVIOUS
  <2>1. t[j + 1] = s[j + 1]
    BY <1>1, <1>2
  <2>2. CASE j + 1 = q
    BY <2>1, <2>2 DEF FirstRunning
  <2>3. CASE j + 1 < q
    BY <1>2, <2>1, <2>3 DEF FirstRunning
  <2> QED
    BY <1>2, <2>2, <2>3
<1>8. \A j \in 1 .. q - 1 : /\ Keeps(t, j) = Keeps(s, j)
                            /\ t[j].op = "merging" => Waiting(t, f, j)
  BY <1>7, PoppedBelow
<1>9. MergeStack(t, f)
  <2>1. \A k \in 1 .. q : t[k].op \in {"merge", "merging"}
    <3>1. \A k \in 1 .. q : k \in 1 .. Len(s) /\ k # Len(s) /\ t[k] = s[k]
      BY <1>1, <1>2
    <3> QED
      BY <1>1, <3>1 DEF MergeStack
  <2>2. \A j \in 1 .. q - 1 : t[j].op = "merge" => j > 1 /\ t[j - 1].op = "merging"
    <3> SUFFICES ASSUME NEW j \in 1 .. q - 1, t[j].op = "merge"
                 PROVE  j > 1 /\ t[j - 1].op = "merging"
      OBVIOUS
    <3>1. j \in 1 .. Len(s) - 1 /\ t[j] = s[j]
      BY <1>1, <1>2
    <3>2. j > 1 /\ s[j - 1].op = "merging"
      BY <1>1, <3>1 DEF MergeStack
    <3>3. j - 1 \in 1 .. Len(s) - 1
      BY <3>1, <3>2
    <3> QED
      BY <1>1, <3>2, <3>3
  <2>3. ASSUME NEW j \in 1 .. q, NEW k \in 1 .. q, j < k
        PROVE  Writes(t[k]) \cap Keeps(t, j) = {}
    <3>1. /\ j \in 1 .. q - 1 /\ j \in 1 .. Len(s) /\ k \in 1 .. Len(s) /\ t[k] = s[k]
      BY <1>1, <1>2, <2>3
    <3> QED
      BY <1>1, <1>8, <2>3, <3>1 DEF MergeStack
  <2> QED
    BY <1>8, <2>1, <2>2, <2>3 DEF MergeStack
<1>10. Keeps(t, q) = Keeps(s, q) \cup Keeps(s, q + 1)
  <2>1. Keeps(s, q) = First(c)
    BY <1>2, <1>5 DEF Keeps
  <2>2. Target(e) = Second(c)
    BY <1>6 DEF Target, Second
  <2>3. c.io .. c.out - 1 = {}
    BY <1>4, <1>6
  <2> QED
    BY <1>3, <2>1, <2>2, <2>3 DEF Keeps
<1>11. Kept(t) = Kept(s)
  <2>1. /\ \A j : j \in 1 .. q <=> j \in 1 .. q - 1 \/ j = q
        /\ \A j : j \in 1 .. Len(s) <=> j \in 1 .. q - 1 \/ j = q \/ j = q + 1
    BY <1>2
  <2> QED
    BY <1>8, <1>10, <2>1 DEF Kept
<1>12. Merged(f, t[q])
  <2>1. c.io .. c.out - 1 = {}
    BY <1>4, <1>6
  <2> QED
    BY <1>3, <1>6, <2>1 DEF Merged, Ordered
<1> QED
  BY <1>9, <1>11, <1>12

\* The item below is the call for the second half, which is now up.
\* The second half is copied to where the result of the merge will go.
LEMMA ScratchWithin ==
  ASSUME NEW b, NEW c, b.io \in Nat, b.n \in Nat, b.l1 \in Nat, b.l2 \in Nat,
         b.io + b.l1 + b.l2 = b.io + b.n, c.sc = b.io, c.n = b.l2
  PROVE  Scratch(c) \subseteq Target(b)
<1>1. b.l2 <= b.n
  OBVIOUS
<1> QED
  BY <1>1 DEF Scratch, Target

LEMMA PoppedMerge ==
  ASSUME NEW s, NEW t, NEW f, Popped(s, t, f), NEW q, q = Len(t), s[q].op = "merge"
  PROVE  MergeStack(t, f) /\ Kept(t) = Kept(s)
<1> PICK r : r = q - 1
  OBVIOUS
<1> PICK b : b = s[r]
  OBVIOUS
<1> PICK c : c = s[q]
  OBVIOUS
<1> PICK e : e = s[q + 1]
  OBVIOUS
<1>1. /\ s \in Seq(Items) /\ t \in Seq(Items) /\ Len(s) > 1 /\ Len(t) = Len(s) - 1
      /\ \A k \in 1 .. Len(s) - 1 : t[k] = s[k]
      /\ \A k \in 1 .. Len(s) : ItemOK(s[k])
      /\ MergeStack(s, f)
      /\ Keeps(s, Len(s)) = Target(s[Len(s)])
      /\ Ordered(f, s[Len(s)].io, s[Len(s)].io + s[Len(s)].n - 1)
  BY DEF Popped
<1>2. /\ Len(s) \in Nat /\ q \in Nat /\ q > 0 /\ Len(s) = q + 1 /\ q \in 1 .. Len(s) - 1
  BY <1>1
<1>3. q > 1 /\ b.op = "merging"
  BY <1>1, <1>2 DEF MergeStack
<1>4. /\ r \in Nat /\ r > 0 /\ q = r + 1 /\ r \in 1 .. Len(s) - 1
      /\ r \in 1 .. Len(s) /\ q \in 1 .. Len(s)
  BY <1>2, <1>3
<1>5. /\ t[q] = c /\ t[r] = b /\ b \in Items /\ c \in Items /\ ItemOK(b) /\ ItemOK(c)
      /\ Keeps(s, q + 1) = Target(e) /\ Ordered(f, e.io, e.io + e.n - 1)
  BY <1>1, <1>2, <1>4
<1>6. /\ b.io \in Nat /\ b.out \in Nat /\ b.n \in Nat
      /\ b.p1 \in Nat /\ b.l1 \in Nat /\ b.p2 \in Nat /\ b.l2 \in Nat
      /\ b.io <= b.out /\ b.out + b.l1 + b.l2 = b.io + b.n
      /\ Target(b) \cap (First(b) \cup Second(b)) = {}
      /\ c.io \in Nat /\ c.sc \in Nat /\ c.n \in Nat
  BY <1>3, <1>5, ItemKinds DEF MergingItems, MergeItems, ItemOK
<1>7. FirstRunning(s, r) /\ ~FirstRunning(t, r)
  BY <1>1, <1>2, <1>4 DEF FirstRunning
<1>8. /\ b.out = b.io /\ b.p2 = b.p1 + b.l1 /\ c.io = b.p2 /\ c.n = b.l2 /\ c.sc = b.io
      /\ e.io = b.p1 /\ e.n = b.l1
  <2>1. Waiting(s, f, r)
    BY <1>1, <1>3, <1>4 DEF MergeStack
  <2>2. s[r + 1] = c /\ s[r + 2] = e
    <3>1. r + 1 = q /\ r + 2 = q + 1
      BY <1>4
    <3> QED
      BY <3>1
  <2> QED
    BY <1>7, <2>1, <2>2 DEF Waiting
<1>9. \A j \in 1 .. r - 1 : FirstRunning(t, j) <=> FirstRunning(s, j)
  <2> SUFFICES ASSUME NEW j \in 1 .. r - 1 PROVE FirstRunning(t, j) <=> FirstRunning(s, j)
    OBVIOUS
  <2>1. t[j + 1] = s[j + 1]
    BY <1>1, <1>2, <1>4
  <2>2. j + 1 < Len(t) /\ j + 1 < Len(s)
    BY <1>2, <1>4
  <2> QED
    BY <2>1, <2>2 DEF FirstRunning
<1>10. \A j \in 1 .. r - 1 : /\ Keeps(t, j) = Keeps(s, j)
                             /\ t[j].op = "merging" => Waiting(t, f, j)
  <2>1. \A j \in 1 .. r - 1 : j \in 1 .. Len(t) - 1
    BY <1>2, <1>4
  <2> QED
    BY <1>9, <2>1, PoppedBelow
<1>11. Target(e) = First(b) /\ Target(c) = Second(b) /\ Scratch(c) \subseteq Target(b)
  <2>1. Target(e) = First(b) /\ Target(c) = Second(b)
    BY <1>8 DEF Target, First, Second
  <2>2. /\ b.io \in Nat /\ b.n \in Nat /\ b.l1 \in Nat /\ b.l2 \in Nat
        /\ b.io + b.l1 + b.l2 = b.io + b.n /\ c.sc = b.io /\ c.n = b.l2
    BY <1>6, <1>8
  <2>3. Scratch(c) \subseteq Target(b)
    BY <2>2, ScratchWithin
  <2> QED
    BY <2>1, <2>3
<1>12. Keeps(t, r) = First(b) /\ Keeps(s, r) = {} /\ Keeps(t, q) = Keeps(s, q)
  <2>1. r # Len(t) /\ r # Len(s)
    BY <1>2, <1>4
  <2> QED
    BY <1>3, <1>5, <1>7, <2>1 DEF Keeps
<1>13. Waiting(t, f, r)
  <2>1. t[r + 1] = c
    BY <1>4, <1>5
  <2>2. Ordered(f, b.p1, b.p1 + b.l1 - 1)
    BY <1>5, <1>8
  <2> QED
    BY <1>5, <1>7, <1>8, <2>1, <2>2 DEF Waiting
<1>14. Writes(c) \cap First(b) = {}
  <2>1. First(b) \cap Second(b) = {}
    <3>1. b.p2 = b.p1 + b.l1 /\ b.p1 \in Nat /\ b.l1 \in Nat /\ b.l2 \in Nat
      BY <1>6, <1>8
    <3>2. \A x : x \in First(b) => x \in Int /\ x < b.p2
      BY <3>1 DEF First
    <3>3. \A x : x \in Second(b) => x \in Int /\ ~(x < b.p2)
      BY <3>1 DEF Second
    <3> QED
      BY <3>2, <3>3
  <2> QED
    BY <1>6, <1>11, <2>1 DEF Writes
<1>15. MergeStack(t, f)
  <2>1. \A k \in 1 .. q : t[k].op \in {"merge", "merging"}
    <3>1. \A k \in 1 .. q : k \in 1 .. Len(s) /\ k # Len(s) /\ t[k] = s[k]
      BY <1>1, <1>2
    <3> QED
      BY <1>1, <3>1 DEF MergeStack
  <2>2. \A j \in 1 .. q - 1 : t[j].op = "merge" => j > 1 /\ t[j - 1].op = "merging"
    <3> SUFFICES ASSUME NEW j \in 1 .. q - 1, t[j].op = "merge"
                 PROVE  j > 1 /\ t[j - 1].op = "merging"
      OBVIOUS
    <3>1. j \in 1 .. Len(s) - 1 /\ t[j] = s[j]
      BY <1>1, <1>2
    <3>2. j > 1 /\ s[j - 1].op = "merging"
      BY <1>1, <3>1 DEF MergeStack
    <3>3. j - 1 \in 1 .. Len(s) - 1
      BY <3>1, <3>2
    <3> QED
      BY <1>1, <3>2, <3>3
  <2>3. \A j \in 1 .. q - 1 : t[j].op = "merging" => Waiting(t, f, j)
    <3>1. \A j \in 1 .. q - 1 : j = r \/ j \in 1 .. r - 1
      BY <1>4
    <3> QED
      BY <1>10, <1>13, <3>1
  <2>4. ASSUME NEW j \in 1 .. q, NEW k \in 1 .. q, j < k
        PROVE  Writes(t[k]) \cap Keeps(t, j) = {}
    <3>1. /\ j \in 1 .. Len(s) /\ k \in 1 .. Len(s) /\ t[k] = s[k]
          /\ j \in 1 .. r - 1 \/ (j = r /\ k = q)
      BY <1>1, <1>2, <1>4, <2>4
    <3>2. CASE j \in 1 .. r - 1
      BY <1>1, <1>10, <2>4, <3>1, <3>2 DEF MergeStack
    <3>3. CASE j = r /\ k = q
      BY <1>5, <1>12, <1>14, <3>3
    <3> QED
      BY <3>1, <3>2, <3>3
  <2> QED
    BY <2>1, <2>2, <2>3, <2>4 DEF MergeStack
<1>16. Kept(t) = Kept(s)
  <2>1. /\ \A j : j \in 1 .. q <=> j \in 1 .. r - 1 \/ j = r \/ j = q
        /\ \A j : j \in 1 .. Len(s) <=> j \in 1 .. r - 1 \/ j = r \/ j = q \/ j = q + 1
    BY <1>2, <1>4
  <2>2. Keeps(t, r) = Keeps(s, r) \cup Keeps(s, q + 1)
    BY <1>5, <1>11, <1>12
  <2> QED
    BY <1>10, <1>12, <2>1, <2>2 DEF Kept
<1> QED
  BY <1>15, <1>16

\* A part has been put in order, and the item below takes it up.
LEMMA MergeReturns ==
  ASSUME TypeInv, MergeMode, calls # <<>>, Return, mem' = mem, given' = given,
         Own(Top) = Target(Top), Ordered(mem, Top.io, Top.io + Top.n - 1)
  PROVE  /\ TypeInv'
         /\ calls' = <<>> => ReturnInv'
         /\ calls' # <<>> => MergeMode'
<1> DEFINE m == Len(calls)
<1>1. /\ m \in Nat \ {0} /\ calls \in Seq(Items) /\ Top = calls[m] /\ m = Depth
      /\ DOMAIN calls = 1 .. m
  BY TopFacts DEF TypeInv, Depth
<1>2. Keeps(calls, m) = Target(Top)
  BY <1>1, OwnTop
<1> HIDE DEF m
<1>3. CASE m = 1
  <2>1. TypeInv' /\ calls' = <<>>
    BY <1>1, <1>3, LastReturns
  <2>2. Top.io = 0 /\ Top.n = N
    BY <1>1, <1>3 DEF MergeMode
  <2>3. Target(Top) = 0 .. N - 1
    BY <2>2, GivenType DEF Target
  <2>4. Kept(calls) = 0 .. N - 1
    <3>1. UNION {Keeps(calls, j) : j \in 1 .. 1} = Keeps(calls, 1)
      <4>1. 1 .. 1 = {1}
        OBVIOUS
      <4> QED
        BY <4>1
    <3> QED
      BY <1>2, <1>3, <2>3, <3>1 DEF Kept, m
  <2>5. Values(mem, 0 .. N - 1) = Given
    BY <2>4 DEF MergeMode
  <2>6. Ordered(mem, 0, N - 1)
    BY <2>2, GivenType
  <2>7. N' = N /\ Given' = Given
    BY SameSize
  <2>8. (Held(0 .. N - 1) = Given)' /\ Sorted(0, N - 1)'
    BY <2>5, <2>6, <2>7 DEF Held, Values, Sorted, Ordered
  <2> QED
    BY <2>1, <2>8 DEF ReturnInv
<1>4. CASE m # 1
  <2>1. m - 1 \in Nat \ {0} /\ m > 1
    BY <1>1, <1>4
  <2>2. calls' = Front(calls) \o <<>> /\ <<>> \in Seq(Items) /\ Len(<<>>) = 0
    BY DEF Return, Replace
  <2>3. /\ calls' \in Seq(Items) /\ Len(calls') = m - 1
        /\ \A k \in 1 .. m - 1 : calls'[k] = calls[k]
    BY <1>1, <2>1, <2>2, ReplaceFacts DEF m
  <2>4. DOMAIN calls' = 1 .. m - 1 /\ calls' # <<>> /\ Top' = calls'[m - 1]
    <3>1. DOMAIN calls' = 1 .. m - 1 /\ Len(calls') # 0
      BY <2>1, <2>3
    <3>2. calls' # <<>>
      BY <2>2, <3>1
    <3>3. Top' = calls'[Len(calls')]
      BY DEF Top, Last
    <3> QED
      BY <2>3, <3>1, <3>2, <3>3
  <2>5. (\A k \in DOMAIN calls : ItemOK(calls[k]))'
    <3> SUFFICES ASSUME NEW k \in DOMAIN calls' PROVE ItemOK(calls[k])'
      OBVIOUS
    <3> DEFINE c == calls'[k]
    <3>1. k \in 1 .. m - 1 /\ k \in DOMAIN calls
      BY <1>1, <2>1, <2>4
    <3>2. ItemOK(c)
      BY <2>3, <3>1 DEF TypeInv
    <3>3. N' = N
      BY SameSize
    <3> QED
      BY <3>2, <3>3 DEF ItemOK
  <2>6. TypeInv'
    BY <2>3, <2>5, SameSize DEF TypeInv
  <2>7. Popped(calls, calls', mem)
    <3>1. \A k \in 1 .. m : ItemOK(calls[k])
      BY <1>1 DEF TypeInv
    <3>2. MergeStack(calls, mem)
      BY DEF MergeMode
    <3>3. Keeps(calls, m) = Target(calls[m]) /\ Ordered(mem, calls[m].io, calls[m].io + calls[m].n - 1)
      BY <1>1, <1>2
    <3> QED
      BY <1>1, <2>1, <2>3, <3>1, <3>2, <3>3 DEF Popped, m
  <2> PICK q : q = m - 1
    OBVIOUS
  <2>8. q = Len(calls') /\ calls'[q] = calls[q] /\ calls[q].op \in {"merge", "merging"}
    <3>1. q \in 1 .. m - 1 /\ q \in 1 .. m /\ q # m
      BY <1>1, <2>1
    <3>2. calls[q].op \in {"merge", "merging"}
      BY <3>1 DEF MergeMode, MergeStack, m
    <3> QED
      BY <2>3, <3>1, <3>2
  <2>9. /\ MergeStack(calls', mem) /\ Kept(calls') = Kept(calls)
        /\ calls[q].op = "merging" => Merged(mem, calls'[q])
    <3>1. CASE calls[q].op = "merging"
      BY <2>7, <2>8, <3>1, PoppedMerging
    <3>2. CASE calls[q].op = "merge"
      BY <2>7, <2>8, <3>2, PoppedMerge
    <3> QED
      BY <2>8, <3>1, <3>2
  <2>10. calls'[1].io = 0 /\ calls'[1].n = N'
    <3>1. 1 \in 1 .. m - 1
      BY <1>1, <2>1
    <3>2. calls'[1] = calls[1]
      BY <2>3, <3>1
    <3> QED
      BY <3>2, SameSize DEF MergeMode
  <2>11. Values(mem', Kept(calls')) = Given'
    BY <2>9, SameSize DEF MergeMode
  <2>12. Top' = calls[q] /\ Top' = calls'[q]
    BY <2>4, <2>8
  <2>13. MergeMode'
    BY <2>8, <2>9, <2>10, <2>11, <2>12 DEF MergeMode
  <2> QED
    BY <2>4, <2>6, <2>13
<1> QED
  BY <1>3, <1>4

LEMMA MergeInsertDone ==
  ASSUME TypeInv, MergeMode, InsertDone
  PROVE  /\ TypeInv'
         /\ calls' = <<>> => ReturnInv'
         /\ calls' # <<>> => MergeMode'
<1>1. /\ calls # <<>> /\ Top.op = "insertion" /\ Top.i >= Top.n
      /\ Return /\ mem' = mem /\ given' = given
  BY DEF InsertDone
<1>2. Top.i = Top.n
  <2>1. Top \in InsertionItems /\ Top.i \in 1 .. Top.n
    BY <1>1, MergeTop, ItemKinds DEF ItemOK
  <2> QED
    BY <1>1, <2>1 DEF InsertionItems
<1>3. Own(Top) = Target(Top) /\ Ordered(mem, Top.io, Top.io + Top.n - 1)
  BY <1>1, <1>2 DEF Own, MergeMode
<1> QED
  BY <1>1, <1>3, MergeReturns

LEMMA MergeDoneStep ==
  ASSUME TypeInv, MergeMode, MergeDone
  PROVE  /\ TypeInv'
         /\ calls' = <<>> => ReturnInv'
         /\ calls' # <<>> => MergeMode'
<1>1. /\ calls # <<>> /\ Top.op = "merging" /\ Top.l1 = 0 /\ Top.l2 = 0
      /\ Return /\ mem' = mem /\ given' = given
  BY DEF MergeDone
<1>2. /\ Top.io \in Nat /\ Top.n \in Nat /\ Top.out \in Nat
      /\ Top.p1 \in Nat /\ Top.p2 \in Nat /\ Top.out + Top.l1 + Top.l2 = Top.io + Top.n
      /\ Merged(mem, Top)
  BY <1>1, MergingTop
<1>3. Top.out = Top.io + Top.n
  BY <1>1, <1>2
<1>4. First(Top) = {} /\ Second(Top) = {}
  BY <1>1, <1>2 DEF First, Second
<1>5. Own(Top) = Target(Top)
  <2> PICK A : A = Top.io .. Top.out - 1
    OBVIOUS
  <2>1. Own(Top) = A \cup First(Top) \cup Second(Top)
    BY <1>1 DEF Own
  <2>2. Own(Top) = A
    BY <1>4, <2>1
  <2>3. Top.out - 1 = Top.io + Top.n - 1
    BY <1>2, <1>3
  <2> QED
    BY <2>2, <2>3 DEF Target
<1>6. Ordered(mem, Top.io, Top.io + Top.n - 1)
  <2>1. Top.out - 1 = Top.io + Top.n - 1
    BY <1>2, <1>3
  <2> QED
    BY <1>2, <2>1 DEF Merged
<1> QED
  BY <1>1, <1>5, <1>6, MergeReturns

LEMMA TwoHalves ==
  ASSUME NEW n \in Nat, n >= 4
  PROVE  /\ n \div 2 \in Nat /\ n \div 2 >= 2
         /\ n - n \div 2 \in Nat /\ n - n \div 2 >= 2
         /\ n \div 2 + (n - n \div 2) = n
OBVIOUS

LEMMA CopyFits ==
  ASSUME NEW a \in Nat, NEW b \in Nat, NEW n \in Nat, NEW w \in Nat,
         a + n <= 2 * w, b + n <= 2 * w
  PROVE  /\ \A k \in b .. b + n - 1 : k \in 0 .. 2 * w - 1 /\ a + k - b \in 0 .. 2 * w - 1
         /\ \A k \in 0 .. 2 * w - 1 : b <= k /\ k < b + n <=> k \in b .. b + n - 1
OBVIOUS

\* What f holds from a on, g holds from b on.
Copies(f, g, a, b, n) == \A k \in b .. b + n - 1 : g[k] = f[a + k - b]

LEMMA Copied ==
  ASSUME NEW f, NEW g, NEW a \in Nat, NEW b \in Nat, NEW n \in Nat, Copies(f, g, a, b, n)
  PROVE  Values(g, b .. b + n - 1) = Values(f, a .. a + n - 1)
<1>1. ASSUME NEW k \in b .. b + n - 1
      PROVE  \E j \in a .. a + n - 1 : g[k] = f[j]
  <2>1. a + k - b \in a .. a + n - 1
    OBVIOUS
  <2> QED
    BY <2>1 DEF Copies
<1>2. ASSUME NEW j \in a .. a + n - 1
      PROVE  \E k \in b .. b + n - 1 : g[k] = f[j]
  <2>1. b + (j - a) \in b .. b + n - 1 /\ a + (b + (j - a)) - b = j
    OBVIOUS
  <2> QED
    BY <2>1 DEF Copies
<1> QED
  BY <1>1, <1>2 DEF Values

\* The places of two halves of a part b .. b + n - 1, with a part a .. a + n - 1
\* that lies elsewhere.
LEMMA HalvesApart ==
  ASSUME NEW a \in Nat, NEW b \in Nat, NEW n \in Nat, NEW l1 \in Nat, NEW l2 \in Nat,
         l1 + l2 = n, a + n <= b \/ b + n <= a
  PROVE  /\ b .. b + l1 - 1 \subseteq b .. b + n - 1
         /\ b + l1 .. b + l1 + l2 - 1 \subseteq b .. b + n - 1
         /\ b .. b + n - 1 = (b .. b + l1 - 1) \cup (b + l1 .. b + l1 + l2 - 1)
         /\ (b .. b + l1 - 1) \cap (b + l1 .. b + l1 + l2 - 1) = {}
         /\ (a .. a + n - 1) \cap (b .. b + n - 1) = {}
         /\ a .. a + l1 - 1 \subseteq a .. a + n - 1
         /\ a .. a + l2 - 1 \subseteq a .. a + n - 1
         /\ a + l2 <= b + l1 \/ b + l1 + l2 <= a
         /\ a + l1 <= b \/ b + l1 <= a
<1>1. /\ \A x : x \in b .. b + n - 1 <=> x \in Int /\ b <= x /\ x < b + n
      /\ \A x : x \in a .. a + n - 1 <=> x \in Int /\ a <= x /\ x < a + n
      /\ \A x : x \in b .. b + l1 - 1 <=> x \in Int /\ b <= x /\ x < b + l1
      /\ \A x : x \in b + l1 .. b + l1 + l2 - 1 <=> x \in Int /\ b + l1 <= x /\ x < b + n
      /\ \A x : x \in a .. a + l1 - 1 <=> x \in Int /\ a <= x /\ x < a + l1
      /\ \A x : x \in a .. a + l2 - 1 <=> x \in Int /\ a <= x /\ x < a + l2
  OBVIOUS
<1>2. /\ b .. b + l1 - 1 \subseteq b .. b + n - 1
      /\ b + l1 .. b + l1 + l2 - 1 \subseteq b .. b + n - 1
      /\ a .. a + l1 - 1 \subseteq a .. a + n - 1
      /\ a .. a + l2 - 1 \subseteq a .. a + n - 1
  BY <1>1
<1>3. b .. b + n - 1 = (b .. b + l1 - 1) \cup (b + l1 .. b + l1 + l2 - 1)
  <2>1. \A x : x \in b .. b + n - 1
                 <=> x \in b .. b + l1 - 1 \/ x \in b + l1 .. b + l1 + l2 - 1
    BY <1>1
  <2> QED
    BY <2>1
<1>4. (b .. b + l1 - 1) \cap (b + l1 .. b + l1 + l2 - 1) = {}
  <2>1. \A x : ~(x \in b .. b + l1 - 1 /\ x \in b + l1 .. b + l1 + l2 - 1)
    BY <1>1
  <2> QED
    BY <2>1
<1>5. (a .. a + n - 1) \cap (b .. b + n - 1) = {}
  <2>1. \A x : ~(x \in a .. a + n - 1 /\ x \in b .. b + n - 1)
    BY <1>1
  <2> QED
    BY <2>1
<1> QED
  BY <1>2, <1>3, <1>4, <1>5

\* What a call pushes that splits the part a .. a + n - 1, with scratch space b:
\* what will merge the halves, and the calls for them.
Splits(items, a, b, n, l1, l2) ==
  /\ items \in Seq(Items) /\ Len(items) = 3
  /\ items[1].op = "merging" /\ items[1].io = a /\ items[1].n = n /\ items[1].out = a
  /\ items[1].p1 = b /\ items[1].l1 = l1 /\ items[1].p2 = b + l1 /\ items[1].l2 = l2
  /\ items[2].op = "merge" /\ items[2].io = b + l1 /\ items[2].sc = a /\ items[2].n = l2
  /\ items[3].op = "merge" /\ items[3].io = b /\ items[3].sc = a /\ items[3].n = l1

LEMMA SplitItems ==
  ASSUME NEW a \in Nat, NEW b \in Nat, NEW n \in Nat, NEW l1 \in Nat, NEW l2 \in Nat,
         NEW items,
         items = <<[op |-> "merging", io |-> a, n |-> n, out |-> a, p1 |-> b, l1 |-> l1,
                    p2 |-> b + l1, l2 |-> l2],
                   Merge(b + l1, a, l2), Merge(b, a, l1)>>
  PROVE  Splits(items, a, b, n, l1, l2)
<1> PICK x : x = [op |-> "merging", io |-> a, n |-> n, out |-> a, p1 |-> b, l1 |-> l1,
                  p2 |-> b + l1, l2 |-> l2]
  OBVIOUS
<1> PICK y, z : y = Merge(b + l1, a, l2) /\ z = Merge(b, a, l1)
  OBVIOUS
<1>1. x \in Items
  BY DEF Items, MergingItems
<1>2. y \in Items /\ z \in Items
  BY DEF Items, MergeItems, Merge
<1>3. /\ x.op = "merging" /\ x.io = a /\ x.n = n /\ x.out = a
      /\ x.p1 = b /\ x.l1 = l1 /\ x.p2 = b + l1 /\ x.l2 = l2
  OBVIOUS
<1>4. /\ y.op = "merge" /\ y.io = b + l1 /\ y.sc = a /\ y.n = l2
      /\ z.op = "merge" /\ z.io = b /\ z.sc = a /\ z.n = l1
  BY DEF Merge
<1>5. items = <<x, y, z>>
  OBVIOUS
<1>6. items \in Seq(Items) /\ Len(items) = 3 /\ items[1] = x /\ items[2] = y /\ items[3] = z
  BY <1>1, <1>2, <1>5
<1> QED
  BY <1>3, <1>4, <1>6 DEF Splits

\* The three of them fit in the memory where the call did.
LEMMA SplitFits ==
  ASSUME NEW a \in Nat, NEW b \in Nat, NEW n \in Nat, NEW l1 \in Nat, NEW l2 \in Nat,
         NEW items, Splits(items, a, b, n, l1, l2), l1 + l2 = n, l1 >= 2, l2 >= 2,
         a + n <= b \/ b + n <= a, N \in Nat, a + n <= 2 * N, b + n <= 2 * N
  PROVE  \A k \in DOMAIN items : ItemOK(items[k])
<1>1. items \in Seq(Items) /\ DOMAIN items = {1, 2, 3}
  <2>1. items \in Seq(Items) /\ DOMAIN items = 1 .. 3
    BY DEF Splits
  <2> QED
    BY <2>1
<1> PICK x, y, z : x = items[1] /\ y = items[2] /\ z = items[3]
  OBVIOUS
<1>2. /\ x.op = "merging" /\ x.io = a /\ x.n = n /\ x.out = a
      /\ x.p1 = b /\ x.l1 = l1 /\ x.p2 = b + l1 /\ x.l2 = l2
      /\ y.op = "merge" /\ y.io = b + l1 /\ y.sc = a /\ y.n = l2
      /\ z.op = "merge" /\ z.io = b /\ z.sc = a /\ z.n = l1
  BY DEF Splits
<1>3. /\ a + l2 <= b + l1 \/ b + l1 + l2 <= a
      /\ a + l1 <= b \/ b + l1 <= a
      /\ b .. b + l1 - 1 \subseteq b .. b + n - 1
      /\ b + l1 .. b + l1 + l2 - 1 \subseteq b .. b + n - 1
      /\ (a .. a + n - 1) \cap (b .. b + n - 1) = {}
  BY HalvesApart
<1>4. ItemOK(x)
  <2>1. Target(x) \cap (First(x) \cup Second(x)) = {}
    <3>1. Target(x) = a .. a + n - 1 /\ First(x) = b .. b + l1 - 1
          /\ Second(x) = b + l1 .. b + l1 + l2 - 1
      BY <1>2 DEF Target, First, Second
    <3> QED
      BY <1>3, <3>1
  <2>2. /\ a <= a /\ a + l1 + l2 = a + n /\ b + l1 <= 2 * N /\ b + l1 + l2 <= 2 * N
    OBVIOUS
  <2> QED
    BY <1>2, <2>1, <2>2 DEF ItemOK
<1>5. ItemOK(y)
  <2>1. b + l1 + l2 <= 2 * N /\ a + l2 <= 2 * N
    OBVIOUS
  <2> QED
    BY <1>2, <1>3, <2>1 DEF ItemOK
<1>6. ItemOK(z)
  <2>1. b + l1 <= 2 * N /\ a + l1 <= 2 * N
    OBVIOUS
  <2> QED
    BY <1>2, <1>3, <2>1 DEF ItemOK
<1> QED
  BY <1>1, <1>4, <1>5, <1>6

\* The three of them take the place of the call: s is the stack, m its length.
SplitTop(s, t, items, a, b, n) ==
  LET m == Len(s)
  IN  /\ s \in Seq(Items) /\ t \in Seq(Items) /\ m > 0
      /\ s[m].op = "merge" /\ s[m].io = a /\ s[m].sc = b /\ s[m].n = n
      /\ Len(t) = m + 2 /\ \A k \in 1 .. m - 1 : t[k] = s[k]
      /\ t[m] = items[1] /\ t[m + 1] = items[2] /\ t[m + 2] = items[3]

\* What the items below the running one answer for.
Untouched(s, f, g) == \A j \in 1 .. Len(s) - 1 : \A x \in Keeps(s, j) : g[x] = f[x]

LEMMA SplitReplaces ==
  ASSUME NEW a \in Nat, NEW b \in Nat, NEW n \in Nat, NEW l1 \in Nat, NEW l2 \in Nat,
         NEW items, Splits(items, a, b, n, l1, l2), l1 + l2 = n,
         a + n <= b \/ b + n <= a,
         NEW s, NEW t, SplitTop(s, t, items, a, b, n),
         NEW f, NEW g, MergeStack(s, f), Untouched(s, f, g), Copies(f, g, a, b, n)
  PROVE  Replaces(s, t, f, g)
<1> DEFINE m == Len(s)
<1>1. /\ s \in Seq(Items) /\ t \in Seq(Items) /\ m \in Nat \ {0}
      /\ s[m].op = "merge" /\ s[m].io = a /\ s[m].sc = b /\ s[m].n = n
      /\ Len(t) = m + 2 /\ \A k \in 1 .. m - 1 : t[k] = s[k]
      /\ t[m] = items[1] /\ t[m + 1] = items[2] /\ t[m + 2] = items[3]
  BY DEF SplitTop
<1> HIDE DEF m
<1> PICK x, y, z : x = items[1] /\ y = items[2] /\ z = items[3]
  OBVIOUS
<1>2. /\ x.op = "merging" /\ x.io = a /\ x.n = n /\ x.out = a
      /\ x.p1 = b /\ x.l1 = l1 /\ x.p2 = b + l1 /\ x.l2 = l2
      /\ y.op = "merge" /\ y.io = b + l1 /\ y.sc = a /\ y.n = l2
      /\ z.op = "merge" /\ z.io = b /\ z.sc = a /\ z.n = l1
  BY DEF Splits
<1>3. /\ b .. b + l1 - 1 \subseteq b .. b + n - 1
      /\ b + l1 .. b + l1 + l2 - 1 \subseteq b .. b + n - 1
      /\ b .. b + n - 1 = (b .. b + l1 - 1) \cup (b + l1 .. b + l1 + l2 - 1)
      /\ (b .. b + l1 - 1) \cap (b + l1 .. b + l1 + l2 - 1) = {}
      /\ (a .. a + n - 1) \cap (b .. b + n - 1) = {}
      /\ a .. a + l1 - 1 \subseteq a .. a + n - 1
      /\ a .. a + l2 - 1 \subseteq a .. a + n - 1
  BY HalvesApart
<1>4. t[m] = x /\ t[m + 1] = y /\ t[m + 2] = z
  BY <1>1
<1>5. /\ \A k \in m .. Len(t) : k = m \/ k = m + 1 \/ k = m + 2
      /\ m \in m .. Len(t) /\ m + 1 \in m .. Len(t) /\ m + 2 \in m .. Len(t)
      /\ \A k \in m .. Len(t) - 1 : k = m \/ k = m + 1
  BY <1>1
<1>6. /\ Writes(x) = a .. a + n - 1
      /\ Writes(y) = (b + l1 .. b + l1 + l2 - 1) \cup (a .. a + l2 - 1)
      /\ Writes(z) = (b .. b + l1 - 1) \cup (a .. a + l1 - 1)
      /\ Writes(s[m]) = (a .. a + n - 1) \cup (b .. b + n - 1)
      /\ Target(y) = b + l1 .. b + l1 + l2 - 1 /\ Target(z) = b .. b + l1 - 1
      /\ Target(s[m]) = a .. a + n - 1
  BY <1>1, <1>2 DEF Writes, Target, Scratch
<1>7. FirstRunning(t, m)
  BY <1>1, <1>2, <1>4 DEF FirstRunning
<1>8. Keeps(t, m) = {} /\ Keeps(t, m + 1) = Target(y) /\ Keeps(t, m + 2) = Target(z)
      /\ Keeps(s, m) = Target(s[m])
  <2>1. m # Len(t) /\ m + 1 # m /\ m + 2 = Len(t) /\ s[m].op # "merging"
    BY <1>1
  <2> QED
    BY <1>2, <1>4, <1>7, <2>1 DEF Keeps
<1>9. Waiting(t, g, m)
  BY <1>2, <1>4, <1>7 DEF Waiting
<1>10. \A k \in m .. Len(t) : Writes(t[k]) \subseteq Writes(s[m])
  <2>1. /\ Writes(x) \subseteq Writes(s[m])
        /\ Writes(y) \subseteq Writes(s[m])
        /\ Writes(z) \subseteq Writes(s[m])
    BY <1>3, <1>6
  <2> QED
    BY <1>4, <1>5, <2>1
<1>11. \A k \in m .. Len(t) :
         t[k].op \in {"merge", "merging"} \/ (k = Len(t) /\ t[k].op = "insertion")
  BY <1>2, <1>4, <1>5
<1>12. ASSUME NEW j \in m .. Len(t) - 1
       PROVE  /\ t[j].op = "merging" => Waiting(t, g, j)
              /\ t[j].op = "merge" => j > m /\ t[j - 1].op = "merging"
  <2>1. CASE j = m
    BY <1>2, <1>4, <1>9, <2>1
  <2>2. CASE j = m + 1
    <3>1. j - 1 = m /\ j > m
      BY <1>1, <2>2
    <3> QED
      BY <1>2, <1>4, <2>2, <3>1
  <2> QED
    BY <1>5, <2>1, <2>2
<1>13. ASSUME NEW j \in m .. Len(t), NEW k \in m .. Len(t), j < k
       PROVE  Writes(t[k]) \cap Keeps(t, j) = {}
  <2>1. CASE j = m
    BY <1>8, <2>1
  <2>2. CASE j = m + 1
    <3>1. k = m + 2
      BY <1>1, <1>5, <1>13, <2>2
    <3>2. Writes(z) \cap Target(y) = {}
      BY <1>3, <1>6
    <3> QED
      BY <1>4, <1>8, <2>2, <3>1, <3>2
  <2>3. j # m + 2
    BY <1>1, <1>5, <1>13
  <2> QED
    BY <1>5, <2>1, <2>2, <2>3
<1>14. Values(g, UNION {Keeps(t, j) : j \in m .. Len(t)}) = Values(f, Keeps(s, m))
  <2>1. UNION {Keeps(t, j) : j \in m .. Len(t)} = Target(y) \cup Target(z)
    BY <1>5, <1>8
  <2>2. Target(y) \cup Target(z) = b .. b + n - 1
    BY <1>3, <1>6
  <2>3. Values(g, b .. b + n - 1) = Values(f, a .. a + n - 1)
    BY Copied
  <2> QED
    BY <1>6, <1>8, <2>1, <2>2, <2>3
<1>15. /\ m > 0 /\ Len(t) >= m /\ t[m].op # "merge" /\ t[m].io = s[m].io /\ t[m].n = s[m].n
  BY <1>1, <1>2, <1>4
<1>16. \A j \in 1 .. m - 1 : \A v \in Keeps(s, j) : g[v] = f[v]
  BY DEF Untouched, m
<1> QED
  BY <1>1, <1>10, <1>11, <1>12, <1>13, <1>14, <1>15, <1>16 DEF Replaces, m

LEMMA SplitStep ==
  ASSUME TypeInv, MergeMode, Split
  PROVE  TypeInv' /\ MergeMode' /\ calls' # <<>>
<1> PICK a, b, n : a = Top.io /\ b = Top.sc /\ n = Top.n
  OBVIOUS
<1> PICK l1, l2 : l1 = n \div 2 /\ l2 = n - l1
  OBVIOUS
<1> DEFINE items == <<[op |-> "merging", io |-> a, n |-> n, out |-> a, p1 |-> b, l1 |-> l1,
                       p2 |-> b + l1, l2 |-> l2],
                      Merge(b + l1, a, l2), Merge(b, a, l1)>>
<1>1. /\ calls # <<>> /\ Top.op = "merge" /\ n > MergeSmall /\ Replace(items) /\ given' = given
      /\ mem' = [k \in DOMAIN mem |-> IF b <= k /\ k < b + n THEN mem[a + k - b] ELSE mem[k]]
  BY DEF Split
<1>2. /\ Top \in MergeItems /\ a \in Nat /\ b \in Nat /\ n \in Nat /\ N \in Nat
      /\ a + n <= 2 * N /\ b + n <= 2 * N
      /\ a + n <= b \/ b + n <= a
      /\ DOMAIN mem = Cells
  BY <1>1, MergeTop, ItemKinds DEF MergeItems, ItemOK
<1>3. n >= 4
  BY <1>1, <1>2, ConstantsOK DEF ConstantsOK
<1>4. l1 \in Nat /\ l2 \in Nat /\ l1 >= 2 /\ l2 >= 2 /\ l1 + l2 = n
  BY <1>2, <1>3, TwoHalves
<1>5. Splits(items, a, b, n, l1, l2)
  BY <1>2, <1>4, SplitItems
<1> HIDE DEF items
<1>6. \A k \in DOMAIN items : ItemOK(items[k])
  BY <1>2, <1>4, <1>5, SplitFits
<1>7. items \in Seq(Items) /\ Len(items) = 3 /\ items[3].op = "merge"
  BY <1>5 DEF Splits
<1> PICK m : m = Len(calls)
  OBVIOUS
<1>8. /\ m \in Nat \ {0} /\ calls \in Seq(Items) /\ Top = calls[m] /\ DOMAIN calls = 1 .. m
  BY <1>1, TopFacts DEF TypeInv, Depth
<1>9. /\ calls' \in Seq(Items) /\ Len(calls') = m + 2
      /\ \A k \in 1 .. m - 1 : calls'[k] = calls[k]
      /\ calls'[m] = items[1] /\ calls'[m + 1] = items[2] /\ calls'[m + 2] = items[3]
  <2>1. /\ calls' \in Seq(Items) /\ Len(calls') = m - 1 + Len(items)
        /\ \A k \in 1 .. m - 1 : calls'[k] = calls[k]
        /\ \A k \in 1 .. Len(items) : calls'[m - 1 + k] = items[k]
    BY <1>1, <1>7, <1>8, ReplaceFacts DEF Replace
  <2>2. /\ m - 1 + 3 = m + 2 /\ m - 1 + 1 = m /\ m - 1 + 2 = m + 1
        /\ 1 \in 1 .. 3 /\ 2 \in 1 .. 3 /\ 3 \in 1 .. 3
    BY <1>8
  <2> QED
    BY <1>7, <2>1, <2>2
<1>10. /\ \A k \in b .. b + n - 1 : k \in Cells /\ a + k - b \in Cells
       /\ \A k \in Cells : b <= k /\ k < b + n <=> k \in b .. b + n - 1
  BY <1>2, CopyFits DEF Cells
<1>11. /\ \A k \in b .. b + n - 1 : mem'[k] = mem[a + k - b]
       /\ \A k \in Cells : k \notin b .. b + n - 1 => mem'[k] = mem[k]
       /\ DOMAIN mem' = Cells
  <2>1. \A k \in Cells : mem'[k] = IF b <= k /\ k < b + n THEN mem[a + k - b] ELSE mem[k]
    BY <1>1, <1>2
  <2>2. DOMAIN mem' = Cells
    BY <1>1, <1>2
  <2> QED
    BY <1>10, <2>1, <2>2
<1>12. mem' \in [Cells -> Elems \cup {Junk}]
  <2>1. \A k \in Cells : mem'[k] \in Elems \cup {Junk}
    BY <1>10, <1>11 DEF TypeInv
  <2>2. mem' = [k \in DOMAIN mem' |-> mem'[k]]
    BY <1>1
  <2> QED
    BY <1>11, <2>1, <2>2
<1>13. \A j \in 1 .. m - 1 : \A x \in Keeps(calls, j) : mem'[x] = mem[x]
  <2> SUFFICES ASSUME NEW j \in 1 .. m - 1, NEW x \in Keeps(calls, j)
               PROVE  mem'[x] = mem[x]
    OBVIOUS
  <2>1. j \in 1 .. m /\ m \in 1 .. m /\ j < m
    BY <1>8
  <2>2. Writes(calls[m]) \cap Keeps(calls, j) = {}
    BY <2>1 DEF MergeMode, MergeStack
  <2>3. x \in Cells
    BY <1>8, <2>1, MergeTypes
  <2>4. x \notin b .. b + n - 1
    BY <1>1, <1>8, <2>2 DEF Writes, Scratch
  <2> QED
    BY <1>11, <2>3, <2>4
<1>14. MergeStack(calls, mem) /\ Copies(mem, mem', a, b, n)
  BY <1>11 DEF MergeMode, Copies
<1>15. Replaces(calls, calls', mem, mem')
  <2>1. SplitTop(calls, calls', items, a, b, n)
    BY <1>1, <1>8, <1>9 DEF SplitTop
  <2>2. Untouched(calls, mem, mem')
    BY <1>13 DEF Untouched
  <2> QED
    BY <1>2, <1>4, <1>5, <1>14, <2>1, <2>2, SplitReplaces
<1> PICK d : d = items[3]
  OBVIOUS
<1>16. d = items[Len(items)] /\ d.op # "insertion" /\ d.op # "merging" /\ Len(items) > 0
  BY <1>7
<1> QED
  BY <1>1, <1>6, <1>7, <1>12, <1>15, <1>16, MergeReplaced

\* All of the array, with scratch space behind it.
LEMMA MergeCall ==
  ASSUME TypeInv, NEW arr \in Inputs, Call(arr), Size(arr) >= 2,
         calls' = <<Merge(0, Size(arr), Size(arr))>>
  PROVE  TypeInv' /\ MergeMode' /\ calls' # <<>>
<1> PICK c : c = Merge(0, Size(arr), Size(arr))
  OBVIOUS
<1>1. /\ N' = Size(arr) /\ N' \in Nat /\ (Held(0 .. N - 1) = Given)'
      /\ \A x : calls' = <<x>> /\ x \in Items /\ ItemOK(x)'
              => TypeInv' /\ Depth' = 1 /\ calls' # <<>> /\ Top' = x
  BY CallFacts
<1>2. /\ c \in Items /\ c.op = "merge" /\ c.io = 0 /\ c.sc = N' /\ c.n = N'
  BY <1>1 DEF Merge, Items, MergeItems
<1>3. ItemOK(c)'
  <2>1. c.n >= 2 /\ c.io + c.n <= 2 * N' /\ c.sc + c.n <= 2 * N' /\ c.io + c.n <= c.sc
    BY <1>1, <1>2
  <2> QED
    BY <1>2, <2>1 DEF ItemOK
<1>4. TypeInv' /\ calls' # <<>> /\ Top' = c
  BY <1>1, <1>2, <1>3
<1>5. Len(calls') = 1 /\ calls'[1] = c
  OBVIOUS
<1>6. Keeps(calls', 1) = 0 .. N' - 1
  BY <1>1, <1>2, <1>5 DEF Keeps, Target
<1>7. 1 .. Len(calls') = {1} /\ 1 .. Len(calls') - 1 = {}
  BY <1>5
<1>8. MergeStack(calls', mem')
  BY <1>2, <1>5, <1>7 DEF MergeStack
<1>9. Kept(calls') = 0 .. N' - 1
  BY <1>6, <1>7 DEF Kept
<1>10. Values(mem', Kept(calls')) = Given'
  BY <1>1, <1>9 DEF Values, Held
<1> QED
  BY <1>2, <1>4, <1>5, <1>8, <1>10 DEF MergeMode

-----------------------------------------------------------------------------
(* All of it.                                                              *)

\* The inductive invariant: without an item on the stack the array is what it is
\* to be, and with one it is where one of the methods has got to.
StrongInv ==
  /\ TypeInv /\ ReturnInv
  /\ calls # <<>> => QuickMode \/ HeapMode \/ MergeMode

\* What an action needs of the item that runs.
LEMMA Ops ==
  /\ Insert \/ InsertDone => calls # <<>> /\ Top.op = "insertion"
  /\ QuickFew \/ Pivot => calls # <<>> /\ Top.op = "quick"
  /\ Partition \/ Scan \/ Place => calls # <<>> /\ Top.op = "partition"
  /\ MergeFew \/ Split => calls # <<>> /\ Top.op = "merge"
  /\ TakeFirst \/ TakeSecond \/ MergeDone => calls # <<>> /\ Top.op = "merging"
  /\ SiftUp \/ NextUp \/ Heaped => calls # <<>> /\ Top.op = "up"
  /\ Take \/ HeapDone => calls # <<>> /\ Top.op = "take"
  /\ SiftDown \/ NextTake => calls # <<>> /\ Top.op = "down"
<1>1. Insert \/ InsertDone => calls # <<>> /\ Top.op = "insertion"
  BY DEF Insert, InsertDone
<1>2. QuickFew \/ Pivot => calls # <<>> /\ Top.op = "quick"
  BY DEF QuickFew, Pivot
<1>3. Partition \/ Scan \/ Place => calls # <<>> /\ Top.op = "partition"
  BY DEF Partition, Scan, Place
<1>4. MergeFew \/ Split => calls # <<>> /\ Top.op = "merge"
  BY DEF MergeFew, Split
<1>5. TakeFirst \/ TakeSecond \/ MergeDone => calls # <<>> /\ Top.op = "merging"
  BY DEF TakeFirst, TakeSecond, MergeDone
<1>6. SiftUp \/ NextUp \/ Heaped => calls # <<>> /\ Top.op = "up"
  BY DEF SiftUp, NextUp, Heaped
<1>7. Take \/ HeapDone => calls # <<>> /\ Top.op = "take"
  BY DEF Take, HeapDone
<1>8. SiftDown \/ NextTake => calls # <<>> /\ Top.op = "down"
  BY DEF SiftDown, NextTake
<1> QED
  BY <1>1, <1>2, <1>3, <1>4, <1>5, <1>6, <1>7, <1>8

\* Which items run in which method.
LEMMA ModeOps ==
  ASSUME TypeInv, calls # <<>>
  PROVE  /\ QuickMode => Top.op \in {"quick", "insertion", "partition"}
         /\ HeapMode => Top.op \in {"up", "take", "down"}
         /\ MergeMode => Top.op \in {"merge", "merging", "insertion"}
<1>1. Depth \in DOMAIN calls /\ Top = calls[Depth]
  BY TopFacts
<1>2. QuickMode => Top.op \in {"quick", "insertion", "partition"}
  BY <1>1 DEF QuickMode, QuickStack
<1>3. HeapMode => Top.op \in {"up", "take", "down"}
  BY DEF HeapMode
<1>4. MergeMode => Top.op \in {"merge", "merging", "insertion"}
  BY MergeTop
<1> QED
  BY <1>2, <1>3, <1>4

LEMMA HeapRuns ==
  ASSUME TypeInv, HeapMode, Running
  PROVE  StrongInv'
<1>1. calls # <<>>
  BY Ops DEF Running
<1>2. SiftUp \/ NextUp \/ Heaped \/ Take \/ SiftDown \/ NextTake \/ HeapDone
  <2>1. Top.op \in {"up", "take", "down"}
    BY <1>1, ModeOps
  <2> QED
    BY <2>1, Ops DEF Running
<1>3. \/ TypeInv' /\ HeapMode'
      \/ TypeInv' /\ ReturnInv' /\ calls' = <<>>
  <2>1. CASE SiftUp
    BY <2>1, SiftUpStep
  <2>2. CASE NextUp
    BY <2>2, NextUpStep
  <2>3. CASE Heaped
    BY <2>3, HeapedStep
  <2>4. CASE Take
    BY <2>4, TakeStep
  <2>5. CASE SiftDown
    BY <2>5, SiftDownStep
  <2>6. CASE NextTake
    BY <2>6, NextTakeStep
  <2>7. CASE HeapDone
    BY <2>7, HeapDoneStep
  <2> QED
    BY <1>2, <2>1, <2>2, <2>3, <2>4, <2>5, <2>6, <2>7
<1>4. HeapMode' => calls' # <<>>
  <2>1. HeapMode' => Len(calls') = 1
    BY DEF HeapMode, Depth
  <2>2. Len(<<>>) = 0
    OBVIOUS
  <2> QED
    BY <2>1, <2>2
<1> QED
  BY <1>3, <1>4 DEF StrongInv, ReturnInv

LEMMA QuickRuns ==
  ASSUME TypeInv, QuickMode, Running
  PROVE  StrongInv'
<1>1. calls # <<>>
  BY Ops DEF Running
<1>2. Insert \/ InsertDone \/ QuickFew \/ Pivot \/ Partition \/ Scan \/ Place
  <2>1. Top.op \in {"quick", "insertion", "partition"}
    BY <1>1, ModeOps
  <2> QED
    BY <2>1, Ops DEF Running
<1>3. \/ TypeInv' /\ QuickMode' /\ calls' # <<>>
      \/ TypeInv' /\ Onward'
  <2>1. CASE Insert
    BY <2>1, PartInsert
  <2>2. CASE InsertDone
    BY <2>2, PartInsertDone
  <2>3. CASE QuickFew
    BY <2>3, QuickFewStep
  <2>4. CASE Pivot
    BY <2>4, PivotStep
  <2>5. CASE Partition
    BY <2>5, PartitionStep
  <2>6. CASE Scan
    BY <2>6, ScanStep
  <2>7. CASE Place
    BY <2>7, PlaceStep
  <2> QED
    BY <1>2, <2>1, <2>2, <2>3, <2>4, <2>5, <2>6, <2>7
<1> QED
  BY <1>3 DEF StrongInv, ReturnInv, Onward

LEMMA MergeRuns ==
  ASSUME TypeInv, MergeMode, Running
  PROVE  StrongInv'
<1>1. calls # <<>>
  BY Ops DEF Running
<1>2. Insert \/ InsertDone \/ MergeFew \/ Split \/ TakeFirst \/ TakeSecond \/ MergeDone
  <2>1. Top.op \in {"merge", "merging", "insertion"}
    BY <1>1, ModeOps
  <2> QED
    BY <2>1, Ops DEF Running
<1>3. /\ TypeInv'
      /\ calls' = <<>> => ReturnInv'
      /\ calls' # <<>> => MergeMode'
  <2>1. CASE Insert
    BY <2>1, MergeInsert
  <2>2. CASE InsertDone
    BY <2>2, MergeInsertDone
  <2>3. CASE MergeFew
    BY <2>3, MergeFewStep
  <2>4. CASE Split
    BY <2>4, SplitStep
  <2>5. CASE TakeFirst
    BY <2>5, TakeFirstStep
  <2>6. CASE TakeSecond
    BY <2>6, TakeSecondStep
  <2>7. CASE MergeDone
    BY <2>7, MergeDoneStep
  <2> QED
    BY <1>2, <2>1, <2>2, <2>3, <2>4, <2>5, <2>6, <2>7
<1> QED
  BY <1>3 DEF StrongInv, ReturnInv

LEMMA CallStep ==
  ASSUME TypeInv, NEW arr \in Inputs, Call(arr)
  PROVE  StrongInv'
<1> PICK n : n = Size(arr)
  OBVIOUS
<1>1. /\ n \in Nat /\ N' = n
      /\ \/ calls' = <<Heap(n)>>
         \/ n >= 2 /\ (\/ calls' = <<Insertion(0, n)>> \/ calls' = <<Quick(0, n)>>
                       \/ calls' = <<Merge(0, n, n)>>)
  <2>1. n \in Nat /\ N' = n
    BY CallFacts
  <2>2. calls' \in IF n < 2 THEN {<<Heap(n)>>}
                   ELSE {<<Insertion(0, n)>>, <<Quick(0, n)>>, <<Merge(0, n, n)>>, <<Heap(n)>>}
    BY DEF Call
  <2> QED
    BY <2>1, <2>2
<1>2. CASE calls' = <<Heap(n)>>
  <2>1. TypeInv' /\ HeapMode' /\ calls' # <<>>
    BY <1>2, HeapCall
  <2> QED
    BY <2>1 DEF StrongInv, ReturnInv
<1>3. CASE n >= 2 /\ calls' = <<Merge(0, n, n)>>
  <2>1. TypeInv' /\ MergeMode' /\ calls' # <<>>
    BY <1>3, MergeCall
  <2> QED
    BY <2>1 DEF StrongInv, ReturnInv
<1>4. ASSUME NEW c, c \in {Insertion(0, n), Quick(0, n)}, n >= 2, calls' = <<c>>
      PROVE  StrongInv'
  <2>1. /\ c \in Items /\ c.op \in {"quick", "insertion"} /\ c.io = 0 /\ c.n = n
        /\ c.op = "insertion" => c.i = 1
    BY <1>1, <1>4 DEF Insertion, Quick, Items, InsertionItems, QuickItems
  <2>2. ItemOK(c)'
    <3>1. c.n >= 2 /\ 1 \in 1 .. c.n /\ c.io + c.n <= 2 * N' /\ c.io + c.n <= N'
      BY <1>1, <1>4, <2>1
    <3> QED
      BY <2>1, <3>1 DEF ItemOK
  <2>3. TypeInv' /\ QuickMode' /\ calls' # <<>>
    BY <1>4, <2>1, <2>2, PartCall
  <2> QED
    BY <2>3 DEF StrongInv, ReturnInv
<1> QED
  BY <1>1, <1>2, <1>3, <1>4

LEMMA Nothing == mem = <<>> /\ given = <<>> /\ calls = <<>> => TypeInv /\ ReturnInv
BY NoArray

LEMMA Stutters ==
  ASSUME StrongInv, UNCHANGED vars
  PROVE  StrongInv'
<1>1. mem' = mem /\ given' = given /\ calls' = calls
  BY DEF vars
<1>2. N' = N /\ Cells' = Cells /\ Given' = Given /\ Top' = Top /\ Depth' = Depth
  BY <1>1, SameSize DEF Top, Depth
<1>3. Ranks' = Ranks /\ (Held(0 .. N - 1) = Given <=> (Held(0 .. N - 1) = Given)')
  BY <1>1, <1>2 DEF Ranks, Held
<1>4. TypeInv => TypeInv'
  <2>1. ASSUME NEW k \in DOMAIN calls, ItemOK(calls[k]) PROVE ItemOK(calls[k])'
    BY <1>1, <1>2, <2>1 DEF ItemOK
  <2> QED
    BY <1>1, <1>2, <2>1 DEF TypeInv
<1>5. ReturnInv => ReturnInv'
  BY <1>1, <1>2, <1>3 DEF ReturnInv, Sorted
<1>6. HeapMode => HeapMode'
  <2>1. \A r : Beyond(Ranks, r) <=> Beyond(Ranks, r)'
    BY <1>2, <1>3 DEF Beyond
  <2> QED
    BY <1>2, <1>3, <2>1 DEF HeapMode
<1>7. QuickMode => QuickMode'
  <2>1. QuickStack => QuickStack'
    BY <1>1, <1>2 DEF QuickStack
  <2>2. Parted => Parted'
    BY <1>1, <1>2 DEF Parted
  <2>3. PivotApart => PivotApart'
    BY <1>1, <1>2 DEF PivotApart
  <2> QED
    BY <1>1, <1>2, <1>3, <2>1, <2>2, <2>3 DEF QuickMode, Sorted
<1>8. MergeMode => MergeMode'
  BY <1>1, <1>2 DEF MergeMode
<1> QED
  BY <1>1, <1>4, <1>5, <1>6, <1>7, <1>8 DEF StrongInv

LEMMA StrongInductive == Init => StrongInv
<1> SUFFICES ASSUME Init PROVE StrongInv
  OBVIOUS
<1>1. TypeInv /\ ReturnInv /\ calls = <<>>
  BY NoArray DEF Init
<1> QED
  BY <1>1 DEF StrongInv

LEMMA StrongStep ==
  ASSUME StrongInv, [Next]_vars
  PROVE  StrongInv'
<1>1. TypeInv /\ ReturnInv
  BY DEF StrongInv
<1>2. CASE \E arr \in Inputs : Call(arr)
  BY <1>1, <1>2, CallStep
<1>3. CASE Dispose
  <2>1. mem' = <<>> /\ given' = <<>> /\ calls' = <<>>
    BY <1>3 DEF Dispose
  <2>2. (mem = <<>> /\ given = <<>> /\ calls = <<>>)'
    BY <2>1
  <2>3. TypeInv' /\ ReturnInv'
    BY <2>2, Nothing, PTL
  <2> QED
    BY <2>1, <2>3 DEF StrongInv
<1>4. CASE Running
  <2>1. calls # <<>>
    BY <1>4, Ops DEF Running
  <2>2. QuickMode \/ HeapMode \/ MergeMode
    BY <2>1 DEF StrongInv
  <2> QED
    BY <1>1, <1>4, <2>2, QuickRuns, HeapRuns, MergeRuns
<1>5. CASE UNCHANGED vars
  BY <1>5, Stutters
<1> QED
  BY <1>2, <1>3, <1>4, <1>5 DEF Next

\* What the code relies on while it runs is always so.
THEOREM Always == Spec => []StrongInv
<1>1. StrongInv /\ [Next]_vars => StrongInv'
  BY StrongStep
<1> QED
  BY <1>1, StrongInductive, PTL DEF Spec

-----------------------------------------------------------------------------
(* What the runs check of it.                                              *)

LEMMA ItemsWithin ==
  ASSUME NEW c \in Items, ItemOK(c), N \in Nat
  PROVE  Within(c)
<1>1. CASE c.op = "insertion"
  BY <1>1 DEF ItemOK, Within
<1>2. CASE c.op = "quick"
  BY <1>2 DEF ItemOK, Within
<1>3. CASE c.op = "partition"
  <2>1. c.io \in Nat /\ c.n \in Nat /\ c.start \in Nat /\ c.end \in Nat
    BY <1>3, ItemKinds DEF PartitionItems
  <2>2. c.io + c.n - 2 < c.io + c.n
    BY <2>1
  <2>3. c.end < c.io + c.n
    BY <1>3, <2>1, <2>2 DEF ItemOK
  <2> QED
    BY <1>3, <2>3 DEF ItemOK, Within
<1>4. CASE c.op = "merge"
  BY <1>4 DEF ItemOK, Within
<1>5. CASE c.op = "merging"
  BY <1>5 DEF ItemOK, Within
<1>6. CASE c.op = "up"
  BY <1>6 DEF ItemOK, Within
<1>7. CASE c.op = "take"
  BY <1>7 DEF ItemOK, Within
<1>8. CASE c.op = "down"
  BY <1>8 DEF ItemOK, Within
<1> QED
  BY <1>1, <1>2, <1>3, <1>4, <1>5, <1>6, <1>7, <1>8
     DEF Items, InsertionItems, QuickItems, PartitionItems, MergeItems, MergingItems,
         UpItems, TakeItems, DownItems

LEMMA TypesHold == ASSUME TypeInv PROVE TypeOK
<1>1. N \in Nat
  BY GivenType
<1>2. ASSUME NEW k \in DOMAIN mem PROVE k \in 0 .. 2 * N - 1 /\ mem[k] \in Elems \cup {Junk}
  BY DEF TypeInv, Cells
<1>3. ASSUME NEW c \in DOMAIN calls PROVE Within(calls[c])
  <2>1. calls[c] \in Items /\ ItemOK(calls[c])
    BY DEF TypeInv
  <2> QED
    BY <1>1, <2>1, ItemsWithin
<1> QED
  BY <1>2, <1>3 DEF TypeOK

\* Where an item of quick or merge sort works.
LEMMA RegionIsTarget ==
  ASSUME NEW c, c.op \notin {"up", "take", "down"}
  PROVE  Region(c) = Target(c)
BY DEF Region, Target

LEMMA QuickSeparates == ASSUME TypeInv, QuickMode PROVE Separated
<1> SUFFICES ASSUME NEW j \in 0 .. N - 1, NEW k \in 0 .. N - 1, j < k,
                    ~(Rank[mem[j]] <= Rank[mem[k]])
             PROVE  \E c \in DOMAIN calls : {j, k} \subseteq Region(calls[c])
  BY GivenType DEF Separated
<1>1. PICK c \in DOMAIN calls : j \in Target(calls[c]) /\ k \in Target(calls[c])
  BY DEF QuickMode, Parted
<1>2. calls[c].op \notin {"up", "take", "down"}
  BY DEF QuickMode, QuickStack
<1> QED
  BY <1>1, <1>2, RegionIsTarget

LEMMA HeapSeparates == ASSUME TypeInv, HeapMode, calls # <<>> PROVE Separated
<1>1. /\ N \in Nat /\ Top.n = N /\ Top.i \in Nat
      /\ Depth \in DOMAIN calls /\ Top = calls[Depth]
      /\ Top.op \in {"up", "take", "down"}
  BY HeapFacts, TopFacts DEF HeapMode
<1> SUFFICES ASSUME NEW j \in 0 .. N - 1, NEW k \in 0 .. N - 1, j < k,
                    ~(Rank[mem[j]] <= Rank[mem[k]])
             PROVE  j \in Region(Top) /\ k \in Region(Top)
  BY <1>1 DEF Separated
<1>2. ~(Ranks[j] <= Ranks[k])
  BY DEF Ranks
<1>3. CASE Top.op = "up"
  BY <1>1, <1>3 DEF Region
<1>4. CASE Top.op = "take"
  <2>1. k < N - Top.i + 1
    BY <1>1, <1>2, <1>4 DEF HeapMode, Beyond
  <2> QED
    BY <1>1, <1>4, <2>1 DEF Region
<1>5. CASE Top.op = "down"
  <2>1. k < N - Top.i
    BY <1>1, <1>2, <1>5 DEF HeapMode, Beyond
  <2> QED
    BY <1>1, <1>5, <2>1 DEF Region
<1> QED
  BY <1>1, <1>3, <1>4, <1>5

LEMMA MergeSeparates == ASSUME TypeInv, MergeMode, calls # <<>> PROVE Separated
<1>1. 1 \in DOMAIN calls /\ N \in Nat
  BY GivenType DEF TypeInv
<1>2. calls[1].op \in {"merge", "merging", "insertion"}
  BY <1>1, MergeTypes
<1>3. Region(calls[1]) = 0 .. N - 1
  BY <1>1, <1>2, RegionIsTarget DEF MergeMode, Target
<1> QED
  BY <1>1, <1>3 DEF Separated

LEMMA RestSeparates == ASSUME TypeInv, ReturnInv, calls = <<>> PROVE Separated
<1>1. Sorted(0, N - 1) /\ N \in Nat
  BY GivenType DEF ReturnInv
<1>2. ASSUME NEW j \in 0 .. N - 1, NEW k \in 0 .. N - 1 PROVE j >= k \/ j < k
  BY <1>1
<1> QED
  BY <1>1, <1>2 DEF Separated, Sorted

LEMMA HeapLoops ==
  ASSUME TypeInv, HeapMode, calls # <<>>
  PROVE  HeapInv
<1>1. /\ N \in Nat /\ Held(0 .. N - 1) = Given /\ Top.n = N /\ Top.i \in Nat
      /\ Top.op = "up" => Top.j < Top.i /\ Top.j \in Nat
      /\ Top.op = "down" => Top.i \in 1 .. N - 1 /\ Top.p \in Nat /\ Top.p < N
  BY HeapFacts
<1>2. \A k \in 1 .. N - 1 : /\ k \in Nat \ {0} /\ Parent(k) \in 0 .. N - 1
                            /\ Ranks[k] = Rank[mem[k]]
                            /\ Ranks[Parent(k)] = Rank[mem[Parent(k)]]
  <2> SUFFICES ASSUME NEW k \in 1 .. N - 1
               PROVE  /\ k \in Nat \ {0} /\ Parent(k) \in 0 .. N - 1
                      /\ Ranks[k] = Rank[mem[k]] /\ Ranks[Parent(k)] = Rank[mem[Parent(k)]]
    OBVIOUS
  <2>1. k \in Nat \ {0} /\ Parent(k) \in 0 .. N - 1
    BY <1>1, ParentFacts
  <2> QED
    BY <1>1, <2>1 DEF Ranks
<1>3. ASSUME Top.op = "up", NEW k \in 1 .. (IF Top.i < Top.n THEN Top.i ELSE Top.n) - 1
      PROVE  /\ k # Top.j => Rank[mem[k]] <= Rank[mem[Parent(k)]]
             /\ Parent(k) = Top.j /\ Top.j > 0 => Rank[mem[k]] <= Rank[mem[Parent(Top.j)]]
  <2>1. k \in 1 .. N - 1
    BY <1>1
  <2>2. Rising(Ranks, IF Top.i < Top.n THEN Top.i ELSE Top.n, Top.j)
    BY <1>3 DEF HeapMode
  <2>3. /\ k # Top.j => Ranks[k] <= Ranks[Parent(k)]
        /\ Parent(k) = Top.j /\ Top.j > 0 => Ranks[k] <= Ranks[Parent(Top.j)]
    BY <2>2 DEF Rising
  <2>4. ASSUME Parent(k) = Top.j, Top.j > 0 PROVE Top.j \in 1 .. N - 1
    BY <1>1, <1>2, <1>3, <2>1, <2>4
  <2> QED
    BY <1>2, <2>1, <2>3, <2>4
<1>4. ASSUME Top.op = "take", NEW k \in 1 .. Top.n - Top.i
      PROVE  Rank[mem[k]] <= Rank[mem[Parent(k)]]
  <2>1. Top.i >= 1 /\ k \in 1 .. N - 1 /\ k \in 1 .. (N - Top.i + 1) - 1
    BY <1>1, <1>4, HeapFacts
  <2>2. Heaps(Ranks, N - Top.i + 1)
    BY <1>4 DEF HeapMode
  <2>3. Ranks[k] <= Ranks[Parent(k)]
    BY <2>1, <2>2 DEF Heaps
  <2> QED
    BY <1>2, <2>1, <2>3
<1>5. ASSUME Top.op = "down", NEW k \in 1 .. HeapSize - 1
      PROVE  /\ Parent(k) # Top.p => Rank[mem[k]] <= Rank[mem[Parent(k)]]
             /\ Parent(k) = Top.p /\ Top.p > 0 => Rank[mem[k]] <= Rank[mem[Parent(Top.p)]]
  <2>1. k \in 1 .. N - 1 /\ k \in 1 .. N - Top.i - 1
    BY <1>1, <1>5 DEF HeapSize
  <2>2. Sinking(Ranks, N - Top.i, Top.p)
    BY <1>5 DEF HeapMode
  <2>3. /\ Parent(k) # Top.p => Ranks[k] <= Ranks[Parent(k)]
        /\ Parent(k) = Top.p /\ Top.p > 0 => Ranks[k] <= Ranks[Parent(Top.p)]
    BY <2>1, <2>2 DEF Sinking
  <2>4. Top.p > 0 => Top.p \in 1 .. N - 1
    BY <1>1, <1>5
  <2> QED
    BY <1>2, <2>1, <2>3, <2>4
<1> QED
  BY <1>3, <1>4, <1>5 DEF HeapInv, Runs

LEMMA QuickLoops ==
  ASSUME TypeInv, QuickMode, calls # <<>>
  PROVE  InsertionInv /\ PartitionInv
<1>1. InsertionInv
  BY DEF QuickMode, InsertionInv, Runs
<1>2. ASSUME Top.op = "partition"
      PROVE  LET last == Top.io + Top.n - 1 IN
             /\ \A k \in Top.io .. Top.start - 1 : Rank[mem[k]] <= Rank[Top.pval]
             /\ \A k \in Top.end + 1 .. last - 1 : Rank[mem[k]] >= Rank[Top.pval]
  <2>1. PivotApart
    BY <1>2 DEF QuickMode
  <2> QED
    BY <2>1 DEF PivotApart
<1> QED
  BY <1>1, <1>2 DEF PartitionInv, Runs

LEMMA MergeLoops ==
  ASSUME TypeInv, MergeMode, calls # <<>>
  PROVE  InsertionInv /\ MergingInv
<1>1. InsertionInv
  BY DEF MergeMode, InsertionInv, Runs, Ordered, Sorted
<1>2. MergingInv
  BY DEF MergeMode, MergingInv, Runs, Merged, Ordered, Sorted, First, Second
<1> QED
  BY <1>1, <1>2

LEMMA LoopsHold == ASSUME StrongInv PROVE LoopInv
<1>1. TypeInv /\ ReturnInv /\ TypeOK
  BY TypesHold DEF StrongInv
<1>2. CASE calls = <<>>
  BY <1>1, <1>2, RestSeparates
     DEF LoopInv, InsertionInv, PartitionInv, MergingInv, HeapInv, Runs
<1>3. CASE calls # <<>> /\ QuickMode
  <2>1. Separated /\ InsertionInv /\ PartitionInv
    BY <1>1, <1>3, QuickSeparates, QuickLoops
  <2>2. Top.op \in {"quick", "insertion", "partition"}
    BY <1>1, <1>3, ModeOps
  <2> QED
    BY <1>1, <2>1, <2>2 DEF LoopInv, MergingInv, HeapInv, Runs
<1>4. CASE calls # <<>> /\ HeapMode
  <2>1. Separated /\ HeapInv
    BY <1>1, <1>4, HeapSeparates, HeapLoops
  <2>2. Top.op \in {"up", "take", "down"}
    BY <1>1, <1>4, ModeOps
  <2> QED
    BY <1>1, <2>1, <2>2 DEF LoopInv, InsertionInv, PartitionInv, MergingInv, Runs
<1>5. CASE calls # <<>> /\ MergeMode
  <2>1. Separated /\ InsertionInv /\ MergingInv
    BY <1>1, <1>5, MergeSeparates, MergeLoops
  <2>2. Top.op \in {"merge", "merging", "insertion"}
    BY <1>1, <1>5, ModeOps
  <2> QED
    BY <1>1, <2>1, <2>2 DEF LoopInv, PartitionInv, HeapInv, Runs
<1> QED
  BY <1>2, <1>3, <1>4, <1>5 DEF StrongInv

\* The invariant of every loop of the four functions, whichever runs: where its
\* indices are, which part is sorted, partitioned, merged or a heap by now, and
\* that what no pending call will move is where it belongs.
THEOREM Loops == Spec => []LoopInv
BY Always, LoopsHold, PTL

\* The assertions on the sizes (cop_sort.h:66, 85, 109 and 138): no function calls
\* another, or itself, with fewer elements than it takes for granted.
THEOREM Assertions == Spec => []AssertionsHold
<1>1. StrongInv => AssertionsHold
  <2> SUFFICES ASSUME StrongInv, NEW c \in DOMAIN calls
               PROVE  /\ calls[c].op \in {"insertion", "quick", "merge"} => calls[c].n >= 2
                      /\ calls[c].op = "partition" => calls[c].n > 2
    BY DEF AssertionsHold
  <2>1. ItemOK(calls[c])
    BY DEF StrongInv, TypeInv
  <2> QED
    BY <2>1 DEF ItemOK
<1> QED
  BY <1>1, Always, PTL

\* When a function returns, the array is in order and holds what it was given, each
\* element once.
THEOREM Sorts == Spec => []SortsOnReturn
<1>1. StrongInv => SortsOnReturn
  BY DEF StrongInv, ReturnInv, SortsOnReturn, Held, Given
<1> QED
  BY <1>1, Always, PTL
=============================================================================
