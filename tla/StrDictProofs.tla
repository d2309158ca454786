---------------------------- MODULE StrDictProofs ----------------------------
(***************************************************************************)
(* Proofs about StrDict, for any strings, integer keys, nodes and data     *)
(* pointers: the pointers form a tree in which keys lead to their nodes,   *)
(* through rotations and attachments; an enumeration gives every node to   *)
(* the callback, leaves first, and reads no node that was freed; and all   *)
(* of it cannot be told from a map of strings.                             *)
(***************************************************************************)
EXTENDS StrDict, WellFoundedInduction, FiniteSetTheorems, TLAPS

-----------------------------------------------------------------------------
(* Places in the tree: the child indices that lead there from the root.    *)

\* The place of child i of the node at p.
Under(p, i) == Append(p, i)

\* The place l steps down on the way to p.
Above(p, l) == SubSeq(p, 1, l)

\* p is where the first digits of k lead.
Leads(k, p) == p = KeyPath(k, Len(p))

LEMMA PathFacts ==
  ASSUME NEW p \in Paths
  PROVE  Len(p) \in Nat /\ (p = <<>> <=> Len(p) = 0) /\ \A j \in 1 .. Len(p) : p[j] \in Digits
BY DEF Paths

LEMMA RootPath == <<>> \in Paths /\ Len(<<>>) = 0
BY DEF Paths

LEMMA UnderFacts ==
  ASSUME NEW p \in Paths, NEW i \in Digits
  PROVE  /\ Under(p, i) \in Paths /\ Len(Under(p, i)) = Len(p) + 1 /\ Under(p, i) # <<>>
         /\ Under(p, i)[Len(p) + 1] = i /\ \A j \in 1 .. Len(p) : Under(p, i)[j] = p[j]
BY DEF Paths, Under

\* Two children with one place have one parent and one index.
LEMMA UnderInjective ==
  ASSUME NEW p \in Paths, NEW q \in Paths, NEW i \in Digits, NEW j \in Digits,
         Under(p, i) = Under(q, j)
  PROVE  p = q /\ i = j
<1>1. Len(Under(p, i)) = Len(p) + 1 /\ Len(Under(q, j)) = Len(q) + 1
  BY UnderFacts
<1>2. Under(p, i)[Len(p) + 1] = i /\ Under(q, j)[Len(q) + 1] = j
  BY UnderFacts
<1>3. Len(p) = Len(q) /\ i = j
  BY <1>1, <1>2, PathFacts
<1>4. \A k \in 1 .. Len(p) : p[k] = q[k]
  BY <1>3, UnderFacts
<1>5. p = q
  BY <1>3, <1>4 DEF Paths
<1> QED
  BY <1>3, <1>5

LEMMA AboveFacts ==
  ASSUME NEW p \in Paths, NEW l \in 0 .. Len(p)
  PROVE  /\ Above(p, l) \in Paths /\ Len(Above(p, l)) = l
         /\ \A j \in 1 .. l : Above(p, l)[j] = p[j]
BY DEF Paths, Above

\* Places are equal when they are as long and go the same way.
LEMMA SamePath ==
  ASSUME NEW p \in Paths, NEW q \in Paths, Len(p) = Len(q),
         \A j \in 1 .. Len(p) : p[j] = q[j]
  PROVE  p = q
BY DEF Paths

LEMMA AboveWhole ==
  ASSUME NEW p \in Paths
  PROVE  Above(p, Len(p)) = p /\ Above(p, 0) = <<>>
<1>1. Len(p) \in 0 .. Len(p) /\ 0 \in 0 .. Len(p)
  BY PathFacts
<1>2. Above(p, Len(p)) = p
  BY <1>1, AboveFacts, SamePath
<1>3. Above(p, 0) = <<>>
  BY <1>1, AboveFacts, SamePath, RootPath
<1> QED
  BY <1>2, <1>3

LEMMA AboveUnder ==
  ASSUME NEW p \in Paths, NEW i \in Digits, NEW l \in 0 .. Len(p)
  PROVE  Above(Under(p, i), l) = Above(p, l)
<1>1. l \in 0 .. Len(Under(p, i)) /\ Under(p, i) \in Paths
  BY UnderFacts, PathFacts
<1>2. Above(Under(p, i), l) \in Paths /\ Above(p, l) \in Paths
  BY <1>1, AboveFacts
<1>3. \A j \in 1 .. l : Above(Under(p, i), l)[j] = Above(p, l)[j]
  BY <1>1, AboveFacts, UnderFacts, PathFacts
<1> QED
  BY <1>1, <1>2, <1>3, AboveFacts, SamePath

LEMMA AboveStep ==
  ASSUME NEW p \in Paths, NEW l \in 0 .. Len(p) - 1
  PROVE  Above(p, l + 1) = Under(Above(p, l), p[l + 1])
<1>1. l \in 0 .. Len(p) /\ l + 1 \in 0 .. Len(p) /\ p[l + 1] \in Digits
  BY PathFacts
<1>2. Above(p, l) \in Paths /\ Len(Above(p, l)) = l
  BY <1>1, AboveFacts
<1>3. Above(p, l + 1) \in Paths /\ Len(Above(p, l + 1)) = l + 1
  BY <1>1, AboveFacts
<1>4. /\ Under(Above(p, l), p[l + 1]) \in Paths /\ Len(Under(Above(p, l), p[l + 1])) = l + 1
      /\ \A j \in 1 .. l : Under(Above(p, l), p[l + 1])[j] = Above(p, l)[j]
      /\ Under(Above(p, l), p[l + 1])[l + 1] = p[l + 1]
  <2> DEFINE q == Above(p, l)
             i == p[l + 1]
  <2>1. q \in Paths /\ Len(q) = l /\ i \in Digits
    BY <1>1, <1>2
  <2> HIDE DEF q, i
  <2>2. /\ Under(q, i) \in Paths /\ Len(Under(q, i)) = l + 1
        /\ \A j \in 1 .. l : Under(q, i)[j] = q[j]
        /\ Under(q, i)[l + 1] = i
    BY <2>1, UnderFacts
  <2> QED
    BY <2>2 DEF q, i
<1>5. \A j \in 1 .. l + 1 : Above(p, l + 1)[j] = p[j]
  BY <1>1, AboveFacts
<1>6. \A j \in 1 .. l : Above(p, l)[j] = p[j]
  BY <1>1, AboveFacts
<1>7. \A j \in 1 .. l + 1 : Above(p, l + 1)[j] = Under(Above(p, l), p[l + 1])[j]
  BY <1>4, <1>5, <1>6
<1> QED
  BY <1>3, <1>4, <1>7, SamePath

\* Every place but the root's is that of a child.
LEMMA ParentPath ==
  ASSUME NEW p \in Paths, p # <<>>
  PROVE  Front(p) \in Paths /\ Last(p) \in Digits /\ p = Under(Front(p), Last(p))
<1>1. Len(p) \in Nat \ {0}
  BY PathFacts
<1>2. Len(p) - 1 \in 0 .. Len(p) - 1 /\ (Len(p) - 1) + 1 = Len(p)
  BY <1>1
<1>3. Front(p) = Above(p, Len(p) - 1) /\ Last(p) = p[Len(p)]
  BY DEF Front, Last, Above
<1> QED
  BY <1>1, <1>2, <1>3, AboveStep, AboveFacts, AboveWhole, PathFacts

-----------------------------------------------------------------------------
(* Where keys lead. *)

LEMMA DigitType ==
  ASSUME NEW k \in Keys, NEW l \in Nat
  PROVE  Digit(k, l) \in Digits
BY ConstantsOK DEF ConstantsOK, Digit, Digits

LEMMA KeyPathFacts ==
  ASSUME NEW k \in Keys, NEW l \in Nat
  PROVE  /\ KeyPath(k, l) \in Paths /\ Len(KeyPath(k, l)) = l
         /\ \A j \in 1 .. l : KeyPath(k, l)[j] = Digit(k, j - 1)
<1>1. \A j \in 1 .. l : Digit(k, j - 1) \in Digits
  BY DigitType
<1> QED
  BY <1>1 DEF KeyPath, Paths

LEMMA LeadsFacts ==
  ASSUME NEW k \in Keys, NEW p \in Paths
  PROVE  Leads(k, p) <=> \A j \in 1 .. Len(p) : p[j] = Digit(k, j - 1)
BY KeyPathFacts, PathFacts, SamePath DEF Leads

LEMMA LeadsUnder ==
  ASSUME NEW k \in Keys, NEW p \in Paths, NEW i \in Digits
  PROVE  Leads(k, Under(p, i)) <=> Leads(k, p) /\ i = Digit(k, Len(p))
<1>1. Under(p, i) \in Paths /\ Len(Under(p, i)) = Len(p) + 1 /\ Len(p) \in Nat
  BY UnderFacts, PathFacts
<1>2. /\ Under(p, i)[Len(p) + 1] = i /\ \A j \in 1 .. Len(p) : Under(p, i)[j] = p[j]
      /\ (Len(p) + 1) - 1 = Len(p) /\ Len(p) + 1 \in 1 .. Len(p) + 1
      /\ \A j \in 1 .. Len(p) : j \in 1 .. Len(p) + 1
      /\ \A j \in 1 .. Len(p) + 1 : j \in 1 .. Len(p) \/ j = Len(p) + 1
  BY <1>1, UnderFacts
<1>3. ASSUME Leads(k, Under(p, i)) PROVE Leads(k, p) /\ i = Digit(k, Len(p))
  <2>1. \A j \in 1 .. Len(p) + 1 : Under(p, i)[j] = Digit(k, j - 1)
    BY <1>1, <1>3, LeadsFacts
  <2> QED
    BY <1>2, <2>1, LeadsFacts
<1>4. ASSUME Leads(k, p), i = Digit(k, Len(p)) PROVE Leads(k, Under(p, i))
  <2>1. \A j \in 1 .. Len(p) : p[j] = Digit(k, j - 1)
    BY <1>4, LeadsFacts
  <2>2. \A j \in 1 .. Len(p) + 1 : Under(p, i)[j] = Digit(k, j - 1)
    BY <1>2, <1>4, <2>1
  <2> QED
    BY <1>1, <2>2, LeadsFacts
<1> QED
  BY <1>3, <1>4

LEMMA LeadsRoot ==
  ASSUME NEW k \in Keys
  PROVE  Leads(k, <<>>)
BY LeadsFacts, RootPath

LEMMA LeadsUnique ==
  ASSUME NEW k \in Keys, NEW p \in Paths, NEW q \in Paths, Leads(k, p), Leads(k, q),
         Len(p) = Len(q)
  PROVE  p = q
BY LeadsFacts, SamePath

LEMMA LeadsAbove ==
  ASSUME NEW k \in Keys, NEW p \in Paths, NEW l \in 0 .. Len(p), Leads(k, p)
  PROVE  Leads(k, Above(p, l))
BY LeadsFacts, AboveFacts, PathFacts

-----------------------------------------------------------------------------
(* The inductive invariant.  While the caller frees the nodes their places  *)
(* stay, although a freed node has no key and its pointers say nothing.     *)

RootInv ==
  /\ (root = NULL) <=> (inside = {})
  /\ root # NULL => root \in inside /\ at[root] = <<>>

KidInv ==
  \A n \in inside, i \in Digits : key[n] # NULL /\ kids[n][i] # NULL =>
    kids[n][i] \in inside /\ at[kids[n][i]] = Under(at[n], i)

ParentInv ==
  \A n \in inside : at[n] # <<>> =>
    \E m \in inside, i \in Digits :
      at[n] = Under(at[m], i) /\ (key[m] # NULL => kids[m][i] = n)

PlaceInv == \A m, n \in inside : m # n => at[m] # at[n]

\* No place below the root without a node above it.
AboveInv ==
  \A n \in inside : \A l \in 0 .. Len(at[n]) : \E m \in inside : at[m] = Above(at[n], l)

KeysInv ==
  /\ \A m, n \in inside : m # n /\ key[m] # NULL => key[m] # key[n]
  /\ \A n \in inside : key[n] # NULL /\ ~IsVictim(n) => Leads(key[n], at[n])

\* Nodes are without a key when the callback was given them to free.
LiveInv == \A n \in inside : key[n] = NULL <=> Destroying /\ n \in Range(seen)

Shape == RootInv /\ KidInv /\ ParentInv /\ PlaceInv /\ AboveInv /\ KeysInv /\ LiveInv

\* What runs, with what arguments.
OpInv ==
  /\ pc = "idle" => call = NoCall
  /\ pc = "search" => call.op \in {"insert", "get", "update", "delete"}
  /\ pc \in {"search", "rotate"} => call.key \in Keys
  /\ pc = "enum" => call.op \in {"enumerate", "destroy"}
  /\ pc # "enum" => stack = <<>> /\ seen = <<>>

\* The frames of an enumeration are the way to the node it is at.
StackInv ==
  /\ \A k \in DOMAIN stack :
       /\ stack[k].node \in inside /\ Len(at[stack[k].node]) = k - 1
       /\ \A j \in 1 .. k - 1 :
            /\ Above(at[stack[k].node], j - 1) = at[stack[j].node]
            /\ at[stack[k].node][j] = stack[j].idx - 1
  /\ Range(seen) \subseteq inside

\* The nodes some frame has still to come to, itself included.
Pending(m) ==
  \E j \in DOMAIN stack :
    /\ j - 1 <= Len(at[m]) /\ Above(at[m], j - 1) = at[stack[j].node]
    /\ Len(at[m]) = j - 1 \/ at[m][j] >= stack[j].idx

SeenInv == pc = "enum" => \A m \in inside : m \in Range(seen) <=> ~Pending(m)

EnumInv == StackInv /\ SeenInv

StrongInv == TypeOK /\ Shape /\ CallInv /\ OpInv /\ EnumInv /\ DetachedClean

-----------------------------------------------------------------------------
(* What the inductive invariant says of a state.                           *)

LEMMA InsideType ==
  ASSUME TypeOK, NEW n \in inside
  PROVE  /\ n \in Nodes /\ n # NULL /\ at[n] \in Paths /\ Len(at[n]) \in Nat
         /\ key[n] \in Keys \cup {NULL} /\ kids[n] \in [Digits -> Pointers]
         /\ \A i \in Digits : kids[n][i] \in Pointers
<1>1. n \in Nodes /\ n # NULL
  BY ConstantsOK DEF TypeOK, ConstantsOK
<1>2. at[n] \in Paths
  BY <1>1 DEF TypeOK
<1>3. key[n] \in Keys \cup {NULL} /\ kids[n] \in [Digits -> Pointers]
  BY <1>1 DEF TypeOK
<1> QED
  BY <1>1, <1>2, <1>3, PathFacts

\* Outside a tear-down every node inside has a key, which leads to it unless a
\* deletion is moving the node down.
LEMMA InsideKeys ==
  ASSUME TypeOK, Shape, ~Destroying, NEW n \in inside
  PROVE  key[n] \in Keys /\ key[n] # NULL /\ (~IsVictim(n) => Leads(key[n], at[n]))
<1>1. key[n] # NULL
  BY DEF Shape, LiveInv
<1> QED
  BY <1>1, InsideType DEF Shape, KeysInv

\* A node at the place of a child hangs from that child pointer.
LEMMA ChildAt ==
  ASSUME TypeOK, Shape, NEW m \in inside, NEW i \in Digits, NEW n \in inside,
         key[m] # NULL, at[n] = Under(at[m], i)
  PROVE  kids[m][i] = n
<1>1. at[n] # <<>> /\ at[m] \in Paths
  BY InsideType, UnderFacts
<1>2. PICK p \in inside, j \in Digits :
        at[n] = Under(at[p], j) /\ (key[p] # NULL => kids[p][j] = n)
  BY <1>1 DEF Shape, ParentInv
<1>3. at[p] = at[m] /\ j = i
  <2>1. at[p] \in Paths
    BY InsideType
  <2>2. Under(at[p], j) = Under(at[m], i)
    BY <1>2
  <2> QED
    BY <1>1, <2>1, <2>2, UnderInjective
<1>4. p = m
  BY <1>3 DEF Shape, PlaceInv
<1> QED
  BY <1>2, <1>3, <1>4

\* Whatever is below a node is below one of its children.
LEMMA NoneBelow ==
  ASSUME TypeOK, Shape, NEW v \in inside, NEW n \in inside, NEW i \in Digits,
         key[v] # NULL, kids[v][i] = NULL,
         Len(at[n]) > Len(at[v]), Above(at[n], Len(at[v])) = at[v]
  PROVE  at[n][Len(at[v]) + 1] # i
<1> DEFINE l == Len(at[v])
<1>1. at[n] \in Paths /\ l \in Nat /\ Len(at[n]) \in Nat
  BY InsideType
<1>2. l \in 0 .. Len(at[n]) - 1 /\ l + 1 \in 0 .. Len(at[n])
  BY <1>1
<1> SUFFICES ASSUME at[n][l + 1] = i PROVE FALSE
  OBVIOUS
<1>3. Above(at[n], l + 1) = Under(at[v], i)
  BY <1>1, <1>2, AboveStep
<1>4. PICK m \in inside : at[m] = Above(at[n], l + 1)
  BY <1>2 DEF Shape, AboveInv
<1>5. kids[v][i] = m
  BY <1>3, <1>4, ChildAt
<1> QED
  BY <1>5, InsideType

\* The place a search or a rotation is at.
LEMMA SlotFacts ==
  ASSUME TypeOK, Shape, CallInv, pc \in {"search", "rotate"}
  PROVE  /\ ~Destroying /\ SlotPath \in Paths /\ level = Len(SlotPath) /\ level \in Nat
         /\ slot.node = NULL => SlotPath = <<>> /\ cur = root
         /\ slot.node # NULL => /\ slot.node \in inside /\ slot.idx \in Digits
                                /\ SlotPath = Under(at[slot.node], slot.idx)
                                /\ cur = kids[slot.node][slot.idx]
                                /\ inside # {} /\ root # NULL /\ SlotPath # <<>>
         /\ cur # NULL => cur \in inside /\ at[cur] = SlotPath
         /\ \A n \in inside : at[n] = SlotPath => n = cur
<1>1. ~Destroying /\ slot.idx \in Digits /\ level \in Nat /\ level = Len(SlotPath)
  BY DEF TypeOK, CallInv, Destroying
<1>2. CASE slot.node = NULL
  <2>1. SlotPath = <<>> /\ cur = root
    BY <1>2 DEF SlotPath, CallInv
  <2>2. cur # NULL => cur \in inside /\ at[cur] = SlotPath
    BY <2>1 DEF Shape, RootInv
  <2>3. ASSUME NEW n \in inside, at[n] = SlotPath PROVE n = cur
    BY <2>1, <2>3 DEF Shape, RootInv, PlaceInv
  <2> QED
    BY <1>1, <1>2, <2>1, <2>2, <2>3, RootPath
<1>3. CASE slot.node # NULL
  <2>1. slot.node \in inside /\ cur = kids[slot.node][slot.idx]
    BY <1>3 DEF CallInv
  <2>2. at[slot.node] \in Paths /\ key[slot.node] # NULL
    BY <1>1, <2>1, InsideType, InsideKeys
  <2>3. SlotPath = Under(at[slot.node], slot.idx)
    BY <1>3 DEF SlotPath, Under
  <2>4. SlotPath \in Paths /\ SlotPath # <<>>
    BY <1>1, <2>2, <2>3, UnderFacts
  <2>5. cur # NULL => cur \in inside /\ at[cur] = SlotPath
    BY <1>1, <2>1, <2>2, <2>3 DEF Shape, KidInv
  <2>6. ASSUME NEW n \in inside, at[n] = SlotPath PROVE n = cur
    BY <1>1, <2>1, <2>2, <2>3, <2>6, ChildAt
  <2>7. inside # {} /\ root # NULL
    BY <2>1 DEF Shape, RootInv
  <2> QED
    BY <1>1, <1>3, <2>1, <2>3, <2>4, <2>5, <2>6, <2>7
<1> QED
  BY <1>2, <1>3

\* A node that has the key is at the place of the search or further down.
LEMMA SearchFacts ==
  ASSUME TypeOK, Shape, CallInv, OpInv, pc = "search", NEW n \in inside,
         key[n] = call.key, n # cur
  PROVE  cur # NULL /\ Len(at[n]) >= level + 1
<1>1. at[n] \in Paths /\ Len(at[n]) \in Nat /\ level \in Nat /\ call.key \in Keys
  BY InsideType, SlotFacts DEF OpInv
<1>2. Leads(call.key, at[n]) /\ Leads(call.key, SlotPath)
  <2>1. ~IsVictim(n) /\ ~Destroying
    BY DEF IsVictim, Destroying
  <2> QED
    BY <2>1, InsideKeys, SlotFacts DEF CallInv, Leads
<1>3. Len(at[n]) >= level
  BY DEF CallInv
<1>4. level \in 0 .. Len(at[n])
  BY <1>1, <1>3
<1>5. Above(at[n], level) = SlotPath
  <2>1. Above(at[n], level) \in Paths /\ Len(Above(at[n], level)) = level
    BY <1>1, <1>4, AboveFacts
  <2>2. Leads(call.key, Above(at[n], level))
    BY <1>1, <1>2, <1>4, LeadsAbove
  <2> QED
    BY <1>1, <1>2, <2>1, <2>2, LeadsUnique, SlotFacts
<1>6. PICK m \in inside : at[m] = SlotPath
  BY <1>4, <1>5 DEF Shape, AboveInv
<1>7. cur # NULL
  BY <1>6, SlotFacts, InsideType
<1>8. Len(at[n]) # level
  BY <1>1, <1>5, AboveWhole, SlotFacts
<1> QED
  BY <1>1, <1>3, <1>7, <1>8

-----------------------------------------------------------------------------
(* Sequences and minima.                                                   *)

LEMMA RangeEmpty == Range(<<>>) = {}
BY DEF Range

LEMMA RangeAppend ==
  ASSUME NEW s \in Seq(Nodes), NEW n \in Nodes
  PROVE  Append(s, n) \in Seq(Nodes) /\ Range(Append(s, n)) = Range(s) \cup {n}
<1>1. /\ DOMAIN s = 1 .. Len(s) /\ DOMAIN Append(s, n) = 1 .. Len(s) + 1 /\ Len(s) \in Nat
      /\ Append(s, n)[Len(s) + 1] = n /\ \A i \in 1 .. Len(s) : Append(s, n)[i] = s[i]
  OBVIOUS
<1>2. \A i \in 1 .. Len(s) + 1 : i \in 1 .. Len(s) \/ i = Len(s) + 1
  BY <1>1
<1>3. 1 .. Len(s) \subseteq 1 .. Len(s) + 1 /\ Len(s) + 1 \in 1 .. Len(s) + 1
  BY <1>1
<1> QED
  BY <1>1, <1>2, <1>3 DEF Range

\* Every non-empty set of natural numbers has a least one.
LEMMA SmallestNat ==
  ASSUME NEW T, T \subseteq Nat, T # {}
  PROVE  \E x \in T : \A y \in T : x <= y
<1> DEFINE R == {p \in Nat \X Nat : p[1] < p[2]}
<1>1. OpToRel(<, Nat) = R
  BY DEF OpToRel
<1>2. IsWellFoundedOn(R, Nat)
  BY <1>1, NatLessThanWellFounded
<1>3. PICK x \in T : \A y \in T : ~(<<y, x>> \in R)
  BY <1>2, WFMin
<1>4. ASSUME NEW y \in T PROVE x <= y
  <2>1. <<y, x>> \in Nat \X Nat /\ <<y, x>>[1] = y /\ <<y, x>>[2] = x
    OBVIOUS
  <2>2. ~(y < x)
    BY <1>3, <2>1
  <2> QED
    BY <2>2
<1> QED
  BY <1>4

\* findkid finds a child pointer in use when there is one.
LEMMA FindKidFacts ==
  ASSUME NEW n \in Nodes, NEW o \in Digits, HasKid(n)
  PROVE  FindKid(n, o) \in Digits /\ kids[n][FindKid(n, o)] # NULL
<1> DEFINE D(i) == (i + NB - o) % NB
           T == {D(i) : i \in {j \in Digits : kids[n][j] # NULL}}
<1>1. T \subseteq Nat
  <2>1. ASSUME NEW i \in Digits PROVE D(i) \in Nat
    <3>1. NB \in Nat /\ NB > 0 /\ i \in Nat /\ o \in Nat /\ o < NB
      BY ConstantsOK DEF ConstantsOK, Digits
    <3>2. i + NB - o \in Nat
      BY <3>1
    <3> QED
      BY <3>1, <3>2
  <2> QED
    BY <2>1
<1>2. T # {}
  BY DEF HasKid
<1>3. PICK x \in T : \A y \in T : x <= y
  BY <1>1, <1>2, SmallestNat
<1>4. PICK i \in Digits : kids[n][i] # NULL /\ x = D(i)
  OBVIOUS
<1>5. \A j \in Digits : kids[n][j] # NULL => D(i) <= D(j)
  BY <1>3, <1>4
<1> HIDE DEF T
<1> QED
  BY <1>4, <1>5 DEF FindKid

-----------------------------------------------------------------------------
(* Steps that leave the tree as it is.                                     *)

\* The tree is as it was when nothing changes of the nodes inside.
LEMMA TreeKept ==
  ASSUME TypeOK, Shape, UNCHANGED <<root, inside, at>>,
         \A n \in inside : key'[n] = key[n] /\ kids'[n] = kids[n],
         \A n \in inside : IsVictim(n) => IsVictim(n)'
  PROVE  RootInv' /\ KidInv' /\ ParentInv' /\ PlaceInv' /\ AboveInv' /\ KeysInv'
<1>1. RootInv' /\ PlaceInv' /\ AboveInv'
  BY DEF Shape, RootInv, PlaceInv, AboveInv
<1>2. KidInv' /\ ParentInv'
  BY DEF Shape, KidInv, ParentInv
<1>3. KeysInv'
  BY DEF Shape, KeysInv
<1> QED
  BY <1>1, <1>2, <1>3

\* The end of a call that searched.
LEMMA Returns ==
  ASSUME TypeOK, Shape, OpInv, pc \in {"search", "rotate"}, NEW r \in Results, Return(r)
  PROVE  /\ pc' \in {"idle", "search", "rotate", "enum"} /\ call' = NoCall /\ ret' \in Results
         /\ slot' \in [node : Pointers, idx : Digits] /\ cur' \in Pointers /\ level' \in Nat
         /\ stack' = <<>> /\ seen' = <<>> /\ pc' = "idle" /\ ~Destroying'
         /\ CallInv' /\ OpInv' /\ EnumInv' /\ \A n \in Nodes : ~IsVictim(n)'
<1>1. /\ pc' = "idle" /\ call' = NoCall /\ slot' = RootSlot /\ cur' = NULL /\ level' = 0
      /\ ret' = r /\ stack' = stack /\ seen' = seen
  BY DEF Return, enum_vars
<1>2. stack = <<>> /\ seen = <<>>
  BY DEF OpInv
<1>3. slot' \in [node : Pointers, idx : Digits] /\ cur' \in Pointers /\ level' \in Nat
  BY <1>1, ConstantsOK DEF RootSlot, Pointers, Digits, ConstantsOK
<1>4. CallInv' /\ OpInv' /\ ~Destroying' /\ \A n \in Nodes : ~IsVictim(n)'
  BY <1>1, <1>2 DEF CallInv, OpInv, Destroying, IsVictim
<1>5. EnumInv'
  <2>1. StackInv'
    BY <1>1, <1>2, RangeEmpty DEF StackInv
  <2> QED
    BY <1>1, <2>1 DEF EnumInv, SeenInv
<1> QED
  BY <1>1, <1>2, <1>3, <1>4, <1>5

\* Outside a tear-down the nodes are live before and after such a step.
LEMMA LiveKept ==
  ASSUME Shape, ~Destroying, ~Destroying', UNCHANGED inside,
         \A n \in inside : key'[n] = key[n]
  PROVE  LiveInv'
BY DEF Shape, LiveInv

LEMMA CleanKept ==
  ASSUME DetachedClean, UNCHANGED <<key, kids, inside>>
  PROVE  DetachedClean'
BY DEF DetachedClean

LEMMA CallType ==
  ASSUME TypeOK
  PROVE  /\ call.op \in {"none", "insert", "get", "update", "delete", "enumerate", "destroy"}
         /\ call.key \in Keys \cup {NULL} /\ call.item \in Pointers
         /\ call.val \in Values \cup {NULL}
BY DEF TypeOK

LEMMA NoCallType ==
  NoCall \in [op : {"none", "insert", "get", "update", "delete", "enumerate", "destroy"},
              key : Keys \cup {NULL}, item : Pointers, val : Values \cup {NULL}]
BY DEF NoCall, Pointers

LEMMA InitStrong == Init => StrongInv
<1> SUFFICES ASSUME Init PROVE StrongInv
  OBVIOUS
<1>1. TypeOK
  <2>1. RootSlot \in [node : Pointers, idx : Digits]
    BY ConstantsOK DEF ConstantsOK, RootSlot, Pointers, Digits
  <2>2. /\ kids \in [Nodes -> [Digits -> Pointers]] /\ at \in [Nodes -> Paths]
        /\ Void \in Results
    BY RootPath DEF Init, Dirty, Pointers, Results, Void
  <2>3. stack \in Seq([node : Nodes, idx : 0 .. NB]) /\ seen \in Seq(Nodes)
    BY DEF Init
  <2> QED
    BY <2>1, <2>2, <2>3, NoCallType DEF Init, TypeOK, Pointers
<1>2. Shape
  BY DEF Init, Shape, RootInv, KidInv, ParentInv, PlaceInv, AboveInv, KeysInv, LiveInv
<1>3. CallInv /\ OpInv /\ DetachedClean
  BY DEF Init, CallInv, OpInv, DetachedClean
<1>4. EnumInv
  BY RangeEmpty DEF Init, EnumInv, StackInv, SeenInv
<1> QED
  BY <1>1, <1>2, <1>3, <1>4 DEF StrongInv

LEMMA NodeInitStep ==
  ASSUME StrongInv, NEW n \in Nodes, NEW k \in Keys, NEW v \in Values, NodeInit(n, k, v)
  PROVE  StrongInv'
<1>1. /\ pc = "idle" /\ n \notin inside /\ key' = [key EXCEPT ![n] = k]
      /\ data' = [data EXCEPT ![n] = v] /\ kids' = [kids EXCEPT ![n] = NoKids]
      /\ ret' = Void
      /\ UNCHANGED <<root, inside, at, pc, call, slot, cur, level, stack, seen>>
  BY DEF NodeInit, loop_vars, enum_vars
<1> USE DEF StrongInv
<1>2. TypeOK'
  <2>1. NoKids \in [Digits -> Pointers] /\ Void \in Results
    BY DEF NoKids, Pointers, Void, Results
  <2>2. key' \in [Nodes -> Keys \cup {NULL}] /\ data' \in [Nodes -> Values \cup {NULL}]
    BY <1>1 DEF TypeOK
  <2>3. kids' \in [Nodes -> [Digits -> Pointers]]
    BY <1>1, <2>1 DEF TypeOK
  <2> QED
    BY <1>1, <2>1, <2>2, <2>3 DEF TypeOK
<1>3. \A m \in inside : key'[m] = key[m] /\ kids'[m] = kids[m]
  <2>1. \A m \in inside : m # n /\ m \in Nodes
    BY <1>1, InsideType
  <2> QED
    BY <1>1, <2>1 DEF TypeOK
<1>4. ~Destroying /\ ~Destroying' /\ \A m \in Nodes : ~IsVictim(m)
  BY <1>1 DEF Destroying, IsVictim
<1>5. Shape'
  <2>1. LiveInv'
    BY <1>1, <1>3, <1>4, LiveKept
  <2>2. \A m \in inside : ~IsVictim(m)
    BY <1>4, InsideType
  <2> QED
    BY <1>1, <1>3, <2>1, <2>2, TreeKept DEF Shape
<1>6. CallInv' /\ OpInv'
  BY <1>1 DEF CallInv, OpInv
<1>7. EnumInv'
  <2>1. SeenInv'
    BY <1>1 DEF SeenInv
  <2>2. StackInv'
    BY <1>1 DEF EnumInv, StackInv
  <2> QED
    BY <2>1, <2>2 DEF EnumInv
<1>8. DetachedClean'
  BY <1>1 DEF DetachedClean, TypeOK
<1> QED
  BY <1>2, <1>5, <1>6, <1>7, <1>8

LEMMA BeginStep ==
  ASSUME StrongInv, NEW o \in {"insert", "get", "update", "delete"}, NEW k \in Keys,
         NEW n \in Pointers, NEW v \in Values \cup {NULL},
         o = "insert" => n \in Nodes /\ key[n] = k,
         Begin(o, k, n, v)
  PROVE  StrongInv'
<1>1. /\ pc = "idle" /\ pc' = "search" /\ call' = [op |-> o, key |-> k, item |-> n, val |-> v]
      /\ slot' = RootSlot /\ cur' = root /\ level' = 0
      /\ UNCHANGED <<key, data, root, kids, inside, at, stack, seen, ret>>
  BY DEF Begin, node_vars, tree_vars, enum_vars
<1> USE DEF StrongInv
<1>2. /\ slot'.node = NULL /\ slot'.idx = 0 /\ slot' \in [node : Pointers, idx : Digits]
  BY <1>1, ConstantsOK DEF ConstantsOK, RootSlot, Pointers, Digits
<1>3. TypeOK'
  <2>1. call' \in [op : {"none", "insert", "get", "update", "delete", "enumerate", "destroy"},
                   key : Keys \cup {NULL}, item : Pointers, val : Values \cup {NULL}]
    BY <1>1
  <2> QED
    BY <1>1, <1>2, <2>1 DEF TypeOK
<1>4. ~Destroying /\ ~Destroying' /\ \A m \in Nodes : ~IsVictim(m)
  BY <1>1 DEF Destroying, IsVictim
<1>5. Shape'
  <2>1. LiveInv'
    BY <1>1, <1>4, LiveKept
  <2>2. \A m \in inside : ~IsVictim(m)
    BY <1>4, InsideType
  <2> QED
    BY <1>1, <2>1, <2>2, TreeKept DEF Shape
<1>6. CallInv'
  <2>1. SlotPath' = <<>>
    BY <1>2 DEF SlotPath
  <2>2. <<>> = KeyPath(k, 0)
    BY LeadsRoot, RootPath DEF Leads
  <2>3. call'.key = k /\ call'.op = o /\ call'.item = n
    BY <1>1
  <2>4. KeyPath(call.key, level)' = KeyPath(k, 0)
    BY <1>1, <2>3 DEF KeyPath
  <2>5. \A m \in inside : Len(at[m]) >= 0
    BY InsideType
  <2> QED
    BY <1>1, <1>2, <2>1, <2>2, <2>3, <2>4, <2>5, RootPath DEF CallInv
<1>7. OpInv'
  BY <1>1 DEF OpInv
<1>8. EnumInv'
  <2>1. StackInv' /\ SeenInv'
    BY <1>1 DEF EnumInv, StackInv, SeenInv
  <2> QED
    BY <2>1 DEF EnumInv
<1> QED
  BY <1>1, <1>3, <1>5, <1>6, <1>7, <1>8, CleanKept

LEMMA CallStep ==
  ASSUME StrongInv, Call
  PROVE  StrongInv'
<1>1. ASSUME NEW n \in Nodes, key[n] # NULL, Begin("insert", key[n], n, NULL) PROVE StrongInv'
  <2>1. key[n] \in Keys /\ n \in Pointers
    BY <1>1 DEF StrongInv, TypeOK, Pointers
  <2> QED
    BY <1>1, <2>1, BeginStep
<1>2. ASSUME NEW k \in Keys, Begin("get", k, NULL, NULL) \/ Begin("delete", k, NULL, NULL)
      PROVE  StrongInv'
  BY <1>2, BeginStep DEF Pointers
<1>3. ASSUME NEW k \in Keys, NEW v \in Values, Begin("update", k, NULL, v) PROVE StrongInv'
  BY <1>3, BeginStep DEF Pointers
<1> QED
  BY <1>1, <1>2, <1>3 DEF Call

LEMMA DescendStep ==
  ASSUME StrongInv, Descend
  PROVE  StrongInv'
<1> DEFINE d == Digit(call.key, level)
<1>1. /\ pc = "search" /\ cur # NULL /\ ~Matches(cur, call.key)
      /\ slot' = [node |-> cur, idx |-> d] /\ cur' = kids[cur][d] /\ level' = level + 1
      /\ UNCHANGED <<key, data, root, kids, inside, at, pc, call, stack, seen, ret>>
  BY DEF Descend, node_vars, tree_vars, enum_vars
<1> USE DEF StrongInv
<1>2. /\ cur \in inside /\ at[cur] = SlotPath /\ SlotPath \in Paths /\ ~Destroying
      /\ level \in Nat /\ level = Len(SlotPath) /\ call.key \in Keys /\ d \in Digits
      /\ cur \in Nodes
  BY <1>1, SlotFacts, DigitType, InsideType DEF OpInv
<1> HIDE DEF d
<1>3. slot'.node = cur /\ slot'.idx = d /\ slot' \in [node : Pointers, idx : Digits]
  BY <1>1, <1>2 DEF Pointers
<1>4. TypeOK'
  <2>1. cur' \in Pointers /\ level' \in Nat
    BY <1>1, <1>2, InsideType
  <2> QED
    BY <1>1, <1>3, <2>1 DEF TypeOK
<1>5. Shape'
  <2>1. ~Destroying' /\ \A m \in inside : ~IsVictim(m)
    BY <1>1 DEF Destroying, IsVictim
  <2>2. LiveInv'
    BY <1>1, <1>2, <2>1, LiveKept
  <2> QED
    BY <1>1, <2>1, <2>2, TreeKept DEF Shape
<1>6. CallInv'
  <2>1. SlotPath' = Under(SlotPath, d)
    BY <1>1, <1>2, <1>3, InsideType DEF SlotPath, Under
  <2>2. Len(SlotPath)' = level + 1
    BY <1>2, <2>1, UnderFacts
  <2>3. Leads(call.key, Under(SlotPath, d))
    <3>1. Leads(call.key, SlotPath)
      BY <1>1, <1>2 DEF CallInv, Leads
    <3> QED
      BY <1>2, <3>1, LeadsUnder DEF d
  <2>4. KeyPath(call.key, level)' = KeyPath(call.key, level + 1)
    BY <1>1 DEF KeyPath
  <2>5. SlotPath' = KeyPath(call.key, level)'
    BY <2>1, <2>2, <2>3, <2>4 DEF Leads
  <2>6. ASSUME NEW m \in inside, key[m] = call.key PROVE Len(at[m]) >= level + 1
    <3>1. m # cur
      BY <1>1, <2>6 DEF Matches
    <3> QED
      BY <1>1, <2>6, <3>1, SearchFacts
  <2>7. cur' = kids'[slot'.node][slot'.idx] /\ slot'.node # NULL /\ slot'.node \in inside'
    BY <1>1, <1>2, <1>3
  <2>8. (pc = "search" /\ call.op = "insert")' => call'.item \in Nodes /\ key'[call'.item] = call'.key
    BY <1>1 DEF CallInv
  <2> QED
    BY <1>1, <2>2, <2>5, <2>6, <2>7, <2>8 DEF CallInv
<1>7. OpInv'
  BY <1>1 DEF OpInv
<1>8. EnumInv'
  <2>1. StackInv' /\ SeenInv'
    BY <1>1 DEF EnumInv, StackInv, SeenInv
  <2> QED
    BY <2>1 DEF EnumInv
<1> QED
  BY <1>1, <1>4, <1>5, <1>6, <1>7, <1>8, CleanKept

\* The end of a call that changes no node inside but for a data pointer.
LEMMA AnswerStep ==
  ASSUME StrongInv, pc = "search", NEW r \in Results, Return(r),
         data' \in [Nodes -> Values \cup {NULL}], UNCHANGED <<key, root, kids, inside, at>>
  PROVE  StrongInv'
<1> USE DEF StrongInv
<1>1. /\ pc' \in {"idle", "search", "rotate", "enum"} /\ call' = NoCall /\ ret' \in Results
      /\ slot' \in [node : Pointers, idx : Digits] /\ cur' \in Pointers /\ level' \in Nat
      /\ stack' = <<>> /\ seen' = <<>> /\ ~Destroying'
      /\ CallInv' /\ OpInv' /\ EnumInv'
  BY Returns
<1>2. TypeOK'
  <2>1. stack' \in Seq([node : Nodes, idx : 0 .. NB]) /\ seen' \in Seq(Nodes)
    BY <1>1
  <2> QED
    BY <1>1, <2>1, NoCallType DEF TypeOK
<1>3. Shape'
  <2>1. ~Destroying /\ \A m \in inside : ~IsVictim(m)
    BY DEF Destroying, IsVictim
  <2>2. LiveInv'
    BY <1>1, <2>1, LiveKept
  <2> QED
    BY <2>1, <2>2, TreeKept DEF Shape
<1> QED
  BY <1>1, <1>2, <1>3, CleanKept

LEMMA ResultTypes ==
  /\ \A p \in Pointers \cup Values : Zero(p) \in Results /\ Pointer(p) \in Results
  /\ NonZero \in Results /\ Void \in Results
BY DEF Zero, Pointer, NonZero, Void, Results, Pointers

LEMMA AnswersStep ==
  ASSUME StrongInv, Get \/ Update \/ InsertExists \/ DeleteMissing
  PROVE  StrongInv'
<1> USE DEF StrongInv
<1>1. CASE Get
  <2>1. Hit => cur \in Nodes /\ data[cur] \in Pointers \cup Values
    BY SlotFacts, InsideType DEF Hit, TypeOK, Pointers
  <2>2. Hit => Zero(data[cur]) \in Results
    BY <2>1, ResultTypes
  <2>3. pc = "search" /\ data' = data /\ UNCHANGED <<key, root, kids, inside, at>>
    BY <1>1 DEF Get, Hit, Miss, node_vars, tree_vars
  <2>4. data' \in [Nodes -> Values \cup {NULL}]
    BY <2>3 DEF TypeOK
  <2>5. \/ Zero(data[cur]) \in Results /\ Return(Zero(data[cur]))
        \/ Return(NonZero)
    BY <1>1, <2>2 DEF Get
  <2> QED
    BY <2>3, <2>4, <2>5, AnswerStep, ResultTypes
<1>2. CASE Update
  <2>1. pc = "search" /\ UNCHANGED <<key, root, kids, inside, at>>
    BY <1>2 DEF Update, Hit, Miss, tree_vars
  <2>2. data' \in [Nodes -> Values \cup {NULL}]
    BY <1>2, CallType DEF Update, TypeOK
  <2>3. Return(Zero(NULL)) \/ Return(NonZero)
    BY <1>2 DEF Update
  <2>4. Zero(NULL) \in Results /\ NonZero \in Results
    BY ResultTypes DEF Pointers
  <2> QED
    BY <2>1, <2>2, <2>3, <2>4, AnswerStep
<1>3. CASE InsertExists \/ DeleteMissing
  <2>1. pc = "search" /\ UNCHANGED <<data, key, root, kids, inside, at>>
    BY <1>3 DEF InsertExists, DeleteMissing, Hit, Miss, node_vars, tree_vars
  <2>2. Return(NonZero) \/ Return(Pointer(NULL))
    BY <1>3 DEF InsertExists, DeleteMissing
  <2>3. Pointer(NULL) \in Results /\ NonZero \in Results
    BY ResultTypes DEF Pointers
  <2>4. data' \in [Nodes -> Values \cup {NULL}]
    BY <2>1 DEF TypeOK
  <2> QED
    BY <2>1, <2>2, <2>3, <2>4, AnswerStep
<1> QED
  BY <1>1, <1>2, <1>3

LEMMA DeleteFoundStep ==
  ASSUME StrongInv, DeleteFound
  PROVE  StrongInv'
<1>1. /\ pc = "search" /\ cur # NULL /\ key[cur] = call.key /\ call.op = "delete"
      /\ pc' = "rotate"
      /\ UNCHANGED <<key, data, root, kids, inside, at, call, slot, cur, level, stack, seen, ret>>
  BY DEF DeleteFound, Hit, Matches, node_vars, tree_vars, loop_vars, enum_vars
<1> USE DEF StrongInv
<1>2. TypeOK'
  BY <1>1 DEF TypeOK
<1>3. Shape'
  <2>1. ~Destroying /\ ~Destroying' /\ \A m \in inside : ~IsVictim(m)
    BY <1>1 DEF Destroying, IsVictim
  <2>2. LiveInv'
    BY <1>1, <2>1, LiveKept
  <2> QED
    BY <1>1, <2>1, <2>2, TreeKept DEF Shape
<1>4. CallInv'
  <2>1. cur \in inside
    BY <1>1, SlotFacts
  <2>2. SlotPath' = SlotPath
    BY <1>1 DEF SlotPath
  <2> QED
    BY <1>1, <2>1, <2>2 DEF CallInv
<1>5. OpInv'
  BY <1>1 DEF OpInv
<1>6. EnumInv'
  <2>1. StackInv' /\ SeenInv'
    BY <1>1 DEF EnumInv, StackInv, SeenInv
  <2> QED
    BY <2>1 DEF EnumInv
<1> QED
  BY <1>1, <1>2, <1>3, <1>4, <1>5, <1>6, CleanKept

-----------------------------------------------------------------------------
(* Steps that change the tree.                                             *)

\* What *pp_root = v writes, pointer by pointer.
LEMMA StoredFacts ==
  ASSUME NEW ks \in [Nodes -> [Digits -> Pointers]], NEW v \in Pointers,
         slot \in [node : Pointers, idx : Digits]
  PROVE  /\ Stored(ks, v) \in [Nodes -> [Digits -> Pointers]]
         /\ \A n \in Nodes, i \in Digits :
              Stored(ks, v)[n][i] = IF n = slot.node /\ i = slot.idx THEN v ELSE ks[n][i]
         /\ \A n \in Nodes : n # slot.node => Stored(ks, v)[n] = ks[n]
<1>1. slot.node \in Nodes \cup {NULL} /\ slot.idx \in Digits /\ NULL \notin Nodes
  BY ConstantsOK DEF ConstantsOK, Pointers
<1>2. CASE slot.node = NULL
  BY <1>1, <1>2 DEF Stored
<1>3. CASE slot.node \in Nodes
  <2>1. ks[slot.node] \in [Digits -> Pointers]
    BY <1>3
  <2> DEFINE g == [ks[slot.node] EXCEPT ![slot.idx] = v]
  <2>2. /\ g \in [Digits -> Pointers]
        /\ \A i \in Digits : g[i] = IF i = slot.idx THEN v ELSE ks[slot.node][i]
    BY <1>1, <2>1
  <2>3. Stored(ks, v) = [ks EXCEPT ![slot.node] = g]
    BY <1>1, <1>3 DEF Stored
  <2> HIDE DEF g
  <2> QED
    BY <1>3, <2>2, <2>3
<1> QED
  BY <1>1, <1>2, <1>3

\* No node inside has the key when the search has come to a NULL pointer.
LEMMA MissFacts ==
  ASSUME TypeOK, Shape, CallInv, OpInv, Miss
  PROVE  \A n \in inside : key[n] # call.key
<1>1. pc = "search" /\ cur = NULL
  BY DEF Miss
<1> SUFFICES ASSUME NEW n \in inside, key[n] = call.key PROVE FALSE
  OBVIOUS
<1>2. n # cur
  BY <1>1, InsideType
<1> QED
  BY <1>1, <1>2, SearchFacts

LEMMA InsertAttachStep ==
  ASSUME StrongInv, InsertAttach
  PROVE  StrongInv'
<1> DEFINE item == call.item
           p == SlotPath
           s == slot.node
<1>1. /\ pc = "search" /\ cur = NULL /\ call.op = "insert"
      /\ root' = RootStored(item) /\ kids' = Stored(kids, item)
      /\ inside' = inside \cup {item} /\ at' = [at EXCEPT ![item] = p]
      /\ Return(Zero(NULL)) /\ UNCHANGED <<key, data>>
  BY DEF InsertAttach, Miss, node_vars
<1> USE DEF StrongInv
<1>2. /\ item \in Nodes /\ key[item] = call.key /\ call.key \in Keys /\ item # NULL
      /\ item \in Pointers /\ ~Destroying /\ key[item] # NULL
  BY <1>1, ConstantsOK DEF ConstantsOK, CallInv, OpInv, Destroying, Pointers
<1>3. \A n \in inside : key[n] # call.key
  BY <1>1, MissFacts DEF Miss
<1>4. item \notin inside
  BY <1>2, <1>3
<1>5. kids[item] = NoKids
  BY <1>2, <1>4 DEF DetachedClean
<1>6. /\ p \in Paths /\ \A n \in inside : at[n] # p
      /\ s = NULL => p = <<>> /\ root = NULL
      /\ s # NULL => s \in inside /\ p = Under(at[s], slot.idx) /\ kids[s][slot.idx] = NULL
                     /\ root # NULL /\ slot.idx \in Digits /\ p # <<>>
  BY <1>1, SlotFacts, InsideType
<1>7. s = NULL => inside = {}
  BY <1>6 DEF Shape, RootInv
<1>8. /\ kids' \in [Nodes -> [Digits -> Pointers]]
      /\ \A n \in Nodes, i \in Digits :
           kids'[n][i] = IF n = s /\ i = slot.idx THEN item ELSE kids[n][i]
      /\ \A n \in Nodes : n # s => kids'[n] = kids[n]
  <2>1. kids \in [Nodes -> [Digits -> Pointers]] /\ slot \in [node : Pointers, idx : Digits]
    BY DEF TypeOK
  <2>2. kids' = Stored(kids, item) /\ item \in Pointers
    BY <1>1, <1>2
  <2> HIDE DEF item, p
  <2> QED
    BY <2>1, <2>2, StoredFacts
<1>9. root' = IF s = NULL THEN item ELSE root
  BY <1>1 DEF RootStored
<1>10. /\ at' \in [Nodes -> Paths] /\ at'[item] = p
       /\ \A n \in inside : n \in Nodes /\ n # item /\ at'[n] = at[n]
  <2>1. \A n \in inside : n \in Nodes /\ n # item
    BY <1>4, InsideType
  <2> QED
    BY <1>1, <1>2, <1>6, <2>1 DEF TypeOK
<1>11. /\ pc' \in {"idle", "search", "rotate", "enum"} /\ call' = NoCall /\ ret' \in Results
       /\ slot' \in [node : Pointers, idx : Digits] /\ cur' \in Pointers /\ level' \in Nat
       /\ stack' = <<>> /\ seen' = <<>> /\ pc' = "idle" /\ ~Destroying'
       /\ CallInv' /\ OpInv' /\ EnumInv'
  <2>1. Zero(NULL) \in Results
    BY ResultTypes DEF Pointers
  <2> QED
    BY <1>1, <2>1, Returns
<1> HIDE DEF item, p, s
<1>12. TypeOK'
  <2>1. stack' \in Seq([node : Nodes, idx : 0 .. NB]) /\ seen' \in Seq(Nodes)
    BY <1>11
  <2>2. inside' \subseteq Nodes /\ root' \in Pointers
    BY <1>1, <1>2, <1>9 DEF TypeOK
  <2> QED
    BY <1>1, <1>8, <1>10, <1>11, <2>1, <2>2, NoCallType DEF TypeOK
<1>13. RootInv'
  BY <1>1, <1>2, <1>6, <1>7, <1>9, <1>10 DEF Shape, RootInv
<1>14. KidInv'
  <2> SUFFICES ASSUME NEW n \in inside', NEW i \in Digits, key'[n] # NULL, kids'[n][i] # NULL
               PROVE  kids'[n][i] \in inside' /\ at'[kids'[n][i]] = Under(at'[n], i)
    BY DEF KidInv
  <2>1. CASE n = item
    BY <1>2, <1>4, <1>5, <1>6, <1>8, <2>1 DEF NoKids
  <2>2. CASE n # item /\ n = s /\ i = slot.idx
    BY <1>1, <1>6, <1>7, <1>8, <1>10, <2>2
  <2>3. CASE n # item /\ ~(n = s /\ i = slot.idx)
    <3>1. n \in inside /\ kids'[n][i] = kids[n][i] /\ key'[n] = key[n]
      BY <1>1, <1>8, <2>3, InsideType
    <3>2. kids[n][i] \in inside /\ at[kids[n][i]] = Under(at[n], i)
      BY <3>1 DEF Shape, KidInv
    <3> QED
      BY <1>1, <1>10, <3>1, <3>2
  <2> QED
    BY <2>1, <2>2, <2>3
<1>15. ParentInv'
  <2> SUFFICES ASSUME NEW n \in inside', at'[n] # <<>>
               PROVE  \E m \in inside', i \in Digits :
                        at'[n] = Under(at'[m], i) /\ (key'[m] # NULL => kids'[m][i] = n)
    BY DEF ParentInv
  <2>1. CASE n = item
    <3>1. s # NULL /\ s \in inside /\ slot.idx \in Digits /\ s \in Nodes
      BY <1>6, <1>10, <2>1, InsideType
    <3>2. at'[n] = Under(at'[s], slot.idx) /\ kids'[s][slot.idx] = n
      BY <1>6, <1>8, <1>10, <2>1, <3>1
    <3> QED
      BY <1>1, <3>1, <3>2
  <2>2. CASE n # item
    <3>1. n \in inside /\ n # NULL /\ at[n] # <<>> /\ at'[n] = at[n]
      BY <1>1, <1>10, <2>2, InsideType
    <3>2. PICK m \in inside, i \in Digits :
            at[n] = Under(at[m], i) /\ (key[m] # NULL => kids[m][i] = n)
      BY <3>1 DEF Shape, ParentInv
    <3>3. at'[m] = at[m] /\ m \in Nodes /\ m \in inside'
      BY <1>1, <1>10
    <3>4. key'[m] # NULL => kids'[m][i] = n
      <4>1. key[m] # NULL
        BY <1>2, InsideKeys
      <4>2. ~(m = s /\ i = slot.idx)
        BY <1>6, <3>1, <3>2, <4>1, InsideType
      <4> QED
        BY <1>8, <3>2, <3>3, <4>1, <4>2
    <3> QED
      BY <3>1, <3>2, <3>3, <3>4
  <2> QED
    BY <2>1, <2>2
<1>16. PlaceInv'
  BY <1>1, <1>6, <1>10 DEF Shape, PlaceInv
<1>17. AboveInv'
  <2> SUFFICES ASSUME NEW n \in inside', NEW l \in 0 .. Len(at'[n])
               PROVE  \E m \in inside' : at'[m] = Above(at'[n], l)
    BY DEF AboveInv
  <2>1. CASE n # item
    BY <1>1, <1>10, <2>1 DEF Shape, AboveInv
  <2>2. CASE n = item /\ l = Len(p)
    BY <1>1, <1>6, <1>10, <2>2, AboveWhole
  <2>3. CASE n = item /\ l # Len(p)
    <3>1. l \in 0 .. Len(p) /\ Len(p) \in Nat
      BY <1>6, <1>10, <2>3, PathFacts
    <3>2. s # NULL
      BY <1>6, <2>3, <3>1, PathFacts
    <3>3. s \in inside /\ p = Under(at[s], slot.idx) /\ slot.idx \in Digits /\ at[s] \in Paths
      BY <1>6, <3>2, InsideType
    <3>4. l \in 0 .. Len(at[s])
      BY <2>3, <3>1, <3>3, UnderFacts, PathFacts
    <3>5. Above(p, l) = Above(at[s], l)
      BY <3>3, <3>4, AboveUnder
    <3>6. PICK m \in inside : at[m] = Above(at[s], l)
      BY <3>3, <3>4 DEF Shape, AboveInv
    <3> QED
      BY <1>1, <1>10, <2>3, <3>5, <3>6
  <2> QED
    BY <2>1, <2>2, <2>3
<1>18. KeysInv'
  <2>1. Leads(call.key, p)
    BY <1>1, <1>6, SlotFacts DEF CallInv, Leads, p
  <2>2. \A n \in inside : Leads(key[n], at[n])
    <3>1. \A n \in inside : ~IsVictim(n)
      BY <1>1 DEF IsVictim
    <3> QED
      BY <1>2, <3>1, InsideKeys
  <2>3. \A m, n \in inside' : m # n /\ key'[m] # NULL => key'[m] # key'[n]
    BY <1>1, <1>2, <1>3 DEF Shape, KeysInv
  <2>4. \A n \in inside' : Leads(key'[n], at'[n])
    BY <1>1, <1>2, <1>10, <2>1, <2>2
  <2> QED
    BY <2>3, <2>4 DEF KeysInv
<1>19. LiveInv'
  BY <1>1, <1>2, <1>11, InsideKeys DEF LiveInv
<1>20. DetachedClean'
  <2>1. ASSUME NEW n \in Nodes \ inside', key'[n] # NULL PROVE kids'[n] = NoKids
    <3>1. n \in Nodes \ inside /\ key[n] # NULL /\ n # s
      BY <1>1, <1>6, <2>1, ConstantsOK DEF ConstantsOK
    <3> QED
      BY <1>8, <3>1 DEF DetachedClean
  <2> QED
    BY <2>1 DEF DetachedClean
<1>21. Shape'
  BY <1>13, <1>14, <1>15, <1>16, <1>17, <1>18, <1>19 DEF Shape
<1> QED
  BY <1>11, <1>12, <1>20, <1>21

\* A tree whose nodes trade places, and pointers with them, is a tree again.
LEMMA Exchange ==
  ASSUME TypeOK, RootInv, KidInv, ParentInv, PlaceInv, AboveInv,
         NEW SW \in [Nodes -> Nodes],
         \A n \in Nodes : SW[SW[n]] = n,
         \A n \in inside : SW[n] \in inside,
         \A n \in inside : key[n] # NULL,
         UNCHANGED <<key, inside>>,
         \A n \in inside : at'[n] = at[SW[n]],
         \A n \in inside, i \in Digits :
           kids'[n][i] = IF kids[SW[n]][i] = NULL THEN NULL ELSE SW[kids[SW[n]][i]],
         root' = IF root = NULL THEN NULL ELSE SW[root]
  PROVE  RootInv' /\ KidInv' /\ ParentInv' /\ PlaceInv' /\ AboveInv'
<1>1. \A n \in inside : n \in Nodes /\ n # NULL /\ SW[n] \in Nodes /\ SW[n] # NULL
  BY InsideType
<1>2. RootInv'
  BY <1>1 DEF RootInv
<1>3. PlaceInv'
  BY <1>1 DEF PlaceInv
<1>4. KidInv'
  <2> SUFFICES ASSUME NEW n \in inside, NEW i \in Digits, kids'[n][i] # NULL
               PROVE  kids'[n][i] \in inside /\ at'[kids'[n][i]] = Under(at'[n], i)
    BY DEF KidInv
  <2> DEFINE k == kids[SW[n]][i]
  <2>1. k # NULL /\ kids'[n][i] = SW[k]
    OBVIOUS
  <2>2. k \in inside /\ at[k] = Under(at[SW[n]], i)
    BY <2>1 DEF KidInv
  <2>3. SW[k] \in inside /\ at'[SW[k]] = at[k]
    BY <1>1, <2>2
  <2> QED
    BY <2>1, <2>2, <2>3
<1>5. ParentInv'
  <2> SUFFICES ASSUME NEW n \in inside, at'[n] # <<>>
               PROVE  \E m \in inside, i \in Digits :
                        at'[n] = Under(at'[m], i) /\ (key'[m] # NULL => kids'[m][i] = n)
    BY DEF ParentInv
  <2>1. SW[n] \in inside /\ at[SW[n]] # <<>>
    OBVIOUS
  <2>2. PICK m \in inside, i \in Digits :
          at[SW[n]] = Under(at[m], i) /\ (key[m] # NULL => kids[m][i] = SW[n])
    BY <2>1 DEF ParentInv
  <2>3. SW[m] \in inside /\ at'[SW[m]] = at[m] /\ SW[SW[m]] = m
    BY <1>1
  <2>4. kids[m][i] = SW[n] /\ SW[n] # NULL
    BY <1>1, <2>2
  <2>5. kids'[SW[m]][i] = n
    BY <1>1, <2>3, <2>4
  <2> QED
    BY <2>2, <2>3, <2>5
<1>6. AboveInv'
  <2> SUFFICES ASSUME NEW n \in inside, NEW l \in 0 .. Len(at'[n])
               PROVE  \E m \in inside : at'[m] = Above(at'[n], l)
    BY DEF AboveInv
  <2>1. PICK m \in inside : at[m] = Above(at[SW[n]], l)
    BY DEF AboveInv
  <2>2. SW[m] \in inside /\ at'[SW[m]] = at[m]
    BY <1>1
  <2> QED
    BY <2>1, <2>2
<1> QED
  BY <1>2, <1>3, <1>4, <1>5, <1>6

\* The pointers to and from the victim and its child.
LEMMA RotateFacts ==
  ASSUME TypeOK, Shape, CallInv, pc = "rotate", NEW i \in Digits, kids[cur][i] # NULL
  PROVE  LET k == kids[cur][i]
         IN  /\ cur \in inside /\ cur # NULL /\ k \in inside /\ k # cur
             /\ at[cur] = SlotPath /\ at[k] = Under(at[cur], i)
             /\ slot.node # k /\ slot.node # cur
             /\ \A n \in inside, j \in Digits :
                  /\ kids[n][j] = cur => n = slot.node /\ j = slot.idx
                  /\ kids[n][j] = k => n = cur /\ j = i
<1> DEFINE k == kids[cur][i]
<1>1. cur \in inside /\ cur # NULL /\ at[cur] = SlotPath /\ ~Destroying
  <2>1. cur \in inside
    BY DEF CallInv
  <2> QED
    BY <2>1, SlotFacts, InsideType
<1>2. key[cur] # NULL /\ \A n \in inside : key[n] # NULL
  BY <1>1, InsideKeys
<1>3. k \in inside /\ at[k] = Under(at[cur], i)
  BY <1>1, <1>2 DEF Shape, KidInv
<1>4. at[cur] \in Paths /\ Len(at[cur]) \in Nat /\ at[k] # <<>> /\ Len(at[k]) = Len(at[cur]) + 1
  BY <1>1, <1>3, InsideType, UnderFacts
<1>5. k # cur
  BY <1>4
<1>6. slot.node # NULL => /\ slot.node \in inside /\ at[cur] = Under(at[slot.node], slot.idx)
                          /\ slot.idx \in Digits /\ at[slot.node] \in Paths
  BY <1>1, SlotFacts, InsideType
<1>7. slot.node # NULL => Len(at[cur]) = Len(at[slot.node]) + 1
  BY <1>6, UnderFacts
<1>8. slot.node = NULL => at[cur] = <<>>
  BY <1>1, SlotFacts
<1>9. slot.node # k /\ slot.node # cur
  <2>1. k # NULL
    BY <1>3, InsideType
  <2>2. CASE slot.node = NULL
    BY <1>1, <2>1, <2>2
  <2>3. CASE slot.node # NULL
    <3>1. Len(at[slot.node]) \in Nat
      BY <1>6, PathFacts
    <3> QED
      BY <1>4, <1>7, <2>3, <3>1
  <2> QED
    BY <2>2, <2>3
<1> HIDE DEF k
<1>10. ASSUME NEW n \in inside, NEW j \in Digits, kids[n][j] = cur
       PROVE  n = slot.node /\ j = slot.idx
  <2>1. at[cur] = Under(at[n], j) /\ at[n] \in Paths
    BY <1>1, <1>2, <1>10, InsideType DEF Shape, KidInv
  <2>2. slot.node # NULL
    BY <1>8, <2>1, UnderFacts
  <2>3. at[n] = at[slot.node] /\ j = slot.idx
    <3>1. Under(at[n], j) = Under(at[slot.node], slot.idx)
      BY <1>6, <2>1, <2>2
    <3> QED
      BY <1>6, <2>1, <2>2, <3>1, UnderInjective
  <2> QED
    BY <1>6, <2>2, <2>3 DEF Shape, PlaceInv
<1>11. ASSUME NEW n \in inside, NEW j \in Digits, kids[n][j] = k
       PROVE  n = cur /\ j = i
  <2>1. at[k] = Under(at[n], j) /\ at[n] \in Paths
    BY <1>2, <1>3, <1>11, InsideType DEF Shape, KidInv
  <2>2. at[n] = at[cur] /\ j = i
    <3>1. Under(at[n], j) = Under(at[cur], i)
      BY <1>3, <2>1
    <3> QED
      BY <1>4, <2>1, <3>1, UnderInjective
  <2> QED
    BY <1>1, <2>2 DEF Shape, PlaceInv
<1> QED
  BY <1>1, <1>3, <1>5, <1>9, <1>10, <1>11 DEF k

LEMMA RotateStep ==
  ASSUME StrongInv, Rotate
  PROVE  StrongInv'
<1> DEFINE v == cur
           i == FindKid(cur, Digit(call.key, level))
           k == kids[cur][i]
           s == slot.node
           ks == [kids EXCEPT ![v] = kids[k], ![k] = [kids[v] EXCEPT ![i] = v]]
           SW == [n \in Nodes |-> IF n = v THEN k ELSE IF n = k THEN v ELSE n]
<1> USE DEF StrongInv
<1>1. /\ pc = "rotate" /\ HasKid(v) /\ root' = RootStored(k) /\ kids' = Stored(ks, k)
      /\ slot' = [node |-> k, idx |-> i] /\ level' = level + 1
      /\ at' = [at EXCEPT ![k] = at[v], ![v] = Append(at[v], i)]
      /\ UNCHANGED <<key, data, inside, pc, call, cur, stack, seen, ret>>
  BY DEF Rotate, node_vars, enum_vars
<1>2. i \in Digits /\ kids[v][i] # NULL
  <2>1. cur \in Nodes /\ Digit(call.key, level) \in Digits
    BY <1>1, SlotFacts, DigitType, InsideType DEF OpInv, CallInv
  <2> QED
    BY <1>1, <2>1, FindKidFacts
<1> HIDE DEF i
<1>3. /\ v \in inside /\ k \in inside /\ k # v /\ v \in Nodes /\ k \in Nodes
      /\ at[v] = SlotPath /\ at[k] = Under(at[v], i) /\ s # k /\ s # v
      /\ \A n \in inside, j \in Digits :
           /\ kids[n][j] = v => n = s /\ j = slot.idx
           /\ kids[n][j] = k => n = v /\ j = i
  <2>1. /\ v \in inside /\ k \in inside /\ k # v
        /\ at[v] = SlotPath /\ at[k] = Under(at[v], i) /\ s # k /\ s # v
        /\ \A n \in inside, j \in Digits :
             /\ kids[n][j] = v => n = s /\ j = slot.idx
             /\ kids[n][j] = k => n = v /\ j = i
    BY <1>1, <1>2, RotateFacts
  <2> HIDE DEF k
  <2> QED
    BY <2>1, InsideType
<1>4. /\ s = NULL => root = v
      /\ s # NULL => s \in inside /\ kids[s][slot.idx] = v /\ slot.idx \in Digits
                     /\ root # v /\ at[v] # <<>>
  BY <1>1, <1>3, SlotFacts DEF Shape, RootInv
<1>5. /\ ~Destroying /\ ~Destroying' /\ \A n \in inside : key[n] # NULL
      /\ level \in Nat /\ at[v] \in Paths /\ level = Len(at[v])
  BY <1>1, <1>3, SlotFacts, InsideKeys DEF Destroying
<1>6. /\ kids \in [Nodes -> [Digits -> Pointers]] /\ slot \in [node : Pointers, idx : Digits]
      /\ at \in [Nodes -> Paths]
  BY DEF TypeOK
<1> HIDE DEF k, s, v
<1>7. /\ ks \in [Nodes -> [Digits -> Pointers]] /\ ks[v] = kids[k]
      /\ \A j \in Digits : ks[k][j] = IF j = i THEN v ELSE kids[v][j]
      /\ \A n \in Nodes : n # v /\ n # k => ks[n] = kids[n]
  <2> DEFINE g == [kids[v] EXCEPT ![i] = v]
  <2>1. kids[v] \in [Digits -> Pointers] /\ kids[k] \in [Digits -> Pointers] /\ v \in Pointers
    BY <1>3, <1>6 DEF Pointers
  <2>2. /\ g \in [Digits -> Pointers]
        /\ \A j \in Digits : g[j] = IF j = i THEN v ELSE kids[v][j]
    BY <1>2, <2>1
  <2>3. ks = [kids EXCEPT ![v] = kids[k], ![k] = g]
    OBVIOUS
  <2> HIDE DEF g
  <2> QED
    BY <1>3, <1>6, <2>1, <2>2, <2>3
<1>8. /\ kids' \in [Nodes -> [Digits -> Pointers]]
      /\ \A n \in Nodes, j \in Digits :
           kids'[n][j] = IF n = s /\ j = slot.idx THEN k ELSE ks[n][j]
      /\ \A n \in Nodes : n # s => kids'[n] = ks[n]
  <2> HIDE DEF ks
  <2>1. k \in Pointers
    BY <1>3 DEF Pointers
  <2>2. slot \in [node : Pointers, idx : Digits] /\ ks \in [Nodes -> [Digits -> Pointers]]
    BY <1>6, <1>7
  <2>3. /\ Stored(ks, k) \in [Nodes -> [Digits -> Pointers]]
        /\ \A n \in Nodes, j \in Digits :
             Stored(ks, k)[n][j] = IF n = s /\ j = slot.idx THEN k ELSE ks[n][j]
        /\ \A n \in Nodes : n # s => Stored(ks, k)[n] = ks[n]
    BY ONLY <2>1, <2>2, StoredFacts DEF s
  <2>4. kids' = Stored(ks, k)
    BY <1>1
  <2> QED
    BY <2>3, <2>4
<1> HIDE DEF ks
<1>9. /\ at' \in [Nodes -> Paths] /\ at'[k] = at[v] /\ at'[v] = at[k]
      /\ \A n \in Nodes : n # k /\ n # v => at'[n] = at[n]
  <2>1. Append(at[v], i) = at[k] /\ at[k] \in Paths
    BY <1>3, <1>6 DEF Under
  <2> QED
    BY <1>1, <1>3, <1>5, <1>6, <2>1
<1>10. /\ SW \in [Nodes -> Nodes] /\ SW[v] = k /\ SW[k] = v
       /\ \A n \in Nodes : n # v /\ n # k => SW[n] = n
  BY <1>3
<1> HIDE DEF SW
<1>11. \A n \in Nodes : SW[SW[n]] = n
  BY <1>3, <1>10
<1>12. \A n \in inside : n \in Nodes /\ n # NULL /\ SW[n] \in inside /\ at'[n] = at[SW[n]]
  BY <1>3, <1>9, <1>10, InsideType
<1>13. \A n \in inside, j \in Digits :
         kids'[n][j] = IF kids[SW[n]][j] = NULL THEN NULL ELSE SW[kids[SW[n]][j]]
  <2> SUFFICES ASSUME NEW n \in inside, NEW j \in Digits
               PROVE  kids'[n][j] = IF kids[SW[n]][j] = NULL THEN NULL
                                    ELSE SW[kids[SW[n]][j]]
    OBVIOUS
  <2>1. n \in Nodes /\ \A m \in inside : kids[m][j] # NULL => kids[m][j] \in Nodes
    BY <1>12, InsideType DEF Pointers
  <2>2. CASE n = v
    <3>1. kids'[n][j] = kids[k][j] /\ SW[n] = k
      BY <1>3, <1>7, <1>8, <1>10, <2>1, <2>2
    <3>2. kids[k][j] # v /\ kids[k][j] # k
      BY <1>3
    <3> QED
      BY <1>3, <1>10, <2>1, <3>1, <3>2
  <2>3. CASE n = k
    <3>1. kids'[n][j] = (IF j = i THEN v ELSE kids[v][j]) /\ SW[n] = v
      BY <1>3, <1>7, <1>8, <1>10, <2>1, <2>3
    <3>2. kids[v][j] # v /\ (j # i => kids[v][j] # k) /\ kids[v][i] = k
      BY <1>3 DEF k, v
    <3> QED
      BY <1>2, <1>3, <1>10, <2>1, <3>1, <3>2, <1>12
  <2>4. CASE n # v /\ n # k
    <3>1. kids'[n][j] = (IF n = s /\ j = slot.idx THEN k ELSE kids[n][j]) /\ SW[n] = n
      BY <1>7, <1>8, <1>10, <2>1, <2>4
    <3>2. kids[n][j] # k /\ (kids[n][j] = v <=> n = s /\ j = slot.idx)
      BY <1>3, <1>4, <1>12, <2>4
    <3> QED
      BY <1>3, <1>10, <1>12, <2>1, <3>1, <3>2
  <2> QED
    BY <2>2, <2>3, <2>4
<1>14. root' = IF root = NULL THEN NULL ELSE SW[root]
  <2>1. root' = IF s = NULL THEN k ELSE root
    BY <1>1 DEF RootStored, s
  <2>2. s # NULL => root # NULL /\ root # v /\ root # k /\ root \in Nodes
    <3>1. at[k] # <<>>
      BY <1>2, <1>3, <1>5, UnderFacts
    <3>2. inside # {} => root \in inside /\ at[root] = <<>>
      BY DEF Shape, RootInv
    <3> QED
      BY <1>3, <1>4, <1>12, <3>1, <3>2
  <2> QED
    BY <1>3, <1>4, <1>10, <1>12, <2>1, <2>2
<1>15. RootInv' /\ KidInv' /\ ParentInv' /\ PlaceInv' /\ AboveInv'
  <2>1. RootInv /\ KidInv /\ ParentInv /\ PlaceInv /\ AboveInv
    BY DEF Shape
  <2> QED
    BY <1>1, <1>5, <1>10, <1>11, <1>12, <1>13, <1>14, <2>1, Exchange
<1>16. KeysInv'
  <2>1. \A m, n \in inside' : m # n /\ key'[m] # NULL => key'[m] # key'[n]
    BY <1>1 DEF Shape, KeysInv
  <2>2. ASSUME NEW n \in inside, ~IsVictim(n)' PROVE Leads(key[n], at'[n])
    <3>1. n # v
      BY <1>1, <2>2 DEF IsVictim, v
    <3>2. Leads(key[n], at[n]) /\ key[n] \in Keys
      <4>1. ~IsVictim(n)
        BY <3>1 DEF IsVictim, v
      <4> QED
        BY <1>5, <4>1, InsideKeys
    <3>3. CASE n = k
      BY <1>2, <1>3, <1>5, <1>9, <3>2, <3>3, LeadsUnder
    <3>4. CASE n # k
      BY <1>9, <1>12, <3>1, <3>2, <3>4
    <3> QED
      BY <3>3, <3>4
  <2> QED
    BY <1>1, <2>1, <2>2 DEF KeysInv
<1>17. LiveInv'
  BY <1>1, <1>5, LiveKept
<1>18. slot'.node = k /\ slot'.idx = i /\ slot' \in [node : Pointers, idx : Digits]
  BY <1>1, <1>2, <1>3 DEF Pointers
<1>19. TypeOK'
  <2>1. root' \in Pointers /\ level' \in Nat
    <3>1. SW[root] \in Pointers \/ root = NULL
      BY <1>10 DEF TypeOK, Pointers
    <3> QED
      BY <1>1, <1>5, <1>14, <3>1 DEF Pointers
  <2> QED
    BY <1>1, <1>8, <1>9, <1>18, <2>1 DEF TypeOK
<1>20. CallInv'
  <2>1. SlotPath' = Under(at[v], i)
    BY <1>3, <1>9, <1>12, <1>18 DEF SlotPath, Under
  <2>2. level' = Len(SlotPath')
    BY <1>1, <1>2, <1>5, <2>1, UnderFacts
  <2>3. kids'[k][i] = v
    BY <1>2, <1>3, <1>7, <1>8
  <2>4. call.op = "delete" /\ cur \in inside /\ key[cur] = call.key
    BY <1>1 DEF CallInv
  <2>5. pc' = "rotate" /\ cur' = v /\ slot'.node \in inside' /\ slot'.node # NULL
    BY <1>1, <1>3, <1>12, <1>18 DEF v
  <2> QED
    BY <1>1, <1>18, <2>2, <2>3, <2>4, <2>5 DEF CallInv
<1>21. OpInv'
  BY <1>1 DEF OpInv
<1>22. EnumInv'
  <2>1. stack = <<>> /\ seen = <<>>
    BY <1>1 DEF OpInv
  <2>2. StackInv' /\ SeenInv'
    BY <1>1, <2>1, RangeEmpty DEF StackInv, SeenInv
  <2> QED
    BY <2>2 DEF EnumInv
<1>23. DetachedClean'
  <2>1. ASSUME NEW n \in Nodes \ inside', key'[n] # NULL PROVE kids'[n] = NoKids
    <3>1. n \in Nodes \ inside /\ key[n] # NULL /\ n # s /\ n # v /\ n # k
      BY <1>1, <1>3, <1>4, <2>1, ConstantsOK DEF ConstantsOK
    <3> QED
      BY <1>7, <1>8, <3>1 DEF DetachedClean
  <2> QED
    BY <2>1 DEF DetachedClean
<1>24. Shape'
  BY <1>15, <1>16, <1>17 DEF Shape
<1> QED
  BY <1>19, <1>20, <1>21, <1>22, <1>23, <1>24

LEMMA DetachStep ==
  ASSUME StrongInv, Detach
  PROVE  StrongInv'
<1> DEFINE v == cur
           s == slot.node
<1> USE DEF StrongInv
<1>1. /\ pc = "rotate" /\ ~HasKid(v) /\ root' = RootStored(NULL) /\ kids' = Stored(kids, NULL)
      /\ inside' = inside \ {v} /\ at' = [at EXCEPT ![v] = <<>>]
      /\ Return(Pointer(v)) /\ UNCHANGED <<key, data>>
  BY DEF Detach, node_vars
<1>2. /\ v \in inside /\ at[v] = SlotPath /\ ~Destroying /\ v \in Nodes /\ at[v] \in Paths
      /\ v # NULL
  BY <1>1, SlotFacts, InsideType DEF CallInv
<1>3. \A n \in inside : n \in Nodes /\ n # NULL /\ key[n] # NULL /\ key[n] \in Keys
  BY <1>2, InsideType, InsideKeys
<1>4. /\ s = NULL => root = v /\ at[v] = <<>>
      /\ s # NULL => /\ s \in inside /\ kids[s][slot.idx] = v /\ slot.idx \in Digits
                     /\ at[v] = Under(at[s], slot.idx) /\ at[v] # <<>> /\ at[s] \in Paths
  BY <1>1, <1>2, SlotFacts, InsideType
<1>5. \A i \in Digits : kids[v][i] = NULL
  BY <1>1 DEF HasKid
<1>6. s # v
  BY <1>2, <1>4, <1>5
<1>7. /\ kids' \in [Nodes -> [Digits -> Pointers]]
      /\ \A n \in Nodes, i \in Digits :
           kids'[n][i] = IF n = s /\ i = slot.idx THEN NULL ELSE kids[n][i]
      /\ \A n \in Nodes : n # s => kids'[n] = kids[n]
  <2>1. kids \in [Nodes -> [Digits -> Pointers]] /\ slot \in [node : Pointers, idx : Digits]
        /\ NULL \in Pointers
    BY DEF TypeOK, Pointers
  <2> QED
    BY <1>1, <2>1, StoredFacts
<1>8. at' \in [Nodes -> Paths] /\ \A n \in inside : n # v => at'[n] = at[n]
  BY <1>1, <1>2, <1>3, RootPath DEF TypeOK
<1>9. /\ pc' \in {"idle", "search", "rotate", "enum"} /\ call' = NoCall /\ ret' \in Results
      /\ slot' \in [node : Pointers, idx : Digits] /\ cur' \in Pointers /\ level' \in Nat
      /\ stack' = <<>> /\ seen' = <<>> /\ pc' = "idle" /\ ~Destroying'
      /\ CallInv' /\ OpInv' /\ EnumInv'
  <2>1. Pointer(v) \in Results
    BY <1>2, ResultTypes DEF Pointers
  <2> QED
    BY <1>1, <2>1, Returns
<1>10. root' = IF s = NULL THEN NULL ELSE root
  BY <1>1 DEF RootStored
<1> HIDE DEF v, s
<1>11. ASSUME NEW n \in inside, n # v, Len(at[n]) >= Len(at[v]),
              Above(at[n], Len(at[v])) = at[v]
       PROVE  FALSE
  <2>1. at[n] \in Paths /\ Len(at[n]) \in Nat /\ Len(at[v]) \in Nat
    BY <1>2, <1>11, InsideType
  <2>2. Len(at[n]) # Len(at[v])
    BY <1>2, <1>11, <2>1, AboveWhole DEF Shape, PlaceInv
  <2>3. Len(at[v]) + 1 \in 1 .. Len(at[n])
    BY <1>11, <2>1, <2>2
  <2>4. at[n][Len(at[v]) + 1] \in Digits
    BY <2>1, <2>3, PathFacts
  <2>5. Len(at[n]) > Len(at[v])
    BY <1>11, <2>1, <2>2
  <2> QED
    BY <1>2, <1>3, <1>5, <1>11, <2>4, <2>5, NoneBelow
<1>12. ASSUME NEW n \in inside, NEW i \in Digits, kids[n][i] = v
       PROVE  n = s /\ i = slot.idx
  <2>1. at[v] = Under(at[n], i) /\ at[n] \in Paths
    BY <1>2, <1>3, <1>12, InsideType DEF Shape, KidInv
  <2>2. s # NULL
    BY <1>4, <2>1, UnderFacts
  <2>3. at[n] = at[s] /\ i = slot.idx
    <3>1. Under(at[n], i) = Under(at[s], slot.idx)
      BY <1>4, <2>1, <2>2
    <3> QED
      BY <1>4, <2>1, <2>2, <3>1, UnderInjective
  <2> QED
    BY <1>4, <2>2, <2>3 DEF Shape, PlaceInv
<1>13. RootInv'
  <2>1. CASE s = NULL
    <3>1. ASSUME NEW n \in inside, n # v PROVE FALSE
      <4>1. at[n] \in Paths /\ Len(at[n]) >= 0
        BY InsideType
      <4> QED
        BY <1>4, <1>11, <2>1, <3>1, <4>1, AboveWhole, RootPath
    <3> QED
      BY <1>1, <1>2, <1>10, <2>1, <3>1 DEF RootInv
  <2>2. CASE s # NULL
    BY <1>1, <1>4, <1>6, <1>8, <1>10, <2>2 DEF Shape, RootInv
  <2> QED
    BY <2>1, <2>2
<1>14. KidInv'
  <2> SUFFICES ASSUME NEW n \in inside', NEW i \in Digits, kids'[n][i] # NULL
               PROVE  kids'[n][i] \in inside' /\ at'[kids'[n][i]] = Under(at'[n], i)
    BY DEF KidInv
  <2>1. n \in inside /\ n # v /\ n \in Nodes
    BY <1>1, <1>3
  <2>2. ~(n = s /\ i = slot.idx) /\ kids'[n][i] = kids[n][i]
    BY <1>7, <2>1
  <2>3. kids[n][i] # v
    BY <1>12, <2>1, <2>2
  <2>4. kids[n][i] \in inside /\ at[kids[n][i]] = Under(at[n], i)
    BY <1>3, <2>1, <2>2 DEF Shape, KidInv
  <2> QED
    BY <1>1, <1>8, <2>1, <2>2, <2>3, <2>4
<1>15. ParentInv'
  <2> SUFFICES ASSUME NEW n \in inside', at'[n] # <<>>
               PROVE  \E m \in inside', i \in Digits :
                        at'[n] = Under(at'[m], i) /\ (key'[m] # NULL => kids'[m][i] = n)
    BY DEF ParentInv
  <2>1. n \in inside /\ n # v /\ n # NULL /\ at'[n] = at[n]
    BY <1>1, <1>3, <1>8
  <2>2. PICK m \in inside, i \in Digits : at[n] = Under(at[m], i) /\ kids[m][i] = n
    BY <1>3, <2>1 DEF Shape, ParentInv
  <2>3. m # v
    BY <1>5, <2>1, <2>2
  <2>4. ~(m = s /\ i = slot.idx)
    BY <1>3, <1>4, <2>1, <2>2
  <2>5. kids'[m][i] = n /\ at'[m] = at[m] /\ m \in inside'
    BY <1>1, <1>3, <1>7, <1>8, <2>2, <2>3, <2>4
  <2> QED
    BY <2>1, <2>2, <2>5
<1>16. PlaceInv'
  BY <1>1, <1>8 DEF Shape, PlaceInv
<1>17. AboveInv'
  <2> SUFFICES ASSUME NEW n \in inside', NEW l \in 0 .. Len(at'[n])
               PROVE  \E m \in inside' : at'[m] = Above(at'[n], l)
    BY DEF AboveInv
  <2>1. n \in inside /\ n # v /\ at'[n] = at[n] /\ at[n] \in Paths /\ Len(at[n]) \in Nat
    BY <1>1, <1>8, InsideType
  <2>2. PICK m \in inside : at[m] = Above(at[n], l)
    BY <2>1 DEF Shape, AboveInv
  <2>3. m # v
    <3>1. Len(at[m]) = l /\ l <= Len(at[n])
      BY <2>1, <2>2, AboveFacts
    <3> QED
      BY <1>11, <2>1, <2>2, <3>1
  <2> QED
    BY <1>1, <1>8, <2>1, <2>2, <2>3
<1>18. KeysInv'
  <2>1. \A m, n \in inside' : m # n /\ key'[m] # NULL => key'[m] # key'[n]
    BY <1>1 DEF Shape, KeysInv
  <2>2. ASSUME NEW n \in inside' PROVE Leads(key'[n], at'[n])
    <3>1. n \in inside /\ n # v /\ ~IsVictim(n)
      BY <1>1 DEF IsVictim, v
    <3> QED
      BY <1>1, <1>2, <1>8, <3>1, InsideKeys
  <2> QED
    BY <2>1, <2>2 DEF KeysInv
<1>19. LiveInv'
  BY <1>1, <1>3, <1>9 DEF LiveInv
<1>20. DetachedClean'
  <2> SUFFICES ASSUME NEW n \in Nodes \ inside', key'[n] # NULL PROVE kids'[n] = NoKids
    BY DEF DetachedClean
  <2>1. CASE n = v
    <3>1. kids'[n] = kids[n] /\ kids[n] \in [Digits -> Pointers]
      BY <1>6, <1>7, <2>1 DEF TypeOK
    <3>2. \A i \in Digits : kids[n][i] = NoKids[i]
      BY <1>5, <2>1 DEF NoKids
    <3>3. NoKids \in [Digits -> Pointers]
      BY DEF NoKids, Pointers
    <3> QED
      BY <3>1, <3>2, <3>3
  <2>2. CASE n # v
    <3>1. n \in Nodes \ inside /\ key[n] # NULL /\ n # s
      BY <1>1, <1>4, <2>2, ConstantsOK DEF ConstantsOK
    <3> QED
      BY <1>7, <3>1 DEF DetachedClean
  <2> QED
    BY <2>1, <2>2
<1>21. TypeOK'
  <2>1. stack' \in Seq([node : Nodes, idx : 0 .. NB]) /\ seen' \in Seq(Nodes)
    BY <1>9
  <2>2. inside' \subseteq Nodes /\ root' \in Pointers
    BY <1>1, <1>10 DEF TypeOK, Pointers
  <2> QED
    BY <1>1, <1>7, <1>8, <1>9, <2>1, <2>2, NoCallType DEF TypeOK
<1>22. Shape'
  BY <1>13, <1>14, <1>15, <1>16, <1>17, <1>18, <1>19 DEF Shape
<1> QED
  BY <1>9, <1>20, <1>21, <1>22

-----------------------------------------------------------------------------
(* Steps of an enumeration.                                                *)

Frames == [node : Nodes, idx : 0 .. NB]

LEMMA StackType ==
  ASSUME TypeOK
  PROVE  /\ stack \in Seq(Frames) /\ Len(stack) \in Nat /\ DOMAIN stack = 1 .. Len(stack)
         /\ (stack = <<>> <=> Len(stack) = 0)
         /\ \A k \in 1 .. Len(stack) :
              stack[k] \in Frames /\ stack[k].node \in Nodes /\ stack[k].idx \in 0 .. NB
<1>1. stack \in Seq(Frames)
  BY DEF TypeOK, Frames
<1>2. \A k \in 1 .. Len(stack) : stack[k] \in Frames
  BY <1>1
<1>3. \A f \in Frames : f.node \in Nodes /\ f.idx \in 0 .. NB
  BY DEF Frames
<1> HIDE DEF Frames
<1> QED
  BY <1>1, <1>2, <1>3

LEMMA TopFacts ==
  ASSUME TypeOK, stack # <<>>
  PROVE  /\ Len(stack) \in 1 .. Len(stack) /\ Top = stack[Len(stack)] /\ Top \in Frames
         /\ Top.node \in Nodes /\ Top.idx \in 0 .. NB
         /\ Below \in Seq(Frames) /\ Len(Below) = Len(stack) - 1
         /\ \A k \in 1 .. Len(stack) - 1 : Below[k] = stack[k]
<1>1. Len(stack) \in Nat \ {0} /\ stack \in Seq(Frames)
  BY StackType
<1>2. Len(stack) \in 1 .. Len(stack) /\ Top = stack[Len(stack)]
  BY <1>1 DEF Top
<1>3. Top \in Frames /\ Top.node \in Nodes /\ Top.idx \in 0 .. NB
  BY <1>2, StackType
<1>4. /\ Below \in Seq(Frames) /\ Len(Below) = Len(stack) - 1
      /\ \A k \in 1 .. Len(stack) - 1 : Below[k] = stack[k]
  <2>1. Below = SubSeq(stack, 1, Len(stack) - 1)
    BY DEF Below
  <2>2. Len(stack) - 1 \in Nat /\ Len(stack) - 1 <= Len(stack)
    BY <1>1
  <2>3. \A k \in 1 .. Len(stack) - 1 : stack[k] \in Frames
    BY <1>1, StackType
  <2> DEFINE n == Len(stack) - 1
  <2>4. n \in Nat /\ \A k \in 1 .. n : k \in 1 .. Len(stack)
    BY <1>1
  <2> HIDE DEF n
  <2>5. Below = [k \in 1 .. n |-> stack[k]]
    BY <1>1, <2>1, <2>4 DEF n
  <2>6. \A k \in 1 .. n : stack[k] \in Frames
    BY <2>3 DEF n
  <2>7. Below \in Seq(Frames) /\ Len(Below) = n
    BY <2>4, <2>5, <2>6
  <2> QED
    BY <2>5, <2>7 DEF n
<1> QED
  BY <1>2, <1>3, <1>4

\* Nodes some frame has still to come to were not given to the callback yet.
LEMMA PendingLive ==
  ASSUME TypeOK, Shape, EnumInv, pc = "enum", NEW m \in inside, Pending(m)
  PROVE  m \notin Range(seen) /\ key[m] # NULL
<1>1. m \notin Range(seen)
  BY DEF EnumInv, SeenInv
<1> QED
  BY <1>1 DEF Shape, LiveInv

\* Such are the nodes of the frames, and the children they have still to follow.
LEMMA FramePending ==
  ASSUME TypeOK, Shape, EnumInv, NEW k \in 1 .. Len(stack)
  PROVE  /\ stack[k].node \in inside /\ Len(at[stack[k].node]) = k - 1
         /\ Above(at[stack[k].node], k - 1) = at[stack[k].node] /\ Pending(stack[k].node)
<1>1. stack[k].node \in inside /\ Len(at[stack[k].node]) = k - 1
  BY StackType DEF EnumInv, StackInv
<1>2. Above(at[stack[k].node], k - 1) = at[stack[k].node]
  BY <1>1, InsideType, AboveWhole
<1> QED
  BY <1>1, <1>2, StackType DEF Pending

LEMMA EnumBeginStep ==
  ASSUME StrongInv, NEW o \in {"enumerate", "destroy"}, EnumBegin(o)
  PROVE  StrongInv'
<1>1. /\ pc = "idle" /\ pc' = "enum" /\ call' = [NoCall EXCEPT !.op = o]
      /\ stack' = IF root = NULL THEN <<>> ELSE <<[node |-> root, idx |-> 0]>>
      /\ UNCHANGED <<key, data, root, kids, inside, at, slot, cur, level, seen, ret>>
  BY DEF EnumBegin, node_vars, tree_vars, loop_vars
<1> USE DEF StrongInv
<1>2. seen = <<>> /\ ~Destroying /\ \A m \in Nodes : ~IsVictim(m)
  BY <1>1 DEF OpInv, Destroying, IsVictim
<1>3. /\ call'.op = o
      /\ call' \in [op : {"none", "insert", "get", "update", "delete", "enumerate", "destroy"},
                    key : Keys \cup {NULL}, item : Pointers, val : Values \cup {NULL}]
  BY <1>1 DEF NoCall, Pointers
<1>4. root # NULL => root \in inside /\ root \in Nodes /\ at[root] = <<>>
  BY InsideType DEF Shape, RootInv
<1>5. TypeOK'
  <2>1. stack' \in Seq([node : Nodes, idx : 0 .. NB])
    <3>1. root # NULL => [node |-> root, idx |-> 0] \in [node : Nodes, idx : 0 .. NB]
      BY <1>4, ConstantsOK DEF ConstantsOK
    <3>2. CASE root = NULL
      BY <1>1, <3>2
    <3>3. CASE root # NULL
      <4> DEFINE f == [node |-> root, idx |-> 0]
      <4>1. f \in Frames /\ stack' = <<f>>
        BY <1>1, <3>1, <3>3 DEF Frames
      <4> HIDE DEF f
      <4>2. <<f>> \in Seq(Frames)
        BY <4>1
      <4> QED
        BY <4>1, <4>2 DEF Frames
    <3> QED
      BY <3>2, <3>3
  <2> QED
    BY <1>1, <1>3, <2>1 DEF TypeOK
<1>6. Shape'
  <2>1. LiveInv'
    BY <1>1, <1>2, RangeEmpty, InsideKeys DEF LiveInv
  <2>2. \A m \in inside : ~IsVictim(m)
    BY <1>2, InsideType
  <2> QED
    BY <1>1, <2>1, <2>2, TreeKept DEF Shape
<1>7. CallInv' /\ OpInv'
  BY <1>1, <1>3 DEF CallInv, OpInv
<1>8. EnumInv'
  <2>1. CASE root = NULL
    <3>1. inside = {} /\ stack' = <<>>
      BY <1>1, <2>1 DEF Shape, RootInv
    <3>2. StackInv'
      BY <1>1, <1>2, <3>1, RangeEmpty DEF StackInv
    <3>3. SeenInv'
      BY <1>1, <3>1 DEF SeenInv
    <3> QED
      BY <3>2, <3>3 DEF EnumInv
  <2>2. CASE root # NULL
    <3>1. /\ DOMAIN stack' = {1} /\ stack'[1].node = root /\ stack'[1].idx = 0
      BY <1>1, <2>2
    <3>2. StackInv'
      BY <1>1, <1>2, <1>4, <2>2, <3>1, RangeEmpty, RootPath DEF StackInv
    <3>3. ASSUME NEW m \in inside PROVE Pending(m)'
      <4>1. at[m] \in Paths /\ Len(at[m]) \in Nat /\ Above(at[m], 0) = <<>>
        BY InsideType, AboveWhole
      <4>2. Len(at[m]) # 0 => at[m][1] >= 0
        <5>1. Len(at[m]) # 0 => at[m][1] \in Digits
          BY <4>1, PathFacts
        <5> QED
          BY <5>1 DEF Digits
      <4> QED
        BY <1>1, <1>4, <2>2, <3>1, <4>1, <4>2 DEF Pending
    <3>4. SeenInv'
      BY <1>1, <1>2, <3>3, RangeEmpty DEF SeenInv
    <3> QED
      BY <3>2, <3>4 DEF EnumInv
  <2> QED
    BY <2>1, <2>2
<1> QED
  BY <1>1, <1>5, <1>6, <1>7, <1>8, CleanKept

LEMMA EnumDoneStep ==
  ASSUME StrongInv, EnumDone
  PROVE  StrongInv' /\ Range(seen) = inside
<1>1. /\ pc = "enum" /\ stack = <<>> /\ pc' = "idle" /\ call' = NoCall
      /\ stack' = <<>> /\ seen' = <<>> /\ ret' = Zero(NULL)
      /\ IF call.op = "destroy"
           THEN root' = NULL /\ inside' = {} /\ at' = [n \in Nodes |-> <<>>]
           ELSE UNCHANGED <<root, inside, at>>
      /\ UNCHANGED <<key, data, kids, slot, cur, level>>
  BY DEF EnumDone, EnumReturn, node_vars, loop_vars
<1> USE DEF StrongInv
<1>2. Range(seen) = inside
  <2>1. DOMAIN stack = {}
    BY <1>1
  <2>2. \A m \in inside : m \in Range(seen)
    BY <1>1, <2>1 DEF EnumInv, SeenInv, Pending
  <2> QED
    BY <2>2 DEF EnumInv, StackInv
<1>3. TypeOK'
  <2>1. Zero(NULL) \in Results /\ [n \in Nodes |-> <<>>] \in [Nodes -> Paths]
    BY ResultTypes, RootPath DEF Pointers
  <2>2. root' \in Pointers /\ inside' \subseteq Nodes /\ at' \in [Nodes -> Paths]
    BY <1>1, <2>1 DEF TypeOK, Pointers
  <2>3. stack' \in Seq([node : Nodes, idx : 0 .. NB]) /\ seen' \in Seq(Nodes)
    BY <1>1
  <2> QED
    BY <1>1, <2>1, <2>2, <2>3, NoCallType DEF TypeOK
<1>4. CallInv' /\ OpInv' /\ ~Destroying'
  BY <1>1 DEF CallInv, OpInv, Destroying
<1>5. EnumInv'
  <2>1. StackInv' /\ SeenInv'
    BY <1>1, RangeEmpty DEF StackInv, SeenInv
  <2> QED
    BY <2>1 DEF EnumInv
<1>6. CASE call.op = "destroy"
  <2>1. Shape'
    BY <1>1, <1>6 DEF Shape, RootInv, KidInv, ParentInv, PlaceInv, AboveInv, KeysInv, LiveInv
  <2>2. \A n \in inside : key[n] = NULL
    BY <1>1, <1>2, <1>6 DEF Shape, LiveInv, Destroying
  <2>3. DetachedClean'
    BY <1>1, <1>6, <2>2 DEF DetachedClean
  <2> QED
    BY <1>2, <1>3, <1>4, <1>5, <2>1, <2>3
<1>7. CASE call.op # "destroy"
  <2>1. ~Destroying /\ \A m \in inside : ~IsVictim(m)
    BY <1>1, <1>7 DEF Destroying, IsVictim
  <2>2. LiveInv'
    BY <1>1, <1>4, <1>7, <2>1, LiveKept
  <2>3. Shape'
    BY <1>1, <1>7, <2>1, <2>2, TreeKept DEF Shape
  <2> QED
    BY <1>1, <1>2, <1>3, <1>4, <1>5, <1>7, <2>3, CleanKept
<1> QED
  BY <1>6, <1>7

LEMMA EnumStopStep ==
  ASSUME StrongInv, EnumStop
  PROVE  StrongInv' /\ ret'.rc = "nonzero"
<1>1. /\ pc = "enum" /\ call.op = "enumerate" /\ pc' = "idle" /\ call' = NoCall
      /\ stack' = <<>> /\ seen' = <<>> /\ ret' = NonZero
      /\ UNCHANGED <<key, data, root, kids, inside, at, slot, cur, level>>
  BY DEF EnumStop, EnumReturn, node_vars, tree_vars, loop_vars
<1> USE DEF StrongInv
<1>2. TypeOK' /\ ret'.rc = "nonzero"
  <2>1. NonZero \in Results /\ NonZero.rc = "nonzero"
    BY ResultTypes DEF NonZero
  <2>2. stack' \in Seq([node : Nodes, idx : 0 .. NB]) /\ seen' \in Seq(Nodes)
    BY <1>1
  <2> QED
    BY <1>1, <2>1, <2>2, NoCallType DEF TypeOK
<1>3. CallInv' /\ OpInv' /\ ~Destroying' /\ ~Destroying /\ \A m \in inside : ~IsVictim(m)
  BY <1>1 DEF CallInv, OpInv, Destroying, IsVictim
<1>4. EnumInv'
  <2>1. StackInv' /\ SeenInv'
    BY <1>1, RangeEmpty DEF StackInv, SeenInv
  <2> QED
    BY <2>1 DEF EnumInv
<1>5. Shape'
  <2>1. LiveInv'
    BY <1>1, <1>3, LiveKept
  <2> QED
    BY <1>1, <1>3, <2>1, TreeKept DEF Shape
<1> QED
  BY <1>1, <1>2, <1>3, <1>4, <1>5, CleanKept

\* How one iteration of the loop over the children changes the frames.
LEMMA EnumKidFacts ==
  ASSUME TypeOK, EnumKid
  PROVE  LET N   == Len(stack)
             kid == kids[Top.node][Top.idx]
             L   == IF kid = NULL THEN N ELSE N + 1
         IN  /\ N \in Nat /\ N > 0 /\ Top.idx \in Digits /\ kid \in Pointers
             /\ stack' \in Seq(Frames) /\ Len(stack') = L /\ DOMAIN stack' = 1 .. L
             /\ \A k \in 1 .. N - 1 : stack'[k] = stack[k]
             /\ stack'[N].node = Top.node /\ stack'[N].idx = Top.idx + 1
             /\ kid # NULL => stack'[N + 1].node = kid /\ stack'[N + 1].idx = 0
<1> DEFINE N == Len(stack)
           kid == kids[Top.node][Top.idx]
           f == [Top EXCEPT !.idx = @ + 1]
           g == [node |-> kid, idx |-> 0]
           adv == Append(Below, f)
<1>1. /\ stack # <<>> /\ Top.idx < NB
      /\ stack' = IF kid = NULL THEN adv ELSE Append(adv, g)
  BY DEF EnumKid
<1>2. /\ N \in Nat /\ N > 0 /\ Top \in Frames /\ Top.node \in Nodes /\ Top.idx \in 0 .. NB
      /\ Below \in Seq(Frames) /\ Len(Below) = N - 1 /\ \A k \in 1 .. N - 1 : Below[k] = stack[k]
  BY <1>1, TopFacts, StackType
<1>3. Top.idx \in Digits /\ kid \in Pointers
  <2>1. Top.idx \in Digits
    BY <1>1, <1>2, ConstantsOK DEF ConstantsOK, Digits
  <2> QED
    BY <1>2, <2>1 DEF TypeOK
<1>4. f \in Frames /\ f.node = Top.node /\ f.idx = Top.idx + 1
  <2>1. Top.idx + 1 \in 0 .. NB
    BY <1>1, <1>2, ConstantsOK DEF ConstantsOK
  <2> QED
    BY <1>2, <2>1 DEF Frames
<1>5. kid # NULL => g \in Frames /\ g.node = kid /\ g.idx = 0
  BY <1>3, ConstantsOK DEF ConstantsOK, Frames, Pointers
<1> HIDE DEF f, g, N
<1>6. /\ adv \in Seq(Frames) /\ Len(adv) = N /\ adv[N] = f
      /\ \A k \in 1 .. N - 1 : adv[k] = stack[k]
  BY <1>2, <1>4
<1> HIDE DEF adv, kid
<1>7. CASE kid = NULL
  <2>1. DOMAIN adv = 1 .. N
    BY <1>2, <1>6
  <2> QED
    BY <1>1, <1>2, <1>3, <1>4, <1>6, <1>7, <2>1 DEF N, kid
<1>8. CASE kid # NULL
  <2>1. /\ stack' = Append(adv, g) /\ g \in Frames /\ g.node = kid /\ g.idx = 0
    BY <1>1, <1>5, <1>8
  <2>2. /\ stack' \in Seq(Frames) /\ Len(stack') = N + 1 /\ stack'[N + 1] = g
        /\ \A k \in 1 .. N : stack'[k] = adv[k]
    BY <1>2, <1>6, <2>1
  <2>3. DOMAIN stack' = 1 .. N + 1
    BY <2>2
  <2>4. \A k \in 1 .. N - 1 : k \in 1 .. N
    BY <1>2
  <2>5. N \in 1 .. N
    BY <1>2
  <2> QED
    BY <1>2, <1>3, <1>4, <1>6, <1>8, <2>1, <2>2, <2>3, <2>4, <2>5 DEF N, kid
<1> QED
  BY <1>7, <1>8

LEMMA EnumKidStep ==
  ASSUME StrongInv, EnumKid
  PROVE  StrongInv'
<1> DEFINE N == Len(stack)
           t == Top.node
           x == Top.idx
           kid == kids[t][x]
           L == IF kid = NULL THEN N ELSE N + 1
<1> USE DEF StrongInv
<1>1. /\ pc = "enum" /\ stack # <<>>
      /\ UNCHANGED <<key, data, root, kids, inside, at, pc, call, slot, cur, level, seen, ret>>
  BY DEF EnumKid, node_vars, tree_vars, loop_vars
<1>2. /\ N \in Nat /\ N > 0 /\ x \in Digits /\ kid \in Pointers
      /\ stack' \in Seq(Frames) /\ Len(stack') = L /\ DOMAIN stack' = 1 .. L
      /\ \A k \in 1 .. N - 1 : stack'[k] = stack[k]
      /\ stack'[N].node = t /\ stack'[N].idx = x + 1
      /\ kid # NULL => stack'[N + 1].node = kid /\ stack'[N + 1].idx = 0
  BY EnumKidFacts
<1>3. /\ N \in 1 .. N /\ stack[N].node = t /\ stack[N].idx = x /\ DOMAIN stack = 1 .. N
      /\ t \in inside /\ Len(at[t]) = N - 1 /\ at[t] \in Paths /\ Above(at[t], N - 1) = at[t]
      /\ t \in Nodes /\ key[t] # NULL
  <2>1. N \in 1 .. N /\ Top = stack[N]
    BY <1>1, TopFacts
  <2>2. t \in inside /\ Len(at[t]) = N - 1 /\ Above(at[t], N - 1) = at[t] /\ Pending(t)
    BY <2>1, FramePending
  <2>3. DOMAIN stack = 1 .. N
    BY StackType
  <2> QED
    BY <1>1, <2>1, <2>2, <2>3, PendingLive, InsideType
<1> HIDE DEF L, N, t, x
<1>4. kid # NULL => kid \in inside /\ at[kid] = Under(at[t], x)
  BY <1>2, <1>3 DEF Shape, KidInv
<1> HIDE DEF kid
<1>5. kid # NULL => /\ Len(at[kid]) = N /\ Above(at[kid], N - 1) = at[t] /\ at[kid][N] = x
                    /\ at[kid] \in Paths
                    /\ \A j \in 1 .. N - 1 : /\ at[kid][j] = at[t][j]
                                             /\ Above(at[kid], j - 1) = Above(at[t], j - 1)
  <2> SUFFICES ASSUME kid # NULL
               PROVE  /\ Len(at[kid]) = N /\ Above(at[kid], N - 1) = at[t] /\ at[kid][N] = x
                      /\ at[kid] \in Paths
                      /\ \A j \in 1 .. N - 1 : /\ at[kid][j] = at[t][j]
                                               /\ Above(at[kid], j - 1) = Above(at[t], j - 1)
    OBVIOUS
  <2>1. /\ Len(at[kid]) = N /\ at[kid][N] = x /\ at[kid] \in Paths
        /\ \A j \in 1 .. N - 1 : at[kid][j] = at[t][j]
    <3>1. (N - 1) + 1 = N
      BY <1>2
    <3>2. /\ Len(Under(at[t], x)) = Len(at[t]) + 1 /\ Under(at[t], x) \in Paths
          /\ Under(at[t], x)[Len(at[t]) + 1] = x
          /\ \A j \in 1 .. Len(at[t]) : Under(at[t], x)[j] = at[t][j]
      BY <1>2, <1>3, UnderFacts
    <3> QED
      BY <1>3, <1>4, <3>1, <3>2
  <2>2. \A j \in 1 .. N - 1 : j - 1 \in 0 .. Len(at[t])
    BY <1>2, <1>3
  <2>3. \A j \in 1 .. N - 1 : Above(at[kid], j - 1) = Above(at[t], j - 1)
    BY <1>2, <1>3, <1>4, <2>2, AboveUnder
  <2>4. N - 1 \in 0 .. Len(at[t])
    BY <1>2, <1>3
  <2>5. Above(at[kid], N - 1) = at[t]
    BY <1>2, <1>3, <1>4, <2>4, AboveUnder
  <2> QED
    BY <2>1, <2>3, <2>5
<1>6. \A k \in 1 .. N : /\ stack[k].node \in inside /\ Len(at[stack[k].node]) = k - 1
                        /\ \A j \in 1 .. k - 1 :
                             /\ Above(at[stack[k].node], j - 1) = at[stack[j].node]
                             /\ at[stack[k].node][j] = stack[j].idx - 1
  BY <1>3 DEF EnumInv, StackInv
<1>7. L \in Nat /\ 1 .. N \subseteq 1 .. L /\ \A k \in 1 .. L : k \in 1 .. N - 1 \/ k = N \/ (k = N + 1 /\ kid # NULL)
  BY <1>2 DEF L
<1>8. TypeOK'
  BY <1>1, <1>2 DEF TypeOK, Frames
<1>9. ~IsVictim(t) /\ \A n \in inside : ~IsVictim(n)
  BY <1>1 DEF IsVictim
<1>10. Shape'
  <2>1. LiveInv'
    BY <1>1 DEF Shape, LiveInv, Destroying
  <2> QED
    BY <1>1, <1>9, <2>1, TreeKept DEF Shape
<1>11. CallInv' /\ OpInv'
  BY <1>1 DEF CallInv, OpInv
<1>12. StackInv'
  <2>1. ASSUME NEW k \in 1 .. L
        PROVE  stack'[k].node \in inside /\ Len(at[stack'[k].node]) = k - 1
    <3>1. CASE k \in 1 .. N - 1
      <4>1. k \in 1 .. N /\ stack'[k] = stack[k]
        BY <1>2, <3>1
      <4> QED
        BY <1>6, <4>1
    <3>2. CASE k = N
      BY <1>2, <1>3, <3>2
    <3>3. CASE k = N + 1 /\ kid # NULL
      BY <1>2, <1>4, <1>5, <3>3
    <3> QED
      BY <1>7, <3>1, <3>2, <3>3
  <2>2. ASSUME NEW k \in 1 .. L, NEW j \in 1 .. k - 1
        PROVE  /\ Above(at[stack'[k].node], j - 1) = at[stack'[j].node]
               /\ at[stack'[k].node][j] = stack'[j].idx - 1
    <3>1. CASE k \in 1 .. N - 1
      <4>1. j \in 1 .. N - 1 /\ k \in 1 .. N
        BY <1>2, <3>1
      <4>2. stack'[j] = stack[j] /\ stack'[k] = stack[k]
        BY <1>2, <3>1, <4>1
      <4> QED
        BY <1>6, <4>1, <4>2
    <3>2. CASE k = N
      <4>1. j \in 1 .. N - 1 /\ stack'[j] = stack[j]
        BY <1>2, <3>2
      <4>2. Above(at[t], j - 1) = at[stack[j].node] /\ at[t][j] = stack[j].idx - 1
        BY <1>3, <1>6, <4>1
      <4> QED
        BY <1>2, <3>2, <4>1, <4>2
    <3>3. CASE k = N + 1 /\ kid # NULL /\ j # N
      <4>1. j \in 1 .. N - 1
        BY <1>2, <3>3
      <4>2. Above(at[t], j - 1) = at[stack[j].node] /\ at[t][j] = stack[j].idx - 1
        BY <1>3, <1>6, <4>1
      <4> QED
        BY <1>2, <1>5, <3>3, <4>1, <4>2
    <3>4. CASE k = N + 1 /\ kid # NULL /\ j = N
      <4>1. (x + 1) - 1 = x
        BY <1>2 DEF Digits
      <4> QED
        BY <1>2, <1>5, <3>4, <4>1
    <3> QED
      BY <1>7, <3>1, <3>2, <3>3, <3>4
  <2> QED
    BY <1>1, <1>2, <2>1, <2>2 DEF EnumInv, StackInv
<1>13. ASSUME NEW m \in inside PROVE Pending(m)' <=> Pending(m)
  <2>1. at[m] \in Paths /\ Len(at[m]) \in Nat
    BY InsideType
  <2>2. ASSUME NEW j \in 1 .. N - 1
        PROVE  j \in 1 .. N /\ j \in 1 .. L /\ stack'[j] = stack[j]
    BY <1>2, <1>7, <2>2
  <2>3. ASSUME kid # NULL, Len(at[m]) >= N, Above(at[m], N) = at[kid]
        PROVE  Above(at[m], N - 1) = at[t] /\ at[m][N] = x
    <3>1. N - 1 \in 0 .. Len(at[m]) - 1 /\ (N - 1) + 1 = N /\ N \in 0 .. Len(at[m])
          /\ N \in 1 .. Len(at[m]) /\ N - 1 \in 0 .. Len(at[m])
      BY <1>2, <2>1, <2>3
    <3>2. Above(at[m], N) = Under(Above(at[m], N - 1), at[m][N])
      BY <2>1, <3>1, AboveStep
    <3>3. Above(at[m], N - 1) \in Paths /\ at[m][N] \in Digits
      BY <2>1, <3>1, AboveFacts, PathFacts
    <3>4. Under(Above(at[m], N - 1), at[m][N]) = Under(at[t], x)
      BY <1>4, <2>3, <3>2
    <3> QED
      BY <1>2, <1>3, <3>3, <3>4, UnderInjective
  <2>4. ASSUME Len(at[m]) >= N, Above(at[m], N - 1) = at[t], at[m][N] = x
        PROVE  kid # NULL /\ Above(at[m], N) = at[kid]
    <3>1. N - 1 \in 0 .. Len(at[m]) - 1 /\ (N - 1) + 1 = N /\ N \in 0 .. Len(at[m])
      BY <1>2, <2>1, <2>4
    <3>2. Above(at[m], N) = Under(at[t], x)
      BY <2>1, <2>4, <3>1, AboveStep
    <3>3. PICK c \in inside : at[c] = Above(at[m], N)
      BY <3>1 DEF Shape, AboveInv
    <3>4. kids[t][x] = c
      BY <1>2, <1>3, <3>2, <3>3, ChildAt
    <3> QED
      BY <3>3, <3>4, InsideType DEF kid
  <2>5. ASSUME Pending(m)' PROVE Pending(m)
    <3>1. PICK j \in 1 .. L :
            /\ j - 1 <= Len(at[m]) /\ Above(at[m], j - 1) = at[stack'[j].node]
            /\ Len(at[m]) = j - 1 \/ at[m][j] >= stack'[j].idx
      BY <1>1, <1>2, <2>5 DEF Pending
    <3>2. CASE j \in 1 .. N - 1
      BY <1>3, <2>2, <3>1, <3>2 DEF Pending
    <3>3. CASE j = N
      <4>1. at[m][N] >= x + 1 => at[m][N] >= x \/ Len(at[m]) = N - 1
        <5>1. Len(at[m]) # N - 1 => N \in 1 .. Len(at[m])
          BY <1>2, <2>1, <3>1, <3>3
        <5>2. Len(at[m]) # N - 1 => at[m][N] \in Digits
          BY <2>1, <5>1, PathFacts
        <5> QED
          BY <1>2, <5>2 DEF Digits
      <4> QED
        BY <1>2, <1>3, <3>1, <3>3, <4>1 DEF Pending
    <3>4. CASE j = N + 1 /\ kid # NULL
      <4>1. Len(at[m]) >= N /\ Above(at[m], N) = at[kid] /\ N - 1 <= Len(at[m])
        BY <1>2, <2>1, <3>1, <3>4
      <4>2. Above(at[m], N - 1) = at[t] /\ at[m][N] = x /\ x >= x
        BY <1>2, <2>3, <3>4, <4>1 DEF Digits
      <4> QED
        BY <1>3, <4>1, <4>2 DEF Pending
    <3> QED
      BY <1>7, <3>2, <3>3, <3>4
  <2>6. ASSUME Pending(m) PROVE Pending(m)'
    <3>1. PICK j \in 1 .. N :
            /\ j - 1 <= Len(at[m]) /\ Above(at[m], j - 1) = at[stack[j].node]
            /\ Len(at[m]) = j - 1 \/ at[m][j] >= stack[j].idx
      BY <1>3, <2>6 DEF Pending
    <3>2. CASE j \in 1 .. N - 1
      BY <1>1, <1>2, <2>2, <3>1, <3>2 DEF Pending
    <3>3. CASE j = N
      <4>1. /\ N - 1 <= Len(at[m]) /\ Above(at[m], N - 1) = at[t]
            /\ Len(at[m]) = N - 1 \/ at[m][N] >= x
        BY <1>3, <3>1, <3>3
      <4>2. CASE Len(at[m]) = N - 1
        BY <1>1, <1>2, <1>3, <1>7, <4>1, <4>2 DEF Pending
      <4>3. CASE Len(at[m]) # N - 1
        <5>1. Len(at[m]) >= N /\ N \in 1 .. Len(at[m])
          BY <1>2, <2>1, <4>1, <4>3
        <5>2. at[m][N] \in Nat /\ x \in Nat
          BY <1>2, <2>1, <5>1, PathFacts DEF Digits
        <5>3. CASE at[m][N] = x
          <6>1. kid # NULL /\ Above(at[m], N) = at[kid]
            BY <2>4, <4>1, <5>1, <5>3
          <6>2. N + 1 \in 1 .. L /\ (N + 1) - 1 = N
            BY <1>2, <6>1 DEF L
          <6>3. Len(at[m]) = N \/ at[m][N + 1] >= 0
            <7>1. Len(at[m]) # N => N + 1 \in 1 .. Len(at[m])
              BY <1>2, <2>1, <5>1
            <7> QED
              BY <2>1, <7>1, PathFacts DEF Digits
          <6> QED
            BY <1>1, <1>2, <5>1, <6>1, <6>2, <6>3 DEF Pending
        <5>4. CASE at[m][N] # x
          <6>1. at[m][N] >= x + 1
            BY <4>1, <4>3, <5>2, <5>4
          <6> QED
            BY <1>1, <1>2, <1>3, <1>7, <4>1, <6>1 DEF Pending
        <5> QED
          BY <5>3, <5>4
      <4> QED
        BY <4>2, <4>3
    <3> QED
      BY <1>2, <3>2, <3>3
  <2> QED
    BY <2>5, <2>6
<1>14. SeenInv'
  BY <1>1, <1>13 DEF EnumInv, SeenInv
<1> QED
  BY <1>1, <1>8, <1>10, <1>11, <1>12, <1>14, CleanKept DEF EnumInv

\* When the callback is given a node, some frame below it has still to come to
\* every other node that was not given to it, and none to that node.
LEMMA VisitPending ==
  ASSUME TypeOK, Shape, EnumInv, stack # <<>>, Top.idx = NB, stack' = Below, UNCHANGED at,
         NEW m \in inside
  PROVE  Pending(m) <=> Pending(m)' \/ m = Top.node
<1> DEFINE N == Len(stack)
           t == Top.node
<1>1. /\ N \in Nat /\ N > 0 /\ N \in 1 .. N /\ stack[N].node = t /\ stack[N].idx = NB
      /\ DOMAIN stack = 1 .. N /\ DOMAIN stack' = 1 .. N - 1
      /\ \A k \in 1 .. N - 1 : stack'[k] = stack[k]
  BY TopFacts, StackType
<1>2. t \in inside /\ Len(at[t]) = N - 1 /\ Above(at[t], N - 1) = at[t] /\ Pending(t)
  BY <1>1, FramePending
<1>4. at[m] \in Paths /\ Len(at[m]) \in Nat /\ at[t] \in Paths
  BY <1>2, InsideType
<1>5. \A k \in 1 .. N - 1 : k \in 1 .. N /\ stack[k].idx \in Nat
  BY <1>1, StackType
<1> HIDE DEF N, t
<1>6. ASSUME Pending(m)' PROVE Pending(m)
  BY <1>1, <1>5, <1>6 DEF Pending
<1>7. ASSUME Pending(m), ~Pending(m)' PROVE m = t
  <2>1. PICK j \in 1 .. N :
          /\ j - 1 <= Len(at[m]) /\ Above(at[m], j - 1) = at[stack[j].node]
          /\ Len(at[m]) = j - 1 \/ at[m][j] >= stack[j].idx
    BY <1>1, <1>7 DEF Pending
  <2>2. j = N
    <3>1. SUFFICES ASSUME j \in 1 .. N - 1 PROVE FALSE
      BY <1>1
    <3> QED
      BY <1>1, <1>7, <2>1, <3>1 DEF Pending
  <2>3. Len(at[m]) = N - 1
    <3>1. SUFFICES ASSUME Len(at[m]) # N - 1 PROVE FALSE
      OBVIOUS
    <3>2. N \in 1 .. Len(at[m]) /\ at[m][N] >= NB
      BY <1>1, <1>4, <2>1, <2>2, <3>1
    <3>3. at[m][N] \in Digits
      BY <1>4, <3>2, PathFacts
    <3> QED
      BY <3>2, <3>3, ConstantsOK DEF ConstantsOK, Digits
  <2>4. at[m] = at[t]
    <3>1. Above(at[m], Len(at[m])) = at[t]
      BY <1>1, <2>1, <2>2, <2>3
    <3> QED
      BY <1>4, <3>1, AboveWhole
  <2> QED
    BY <1>2, <2>4 DEF Shape, PlaceInv
<1>8. Pending(t)
  BY <1>2
<1> QED
  BY <1>6, <1>7, <1>8 DEF t

\* No frame has still to come to the node of the frame that ends.
LEMMA VisitedNotPending ==
  ASSUME TypeOK, Shape, EnumInv, stack # <<>>, stack' = Below, UNCHANGED at,
         NEW t \in inside, t = Top.node
  PROVE  ~Pending(t)'
<1> DEFINE N == Len(stack)
<1>1. /\ N \in Nat /\ N > 0 /\ N \in 1 .. N /\ stack[N].node = t
      /\ DOMAIN stack = 1 .. N /\ DOMAIN stack' = 1 .. N - 1
      /\ \A k \in 1 .. N - 1 : stack'[k] = stack[k]
  BY TopFacts, StackType
<1>2. Len(at[t]) = N - 1
  BY <1>1, FramePending
<1> HIDE DEF N
<1>3. \A j \in 1 .. N - 1 : at[t][j] = stack[j].idx - 1 /\ stack[j].idx \in Nat
  <2>1. \A k \in 1 .. N : \A j \in 1 .. k - 1 : at[stack[k].node][j] = stack[j].idx - 1
    BY <1>1 DEF EnumInv, StackInv
  <2>2. \A j \in 1 .. N - 1 : stack[j].idx \in Nat
    BY <1>1, StackType
  <2> QED
    BY <1>1, <2>1, <2>2
<1>4. ASSUME Pending(t)' PROVE FALSE
  <2>1. PICK j \in 1 .. N - 1 :
          Len(at[t]) = j - 1 \/ at[t][j] >= stack'[j].idx
    BY <1>1, <1>4 DEF Pending
  <2>2. Len(at[t]) # j - 1 /\ stack'[j] = stack[j]
    BY <1>1, <1>2
  <2> QED
    BY <1>3, <2>1, <2>2
<1> QED
  BY <1>4

LEMMA EnumVisitStep ==
  ASSUME StrongInv, EnumVisit
  PROVE  StrongInv'
<1> USE DEF StrongInv
<1>0. PICK t \in inside : t = Top.node
  <2>1. stack # <<>>
    BY DEF EnumVisit
  <2> QED
    BY <2>1, TopFacts, FramePending
<1>1. /\ pc = "enum" /\ stack # <<>> /\ Top.idx = NB
      /\ seen' = Append(seen, t) /\ stack' = Below
      /\ UNCHANGED <<root, inside, at, pc, call, slot, cur, level, ret>>
  BY <1>0 DEF EnumVisit, loop_vars
<1>2. /\ t \in inside /\ t \in Nodes /\ ~Pending(t)'
      /\ \A m \in inside : Pending(m) <=> Pending(m)' \/ m = t
  BY <1>0, <1>1, VisitPending, VisitedNotPending, TopFacts
<1>3. /\ call.op = "destroy" =>
           /\ key' = [key EXCEPT ![t] = NULL] /\ data' = [data EXCEPT ![t] = NULL]
           /\ kids' = [kids EXCEPT ![t] = Dirty(t)]
      /\ call.op # "destroy" => UNCHANGED <<key, data, kids>>
  BY <1>0 DEF EnumVisit, Callback, node_vars
<1>4. seen' \in Seq(Nodes) /\ Range(seen') = Range(seen) \cup {t}
  BY <1>1, <1>2, RangeAppend DEF TypeOK
<1>5. TypeOK'
  <2>1. stack' \in Seq([node : Nodes, idx : 0 .. NB])
    BY <1>1, TopFacts DEF Frames
  <2>2. /\ key' \in [Nodes -> Keys \cup {NULL}] /\ data' \in [Nodes -> Values \cup {NULL}]
        /\ kids' \in [Nodes -> [Digits -> Pointers]]
    <3>1. Dirty(t) \in [Digits -> Pointers]
      BY <1>2 DEF Dirty, Pointers
    <3>2. CASE call.op = "destroy"
      <4>1. kids' \in [Nodes -> [Digits -> Pointers]]
        <5> HIDE DEF Digits, Pointers
        <5>1. kids \in [Nodes -> [Digits -> Pointers]] /\ kids' = [kids EXCEPT ![t] = Dirty(t)]
          BY <1>3, <3>2 DEF TypeOK
        <5> QED
          BY ONLY <3>1, <5>1
      <4>2. key' \in [Nodes -> Keys \cup {NULL}] /\ data' \in [Nodes -> Values \cup {NULL}]
        BY <1>3, <3>2 DEF TypeOK
      <4> QED
        BY <4>1, <4>2
    <3>3. CASE call.op # "destroy"
      BY <1>3, <3>3 DEF TypeOK
    <3> QED
      BY <3>2, <3>3
  <2> QED
    BY <1>1, <1>4, <2>1, <2>2 DEF TypeOK
<1>6. EnumInv'
  <2>1. StackInv'
    <3>1. /\ DOMAIN stack' = 1 .. Len(stack) - 1 /\ DOMAIN stack = 1 .. Len(stack)
          /\ \A k \in 1 .. Len(stack) - 1 : stack'[k] = stack[k]
          /\ Len(stack) \in Nat
      BY <1>1, TopFacts, StackType
    <3>2. \A k \in DOMAIN stack' : k \in DOMAIN stack /\ stack'[k] = stack[k]
      BY <3>1
    <3>3. \A k \in DOMAIN stack' : \A j \in 1 .. k - 1 : j \in DOMAIN stack'
      BY <3>1
    <3>4. Range(seen') \subseteq inside
      BY <1>2, <1>4 DEF EnumInv, StackInv
    <3> QED
      BY <1>1, <3>2, <3>3, <3>4 DEF EnumInv, StackInv
  <2>2. SeenInv'
    <3>1. \A m \in inside : m \in Range(seen') <=> ~Pending(m)'
      BY <1>1, <1>2, <1>4 DEF EnumInv, SeenInv
    <3> QED
      BY <1>1, <3>1 DEF SeenInv
  <2> QED
    BY <2>1, <2>2 DEF EnumInv
<1>7. CallInv' /\ OpInv'
  BY <1>1 DEF CallInv, OpInv
<1>8. \A n \in Nodes : ~IsVictim(n) /\ ~IsVictim(n)'
  BY <1>1 DEF IsVictim
<1>9. CASE call.op # "destroy"
  <2>1. ~Destroying /\ ~Destroying'
    BY <1>1, <1>9 DEF Destroying
  <2>2. LiveInv'
    BY <1>1, <1>3, <1>9, <2>1, LiveKept
  <2>3. Shape'
    BY <1>1, <1>3, <1>8, <1>9, <2>2, InsideType, TreeKept DEF Shape
  <2> QED
    BY <1>1, <1>3, <1>5, <1>6, <1>7, <1>9, <2>3, CleanKept
<1>10. CASE call.op = "destroy"
  <2>1. Destroying /\ Destroying'
    BY <1>1, <1>10 DEF Destroying
  <2>2. /\ \A n \in Nodes : n # t => key'[n] = key[n] /\ kids'[n] = kids[n]
        /\ key'[t] = NULL
    BY <1>2, <1>3, <1>10 DEF TypeOK
  <2>3. \A n \in inside : n \in Nodes
    BY InsideType
  <2>4. RootInv' /\ PlaceInv' /\ AboveInv'
    BY <1>1 DEF Shape, RootInv, PlaceInv, AboveInv
  <2>5. KidInv' /\ ParentInv'
    BY <1>1, <2>2, <2>3 DEF Shape, KidInv, ParentInv
  <2>6. KeysInv'
    <3>1. ASSUME NEW m \in inside', NEW n \in inside', m # n, key'[m] # NULL
          PROVE  key'[m] # key'[n]
      BY <1>1, <2>2, <2>3, <3>1 DEF Shape, KeysInv
    <3>2. ASSUME NEW n \in inside', key'[n] # NULL PROVE Leads(key'[n], at'[n])
      BY <1>1, <1>8, <2>2, <2>3, <3>2 DEF Shape, KeysInv
    <3> QED
      BY <3>1, <3>2 DEF KeysInv
  <2>7. LiveInv'
    BY <1>1, <1>4, <2>1, <2>2, <2>3 DEF Shape, LiveInv
  <2>8. DetachedClean'
    BY <1>1, <1>2, <2>2 DEF DetachedClean
  <2> QED
    BY <1>5, <1>6, <1>7, <2>4, <2>5, <2>6, <2>7, <2>8 DEF Shape
<1> QED
  BY <1>9, <1>10

-----------------------------------------------------------------------------
(* The invariants.                                                         *)

LEMMA StrongStep ==
  ASSUME StrongInv, [Next]_vars
  PROVE  StrongInv'
<1>1. CASE UNCHANGED vars
  <2>1. UNCHANGED <<key, data, root, kids, inside, at, pc, call, slot, cur, level, stack,
                    seen, ret>>
    BY <1>1 DEF vars, node_vars, tree_vars, loop_vars, enum_vars
  <2>2. TypeOK'
    BY <2>1 DEF StrongInv, TypeOK
  <2>3. Shape'
    <3>1. RootInv' /\ PlaceInv' /\ AboveInv' /\ KidInv' /\ ParentInv'
      BY <2>1 DEF StrongInv, Shape, RootInv, PlaceInv, AboveInv, KidInv, ParentInv
    <3>2. KeysInv'
      BY <2>1 DEF StrongInv, Shape, KeysInv, IsVictim
    <3>3. LiveInv'
      BY <2>1 DEF StrongInv, Shape, LiveInv, Destroying
    <3> QED
      BY <3>1, <3>2, <3>3 DEF Shape
  <2>4. CallInv'
    BY <2>1 DEF StrongInv, CallInv, SlotPath, KeyPath
  <2>5. OpInv'
    BY <2>1 DEF StrongInv, OpInv
  <2>6. EnumInv'
    <3>1. StackInv' /\ SeenInv'
      BY <2>1 DEF StrongInv, EnumInv, StackInv, SeenInv, Pending
    <3> QED
      BY <3>1 DEF EnumInv
  <2>7. DetachedClean'
    BY <2>1 DEF StrongInv, DetachedClean
  <2> QED
    BY <2>2, <2>3, <2>4, <2>5, <2>6, <2>7 DEF StrongInv
<1>2. ASSUME NEW n \in Nodes, NEW k \in Keys, NEW v \in Values, NodeInit(n, k, v)
      PROVE  StrongInv'
  BY <1>2, NodeInitStep
<1>3. CASE Call
  BY <1>3, CallStep
<1>4. CASE EnumBegin("enumerate") \/ EnumBegin("destroy")
  BY <1>4, EnumBeginStep
<1>5. CASE Running
  <2>1. CASE Descend
    BY <2>1, DescendStep
  <2>2. CASE Get \/ Update \/ InsertExists \/ DeleteMissing
    BY <2>2, AnswersStep
  <2>3. CASE InsertAttach
    BY <2>3, InsertAttachStep
  <2>4. CASE DeleteFound
    BY <2>4, DeleteFoundStep
  <2>5. CASE Rotate
    BY <2>5, RotateStep
  <2>6. CASE Detach
    BY <2>6, DetachStep
  <2>7. CASE EnumKid
    BY <2>7, EnumKidStep
  <2>8. CASE EnumVisit
    BY <2>8, EnumVisitStep
  <2>9. CASE EnumDone
    BY <2>9, EnumDoneStep
  <2>10. CASE EnumStop
    BY <2>10, EnumStopStep
  <2> QED
    BY <1>5, <2>1, <2>2, <2>3, <2>4, <2>5, <2>6, <2>7, <2>8, <2>9, <2>10 DEF Running
<1> QED
  BY <1>1, <1>2, <1>3, <1>4, <1>5 DEF Next

LEMMA Strong == Spec => []StrongInv
<1>1. StrongInv /\ [Next]_vars => StrongInv'
  BY StrongStep
<1> QED
  BY <1>1, InitStrong, PTL DEF Spec

\* Outside a tear-down the strengthened shape is the tree of the specification.
LEMMA ShapeIsTree ==
  ASSUME StrongInv, ~Destroying
  PROVE  TreeInv
<1> USE DEF StrongInv
<1>1. (root = NULL) <=> (inside = {})
  BY DEF Shape, RootInv
<1>2. root # NULL => root \in inside /\ at[root] = <<>>
  BY DEF Shape, RootInv
<1>3. \A n \in inside : key[n] # NULL /\ (~IsVictim(n) => Leads(key[n], at[n]))
  BY InsideKeys
<1>4. \A n \in inside, i \in Digits :
        kids[n][i] # NULL => kids[n][i] \in inside /\ at[kids[n][i]] = Append(at[n], i)
  BY <1>3 DEF Shape, KidInv, Under
<1>5. ASSUME NEW n \in inside, at[n] # <<>>
      PROVE  \E m \in inside : at[m] = Front(at[n]) /\ kids[m][Last(at[n])] = n
  <2>1. PICK m \in inside, i \in Digits : at[n] = Under(at[m], i) /\ kids[m][i] = n
    BY <1>3, <1>5 DEF Shape, ParentInv
  <2>2. at[n] \in Paths /\ at[m] \in Paths
    BY InsideType
  <2>3. /\ Front(at[n]) \in Paths /\ Last(at[n]) \in Digits
        /\ at[n] = Under(Front(at[n]), Last(at[n]))
    BY <1>5, <2>2, ParentPath
  <2>4. Under(at[m], i) = Under(Front(at[n]), Last(at[n]))
    BY <2>1, <2>3
  <2>5. at[m] = Front(at[n]) /\ i = Last(at[n])
    <3> DEFINE q == Front(at[n])
               j == Last(at[n])
    <3>1. q \in Paths /\ j \in Digits /\ Under(at[m], i) = Under(q, j)
      BY <2>3, <2>4
    <3> HIDE DEF q, j
    <3>2. at[m] = q /\ i = j
      BY <2>2, <3>1, UnderInjective
    <3> QED
      BY <3>2 DEF q, j
  <2> QED
    BY <2>1, <2>5
<1>6. \A m, n \in inside : m # n => at[m] # at[n] /\ key[m] # key[n]
  BY <1>3 DEF Shape, PlaceInv, KeysInv
<1>7. \A n \in inside : ~IsVictim(n) => at[n] = KeyPath(key[n], Len(at[n]))
  BY <1>3 DEF Leads
<1> QED
  BY <1>1, <1>2, <1>3, <1>4, <1>5, <1>6, <1>7 DEF TreeInv

\* The pointers form a tree of exactly the nodes inside, each at the place its
\* key leads to, and every loop is where its call can go on from.
THEOREM Inductive == Spec => []IInv
<1>1. StrongInv => IInv
  BY ShapeIsTree DEF StrongInv, IInv
<1> QED
  BY <1>1, Strong, PTL

\* What delete returned may be inserted again as it is.
THEOREM CleanOutside == Spec => []DetachedClean
<1>1. StrongInv => DetachedClean
  BY DEF StrongInv
<1> QED
  BY <1>1, Strong, PTL

\* A child a frame has still to follow is still to come to.
LEMMA ChildPending ==
  ASSUME StrongInv, NEW k \in 1 .. Len(stack), NEW i \in Digits,
         pc = "enum", i >= stack[k].idx, kids[stack[k].node][i] # NULL
  PROVE  /\ kids[stack[k].node][i] \in inside /\ Pending(kids[stack[k].node][i])
<1> DEFINE t == stack[k].node
           m == kids[t][i]
<1> USE DEF StrongInv
<1>1. /\ t \in inside /\ Len(at[t]) = k - 1 /\ Pending(t) /\ at[t] \in Paths
      /\ DOMAIN stack = 1 .. Len(stack) /\ key[t] # NULL
  BY FramePending, PendingLive, StackType, InsideType
<1>2. m \in inside /\ at[m] = Under(at[t], i)
  BY <1>1 DEF Shape, KidInv
<1> HIDE DEF m, t
<1>3. Len(at[m]) = Len(at[t]) + 1 /\ at[m][Len(at[t]) + 1] = i
  BY <1>1, <1>2, UnderFacts
<1>4. Len(at[m]) = k /\ at[m][k] = i
  BY <1>1, <1>3
<1>5. Above(at[m], k - 1) = at[t]
  <2>1. k - 1 \in 0 .. Len(at[t]) /\ Len(at[t]) \in Nat
    BY <1>1, PathFacts
  <2> QED
    BY <1>1, <1>2, <2>1, AboveUnder, AboveWhole
<1>6. Pending(m)
  BY <1>1, <1>4, <1>5 DEF Pending, t
<1> QED
  BY <1>2, <1>6 DEF m, t

\* The recursion holds no node the callback has freed, and no pointer it has yet
\* to follow leads to one.
THEOREM ReadsLive == Spec => []EnumReadsLive
<1>1. ASSUME StrongInv PROVE EnumReadsLive
  <2> USE <1>1 DEF StrongInv
  <2> SUFFICES ASSUME NEW f \in Range(stack)
               PROVE  /\ key[f.node] # NULL
                      /\ \A i \in Digits : i >= f.idx /\ kids[f.node][i] # NULL =>
                           key[kids[f.node][i]] # NULL
    BY DEF EnumReadsLive
  <2>1. PICK k \in 1 .. Len(stack) : f = stack[k]
    BY StackType DEF Range
  <2>2. pc = "enum"
    BY <2>1, StackType DEF OpInv
  <2>3. key[f.node] # NULL
    BY <2>1, <2>2, FramePending, PendingLive
  <2>4. ASSUME NEW i \in Digits, i >= f.idx, kids[f.node][i] # NULL
        PROVE  key[kids[f.node][i]] # NULL
    <3>1. kids[f.node][i] \in inside /\ Pending(kids[f.node][i])
      BY <2>1, <2>2, <2>4, ChildPending
    <3> QED
      BY <2>2, <3>1, PendingLive
  <2> QED
    BY <2>3, <2>4
<1> QED
  BY <1>1, Strong, PTL

\* Only EnumVisit adds to the nodes the callback was given.
LEMMA OnlyVisits ==
  ASSUME StrongInv, [Next]_vars, seen' # seen, seen' # <<>>
  PROVE  EnumVisit
<1>1. CASE UNCHANGED vars
  BY <1>1 DEF vars, enum_vars
<1>2. ASSUME NEW n \in Nodes, NEW k \in Keys, NEW v \in Values, NodeInit(n, k, v) PROVE FALSE
  BY <1>2 DEF NodeInit, enum_vars
<1>3. CASE Call
  BY <1>3 DEF Call, Begin, enum_vars
<1>4. CASE EnumBegin("enumerate") \/ EnumBegin("destroy")
  BY <1>4 DEF EnumBegin
<1>5. CASE Running
  <2>1. CASE Descend \/ DeleteFound \/ Rotate
    BY <2>1 DEF Descend, DeleteFound, Rotate, enum_vars
  <2>2. CASE Get \/ Update \/ InsertExists \/ DeleteMissing \/ InsertAttach \/ Detach
    BY <2>2 DEF Get, Update, InsertExists, DeleteMissing, InsertAttach, Detach, Return, enum_vars
  <2>3. CASE EnumKid \/ EnumDone \/ EnumStop
    BY <2>3 DEF EnumKid, EnumDone, EnumStop, EnumReturn
  <2> QED
    BY <1>5, <2>1, <2>2, <2>3 DEF Running
<1> QED
  BY <1>1, <1>2, <1>3, <1>4, <1>5 DEF Next

\* A node strictly below another is not pending when that one's frame ends.
LEMMA BelowDone ==
  ASSUME StrongInv, stack # <<>>, Top.idx = NB, pc = "enum",
         NEW m \in inside, IsStrictPrefix(at[Top.node], at[m])
  PROVE  m \in Range(seen)
<1> DEFINE N == Len(stack)
           t == Top.node
<1> USE DEF StrongInv
<1>1. /\ N \in Nat /\ N > 0 /\ N \in 1 .. N /\ stack[N].node = t /\ stack[N].idx = NB
      /\ DOMAIN stack = 1 .. N
  BY TopFacts, StackType
<1>2. t \in inside /\ Len(at[t]) = N - 1 /\ Above(at[t], N - 1) = at[t] /\ at[t] \in Paths
  BY <1>1, FramePending, InsideType
<1>3. at[m] \in Paths /\ Len(at[m]) \in Nat
  BY InsideType
<1> HIDE DEF N, t
<1>4. \A j \in 1 .. N - 1 : at[t][j] = stack[j].idx - 1 /\ stack[j].idx \in Nat
  <2>1. \A k \in 1 .. N : \A j \in 1 .. k - 1 : at[stack[k].node][j] = stack[j].idx - 1
    BY <1>1 DEF EnumInv, StackInv
  <2>2. \A j \in 1 .. N - 1 : stack[j].idx \in Nat
    BY <1>1, StackType DEF N
  <2> QED
    BY <1>1, <2>1, <2>2
<1>5. Len(at[m]) >= N - 1 /\ Above(at[m], N - 1) = at[t] /\ at[m] # at[t]
  <2>1. /\ Len(at[t]) <= Len(at[m]) /\ Above(at[t], Len(at[t])) = Above(at[m], Len(at[t]))
        /\ at[t] # at[m]
    BY DEF IsStrictPrefix, IsPrefix, Above, t
  <2> QED
    BY <1>2, <1>3, <2>1
<1>6. Len(at[m]) >= N
  <2>1. Len(at[m]) # N - 1
    BY <1>3, <1>5, AboveWhole
  <2> QED
    BY <1>1, <1>3, <1>5, <2>1
<1>7. \A j \in 1 .. N - 1 : at[m][j] = at[t][j]
  <2>1. N - 1 \in 0 .. Len(at[m])
    BY <1>1, <1>3, <1>5
  <2>2. \A j \in 1 .. N - 1 : Above(at[m], N - 1)[j] = at[m][j]
    BY <1>3, <2>1, AboveFacts
  <2> QED
    BY <1>5, <2>2
<1>8. ASSUME Pending(m) PROVE FALSE
  <2>1. PICK j \in 1 .. N : Len(at[m]) = j - 1 \/ at[m][j] >= stack[j].idx
    BY <1>1, <1>8 DEF Pending
  <2>2. Len(at[m]) # j - 1
    BY <1>1, <1>3, <1>6
  <2>3. CASE j \in 1 .. N - 1
    BY <1>4, <1>7, <2>1, <2>2, <2>3
  <2>4. CASE j = N
    <3>1. N \in 1 .. Len(at[m])
      BY <1>1, <1>3, <1>6
    <3>2. at[m][N] \in Digits
      BY <1>3, <3>1, PathFacts
    <3> QED
      BY <1>1, <2>1, <2>2, <2>4, <3>2, ConstantsOK DEF ConstantsOK, Digits
  <2> QED
    BY <1>1, <2>3, <2>4
<1> QED
  BY <1>8 DEF EnumInv, SeenInv

\* The callback is given a node once, when it has been given everything below it,
\* and at the depth it is told.
THEOREM LeavesAreFirst == Spec => LeavesFirst
<1>1. ASSUME StrongInv, [Next]_vars, seen' # seen, seen' # <<>>
      PROVE  LET n == Last(seen') IN
             /\ n \notin Range(seen) /\ Len(stack) - 1 = Len(at[n])
             /\ \A m \in inside : IsStrictPrefix(at[n], at[m]) => m \in Range(seen)
  <2>1. EnumVisit
    BY <1>1, OnlyVisits
  <2>2. /\ pc = "enum" /\ stack # <<>> /\ Top.idx = NB /\ seen' = Append(seen, Top.node)
    BY <2>1 DEF EnumVisit
  <2>3. Last(seen') = Top.node
    <3> DEFINE n == Top.node
    <3>1. n \in Nodes /\ seen \in Seq(Nodes)
      BY <1>1, <2>2, TopFacts DEF StrongInv, TypeOK
    <3> HIDE DEF n
    <3>2. Last(Append(seen, n)) = n
      BY <3>1 DEF Last
    <3> QED
      BY <2>2, <3>2 DEF n
  <2>4. /\ Top.node \in inside /\ Len(at[Top.node]) = Len(stack) - 1 /\ Pending(Top.node)
    BY <1>1, <2>2, TopFacts, FramePending DEF StrongInv
  <2>5. Top.node \notin Range(seen)
    BY <1>1, <2>2, <2>4, PendingLive DEF StrongInv
  <2>6. \A m \in inside : IsStrictPrefix(at[Top.node], at[m]) => m \in Range(seen)
    BY <1>1, <2>2, BelowDone
  <2> QED
    BY <2>3, <2>4, <2>5, <2>6
<1> QED
  BY <1>1, Strong, PTL DEF Spec, LeavesFirst

\* An enumeration that returns zero has given every node to the callback.
THEOREM VisitsAll == Spec => EnumComplete
<1>1. ASSUME StrongInv, [Next]_vars, pc = "enum", pc' = "idle", ret'.rc = "zero"
      PROVE  Range(seen) = inside
  <2>1. CASE EnumDone
    BY <1>1, <2>1, EnumDoneStep
  <2>2. CASE EnumStop
    BY <1>1, <2>2, EnumStopStep
  <2>3. EnumDone \/ EnumStop
    <3>1. ~UNCHANGED vars
      BY <1>1 DEF vars
    <3>2. ASSUME NEW n \in Nodes, NEW k \in Keys, NEW v \in Values, NodeInit(n, k, v)
          PROVE  FALSE
      BY <1>1, <3>2 DEF NodeInit
    <3>3. ~Call /\ ~EnumBegin("enumerate") /\ ~EnumBegin("destroy")
      BY <1>1 DEF Call, Begin, EnumBegin
    <3>4. ~Descend /\ ~DeleteFound /\ ~Rotate /\ ~Detach /\ ~EnumKid /\ ~EnumVisit
      BY <1>1 DEF Descend, DeleteFound, Rotate, Detach, EnumKid, EnumVisit
    <3>5. ~Get /\ ~Update /\ ~InsertExists /\ ~DeleteMissing /\ ~InsertAttach
      BY <1>1 DEF Get, Update, InsertExists, DeleteMissing, InsertAttach, Hit, Miss
    <3> QED
      BY <1>1, <3>1, <3>2, <3>3, <3>4, <3>5 DEF Next, Running
  <2> QED
    BY <2>1, <2>2, <2>3
<1> QED
  BY <1>1, Strong, PTL DEF Spec, EnumComplete

-----------------------------------------------------------------------------
(* The dictionary implements the map of strings.                           *)

\* The map holds the nodes inside, each under its key.
MapOK ==
  /\ Map \in [Keys -> Pointers]
  /\ \A k \in Keys, n \in Nodes : Map[k] = n <=> n \in inside /\ key[n] = k

LEMMA MapHolds == StrongInv /\ ~Destroying => MapOK
<1> SUFFICES ASSUME StrongInv, ~Destroying PROVE MapOK
  OBVIOUS
<1>1. \A n \in inside : n \in Nodes /\ n # NULL
  BY InsideType DEF StrongInv
<1>2. \A m, n \in inside : key[m] = key[n] => m = n
  BY InsideKeys DEF StrongInv, Shape, KeysInv
<1>3. ASSUME NEW k \in Keys
      PROVE  /\ Map[k] \in Pointers
             /\ \A n \in Nodes : Map[k] = n <=> n \in inside /\ key[n] = k
  <2>1. CASE \A n \in inside : key[n] # k
    <3>1. Map[k] = NULL
      BY <2>1 DEF Map
    <3> QED
      BY <2>1, <3>1, ConstantsOK DEF ConstantsOK, Pointers
  <2>2. CASE \E n \in inside : key[n] = k
    <3>1. Map[k] = CHOOSE n \in inside : key[n] = k
      BY <2>2 DEF Map
    <3>2. Map[k] \in inside /\ key[Map[k]] = k
      BY <2>2, <3>1
    <3> QED
      BY <1>1, <1>2, <3>2 DEF Pointers
  <2> QED
    BY <2>1, <2>2
<1>4. Map \in [Keys -> Pointers]
  <2>1. Map = [k \in Keys |-> Map[k]]
    BY DEF Map
  <2> QED
    BY <1>3, <2>1
<1> QED
  BY <1>3, <1>4 DEF MapOK

LEMMA MapHoldsNext == StrongInv' /\ ~Destroying' => MapOK'
BY MapHolds, PTL

LEMMA MapGivenUp ==
  ASSUME Destroying
  PROVE  Map = SM!NoMap
BY DEF Map, SM!NoMap

LEMMA MapGivenUpNext ==
  ASSUME Destroying'
  PROVE  Map' = SM!NoMap
BY DEF Map, SM!NoMap

\* Two maps are one when they hold the same nodes.
LEMMA MapEqual ==
  ASSUME NEW f \in [Keys -> Pointers], NEW g \in [Keys -> Pointers],
         \A k \in Keys, n \in Nodes : f[k] = n <=> g[k] = n
  PROVE  f = g
<1>1. \A k \in Keys : f[k] = g[k]
  <2> SUFFICES ASSUME NEW k \in Keys PROVE f[k] = g[k]
    OBVIOUS
  <2>1. f[k] \in Nodes \/ f[k] = NULL
    BY DEF Pointers
  <2>2. g[k] \in Nodes \/ g[k] = NULL
    BY DEF Pointers
  <2> QED
    BY <2>1, <2>2
<1> QED
  BY <1>1

LEMMA MapSame ==
  ASSUME StrongInv, StrongInv', ~Destroying, ~Destroying', UNCHANGED inside,
         \A n \in inside : key'[n] = key[n]
  PROVE  Map' = Map
<1>1. MapOK /\ MapOK'
  BY MapHolds, MapHoldsNext
<1>2. \A k \in Keys, n \in Nodes : Map'[k] = n <=> Map[k] = n
  BY <1>1 DEF MapOK
<1>3. Map \in [Keys -> Pointers] /\ Map' \in [Keys -> Pointers]
  BY <1>1 DEF MapOK, Pointers
<1> HIDE DEF Map
<1> QED
  BY <1>2, <1>3, MapEqual

\* What the map holds under the key of a search that is over.
LEMMA SearchOver ==
  ASSUME StrongInv
  PROVE  /\ Hit => /\ cur \in inside /\ cur # NULL /\ key[cur] = call.key
                   /\ call.key \in Keys /\ Map[call.key] = cur
         /\ Miss => /\ call.key \in Keys /\ Map[call.key] = NULL
                    /\ \A n \in inside : key[n] # call.key
<1> USE DEF StrongInv
<1>1. ASSUME Hit
      PROVE  /\ cur \in inside /\ cur # NULL /\ key[cur] = call.key
             /\ call.key \in Keys /\ Map[call.key] = cur
  <2>1. pc = "search" /\ cur # NULL /\ key[cur] = call.key
    BY <1>1 DEF Hit, Matches
  <2>2. cur \in inside /\ cur \in Nodes /\ ~Destroying /\ call.key \in Keys
    BY <2>1, SlotFacts, InsideType DEF OpInv
  <2> QED
    BY <2>1, <2>2, MapHolds DEF MapOK
<1>2. ASSUME Miss
      PROVE  /\ call.key \in Keys /\ Map[call.key] = NULL
             /\ \A n \in inside : key[n] # call.key
  <2>1. pc = "search" /\ call.key \in Keys /\ ~Destroying
    BY <1>2 DEF Miss, OpInv, Destroying
  <2>2. \A n \in inside : key[n] # call.key
    BY <1>2, MissFacts
  <2>3. Map[call.key] \in Pointers /\ Map[call.key] \notin Nodes
    BY <2>1, <2>2, MapHolds DEF MapOK
  <2> QED
    BY <2>1, <2>2, <2>3 DEF Pointers
<1> QED
  BY <1>1, <1>2

\* What a call that searched and ended shows of itself.
LEMMA EndsWith ==
  ASSUME StrongInv, StrongInv', pc \in {"search", "rotate"}, NEW r, Return(r)
  PROVE  ~Destroying /\ ~Destroying' /\ call' = NoCall /\ ret' = r
BY DEF Return, Destroying

LEMMA SearchMapped ==
  ASSUME StrongInv, StrongInv', Get \/ Update \/ InsertExists \/ DeleteMissing
  PROVE  SM!Next
<1>1. pc = "search" /\ UNCHANGED <<key, inside>>
  BY DEF Get, Update, InsertExists, DeleteMissing, Hit, Miss, node_vars, tree_vars
<1>2. CASE Get
  <2>1. Return(IF Hit THEN Zero(data[cur]) ELSE NonZero) /\ (Hit \/ Miss) /\ (Miss => ~Hit)
        /\ UNCHANGED <<key, data>> /\ call.op = "get"
    BY <1>2 DEF Get, Hit, Miss, node_vars
  <2>2. /\ call' = NoCall /\ Map' = Map
        /\ ret' = IF Hit THEN Zero(data[cur]) ELSE NonZero
    BY <1>1, <2>1, EndsWith, MapSame
  <2>3. ret' = IF Map[call.key] # NULL THEN Zero(data[Map[call.key]]) ELSE NonZero
    BY <2>1, <2>2, SearchOver
  <2>4. SM!Get
    BY <2>1, <2>2, <2>3
       DEF SM!Get, SM!Answer, SM!Found, SM!NoCall, SM!Zero, SM!NonZero, NoCall, Zero, NonZero
  <2> QED
    BY <2>4 DEF SM!Next
<1>3. CASE Update
  <2>1. /\ call.op = "update" /\ UNCHANGED key
        /\ \/ Hit /\ data' = [data EXCEPT ![cur] = call.val] /\ Return(Zero(NULL))
           \/ Miss /\ Return(NonZero) /\ UNCHANGED data
    BY <1>3 DEF Update
  <2>2. CASE Hit /\ data' = [data EXCEPT ![cur] = call.val] /\ Return(Zero(NULL))
    <3>1. call' = NoCall /\ Map' = Map /\ ret' = Zero(NULL)
      BY <1>1, <2>2, EndsWith, MapSame
    <3>2. Map[call.key] = cur /\ cur # NULL
      BY <2>2, SearchOver
    <3> QED
      BY <2>1, <2>2, <3>1, <3>2
         DEF SM!Update, SM!Answer, SM!Found, SM!NoCall, SM!Zero, NoCall, Zero, SM!Next
  <2>3. CASE Miss /\ Return(NonZero) /\ UNCHANGED data
    <3>1. call' = NoCall /\ Map' = Map /\ ret' = NonZero
      BY <1>1, <2>3, EndsWith, MapSame
    <3>2. Map[call.key] = NULL
      BY <2>3, SearchOver
    <3> QED
      BY <2>1, <2>3, <3>1, <3>2
         DEF SM!Update, SM!Answer, SM!Found, SM!NoCall, SM!NonZero, NoCall, NonZero, SM!Next
  <2> QED
    BY <2>1, <2>2, <2>3
<1>4. CASE InsertExists
  <2>1. Hit /\ Return(NonZero) /\ UNCHANGED <<key, data>> /\ call.op = "insert"
    BY <1>4 DEF InsertExists, node_vars
  <2>2. call' = NoCall /\ Map' = Map /\ ret' = NonZero
    BY <1>1, <2>1, EndsWith, MapSame
  <2>3. Map[call.key] # NULL
    BY <2>1, SearchOver
  <2> QED
    BY <2>1, <2>2, <2>3
       DEF SM!Insert, SM!Answer, SM!Found, SM!NoCall, SM!NonZero, NoCall, NonZero, SM!Next
<1>5. CASE DeleteMissing
  <2>1. Miss /\ Return(Pointer(NULL)) /\ UNCHANGED <<key, data>> /\ call.op = "delete"
    BY <1>5 DEF DeleteMissing, node_vars
  <2>2. call' = NoCall /\ Map' = Map /\ ret' = Pointer(NULL)
    BY <1>1, <2>1, EndsWith, MapSame
  <2>3. Map[call.key] = NULL /\ call.key \in Keys
    BY <2>1, SearchOver
  <2>4. Map' = [Map EXCEPT ![call.key] = NULL]
    <3>1. Map = [k \in Keys |-> Map[k]]
      BY DEF Map
    <3> HIDE DEF Map
    <3> QED
      BY <2>2, <2>3, <3>1
  <2> QED
    BY <2>1, <2>2, <2>3, <2>4
       DEF SM!Delete, SM!Answer, SM!Pointer, SM!NoCall, NoCall, Pointer, SM!Next
<1> QED
  BY <1>2, <1>3, <1>4, <1>5

LEMMA AttachMapped ==
  ASSUME StrongInv, StrongInv', InsertAttach
  PROVE  SM!Next
<1>1. /\ call.op = "insert" /\ Miss /\ Return(Zero(NULL)) /\ pc = "search"
      /\ inside' = inside \cup {call.item} /\ UNCHANGED <<key, data>>
  BY DEF InsertAttach, Miss, node_vars
<1>2. ~Destroying /\ ~Destroying' /\ call' = NoCall /\ ret' = Zero(NULL)
  BY <1>1, EndsWith
<1>3. /\ call.key \in Keys /\ Map[call.key] = NULL /\ \A n \in inside : key[n] # call.key
      /\ call.item \in Nodes /\ key[call.item] = call.key
  BY <1>1, SearchOver DEF StrongInv, CallInv
<1>4. MapOK /\ MapOK'
  BY <1>2, MapHolds, MapHoldsNext
<1>5. Map' = [Map EXCEPT ![call.key] = call.item]
  <2> DEFINE g == [Map EXCEPT ![call.key] = call.item]
  <2>1. Map \in [Keys -> Pointers] /\ Map' \in [Keys -> Pointers]
    BY <1>4 DEF MapOK, Pointers
  <2>2. /\ \A k \in Keys, n \in Nodes : Map[k] = n <=> n \in inside /\ key[n] = k
        /\ \A k \in Keys, n \in Nodes : Map'[k] = n <=> n \in inside' /\ key'[n] = k
    BY <1>4 DEF MapOK
  <2> HIDE DEF Map
  <2>3. g \in [Keys -> Pointers] /\ \A k \in Keys : g[k] = IF k = call.key THEN call.item ELSE Map[k]
    BY <1>3, <2>1 DEF Pointers
  <2> HIDE DEF g
  <2>4. \A k \in Keys, n \in Nodes : Map'[k] = n <=> g[k] = n
    BY <1>1, <1>3, <2>2, <2>3
  <2>5. Map' = g
    BY <2>1, <2>3, <2>4, MapEqual
  <2> QED
    BY <2>5 DEF g
<1> QED
  BY <1>1, <1>2, <1>3, <1>5
     DEF SM!Insert, SM!Answer, SM!Found, SM!NoCall, SM!Zero, NoCall, Zero, SM!Next

LEMMA DetachMapped ==
  ASSUME StrongInv, StrongInv', Detach
  PROVE  SM!Next
<1>1. /\ pc = "rotate" /\ Return(Pointer(cur)) /\ inside' = inside \ {cur}
      /\ UNCHANGED <<key, data>>
  BY DEF Detach, node_vars
<1>2. ~Destroying /\ ~Destroying' /\ call' = NoCall /\ ret' = Pointer(cur)
  BY <1>1, EndsWith
<1>3. call.op = "delete" /\ cur \in inside /\ key[cur] = call.key /\ call.key \in Keys /\ cur \in Nodes
  BY <1>1, InsideType DEF StrongInv, CallInv, OpInv
<1>4. MapOK /\ MapOK'
  BY <1>2, MapHolds, MapHoldsNext
<1>5. Map[call.key] = cur
  BY <1>3, <1>4 DEF MapOK
<1>6. Map' = [Map EXCEPT ![call.key] = NULL]
  <2> DEFINE g == [Map EXCEPT ![call.key] = NULL]
  <2>1. Map \in [Keys -> Pointers] /\ Map' \in [Keys -> Pointers]
    BY <1>4 DEF MapOK, Pointers
  <2>2. /\ \A k \in Keys, n \in Nodes : Map[k] = n <=> n \in inside /\ key[n] = k
        /\ \A k \in Keys, n \in Nodes : Map'[k] = n <=> n \in inside' /\ key'[n] = k
    BY <1>4 DEF MapOK
  <2> HIDE DEF Map
  <2>3. g \in [Keys -> Pointers] /\ \A k \in Keys : g[k] = IF k = call.key THEN NULL ELSE Map[k]
    BY <1>3, <2>1 DEF Pointers
  <2> HIDE DEF g
  <2>4. \A m, n \in inside : key[m] = key[n] => m = n
    BY <1>2, InsideKeys DEF StrongInv, Shape, KeysInv
  <2>5. \A k \in Keys, n \in Nodes : Map'[k] = n <=> g[k] = n
    BY <1>1, <1>3, <2>2, <2>3, <2>4, ConstantsOK DEF ConstantsOK
  <2>6. Map' = g
    BY <2>1, <2>3, <2>5, MapEqual
  <2> QED
    BY <2>6 DEF g
<1> QED
  BY <1>1, <1>2, <1>3, <1>5, <1>6
     DEF SM!Delete, SM!Answer, SM!Pointer, SM!NoCall, NoCall, Pointer, SM!Next

\* The arguments of a call, one by one.
LEMMA ArgumentRecords ==
  ASSUME NEW o, NEW k, NEW n
  PROVE  /\ [SM!NoCall EXCEPT !.op = o, !.key = k] =
              [op |-> o, key |-> k, item |-> NULL, val |-> NULL]
         /\ [SM!NoCall EXCEPT !.op = o, !.key = k, !.item = n] =
              [op |-> o, key |-> k, item |-> n, val |-> NULL]
<1>1. [SM!NoCall EXCEPT !.op = o] = [op |-> o, key |-> NULL, item |-> NULL, val |-> NULL]
  BY DEF SM!NoCall
<1>2. [SM!NoCall EXCEPT !.op = o, !.key = k] = [[SM!NoCall EXCEPT !.op = o] EXCEPT !.key = k]
  OBVIOUS
<1>3. [[op |-> o, key |-> NULL, item |-> NULL, val |-> NULL] EXCEPT !.key = k] =
        [op |-> o, key |-> k, item |-> NULL, val |-> NULL]
  OBVIOUS
<1>4. [SM!NoCall EXCEPT !.op = o, !.key = k] =
        [op |-> o, key |-> k, item |-> NULL, val |-> NULL]
  BY <1>1, <1>2, <1>3
<1>5. [SM!NoCall EXCEPT !.op = o, !.key = k, !.item = n] =
        [[SM!NoCall EXCEPT !.op = o, !.key = k] EXCEPT !.item = n]
  OBVIOUS
<1>6. [[op |-> o, key |-> k, item |-> NULL, val |-> NULL] EXCEPT !.item = n] =
        [op |-> o, key |-> k, item |-> n, val |-> NULL]
  OBVIOUS
<1> QED
  BY <1>4, <1>5, <1>6

LEMMA UpdateRecord ==
  ASSUME NEW k, NEW v
  PROVE  [SM!NoCall EXCEPT !.op = "update", !.key = k, !.val = v] =
           [op |-> "update", key |-> k, item |-> NULL, val |-> v]
<1>1. [SM!NoCall EXCEPT !.op = "update", !.key = k] =
        [op |-> "update", key |-> k, item |-> NULL, val |-> NULL]
  BY ArgumentRecords
<1>2. [SM!NoCall EXCEPT !.op = "update", !.key = k, !.val = v] =
        [[SM!NoCall EXCEPT !.op = "update", !.key = k] EXCEPT !.val = v]
  OBVIOUS
<1>3. [[op |-> "update", key |-> k, item |-> NULL, val |-> NULL] EXCEPT !.val = v] =
        [op |-> "update", key |-> k, item |-> NULL, val |-> v]
  OBVIOUS
<1> QED
  BY <1>1, <1>2, <1>3

LEMMA BetweenMapped ==
  ASSUME StrongInv, StrongInv',
         \/ \E n \in Nodes, k \in Keys, v \in Values : NodeInit(n, k, v)
         \/ Call
         \/ EnumBegin("enumerate") \/ EnumBegin("destroy")
  PROVE  SM!Next
<1>1. ASSUME NEW n \in Nodes, NEW k \in Keys, NEW v \in Values, NodeInit(n, k, v)
      PROVE  SM!NodeInit(n, k, v)
  <2>1. /\ pc = "idle" /\ n \notin inside /\ key' = [key EXCEPT ![n] = k]
        /\ data' = [data EXCEPT ![n] = v] /\ ret' = Void /\ UNCHANGED <<inside, pc, call>>
    BY <1>1 DEF NodeInit
  <2>2. ~Destroying /\ ~Destroying' /\ call = NoCall
    BY <2>1 DEF Destroying, StrongInv, OpInv
  <2>3. \A m \in inside : key'[m] = key[m]
    <3>1. \A m \in inside : m \in Nodes
      BY InsideType DEF StrongInv
    <3> QED
      BY <2>1, <3>1 DEF StrongInv, TypeOK
  <2>4. Map' = Map
    BY <2>1, <2>2, <2>3, MapSame
  <2>5. \A j \in Keys : Map[j] # n
    BY <2>1, <2>2, MapHolds DEF MapOK
  <2> QED
    BY <2>1, <2>2, <2>4, <2>5 DEF SM!NodeInit, SM!Outside, SM!NoCall, SM!Void, NoCall, Void
<1>2. ASSUME NEW o \in {"insert", "get", "update", "delete"}, NEW k, NEW n, NEW v, Begin(o, k, n, v)
      PROVE  /\ call = NoCall /\ call' = [op |-> o, key |-> k, item |-> n, val |-> v]
             /\ call'.op # "destroy" /\ Map' = Map /\ UNCHANGED <<key, data, ret>>
  <2>1. /\ pc = "idle" /\ pc' = "search" /\ call' = [op |-> o, key |-> k, item |-> n, val |-> v]
        /\ UNCHANGED <<key, data, inside, ret>>
    BY <1>2 DEF Begin, node_vars, tree_vars
  <2>2. ~Destroying /\ ~Destroying' /\ call = NoCall
    BY <2>1 DEF Destroying, StrongInv, OpInv
  <2> QED
    BY <2>1, <2>2, MapSame
<1>3. CASE Call
  <2>1. ASSUME NEW n \in Nodes, key[n] # NULL, Begin("insert", key[n], n, NULL) PROVE SM!Invoke
    <3>1. /\ call = NoCall /\ Map' = Map /\ UNCHANGED <<key, data, ret>> /\ call'.op # "destroy"
          /\ call' = [op |-> "insert", key |-> key[n], item |-> n, val |-> NULL]
      BY <1>2, <2>1
    <3>2. call' = [SM!NoCall EXCEPT !.op = "insert", !.key = key[n], !.item = n]
      BY <3>1, ArgumentRecords
    <3> QED
      BY <2>1, <3>1, <3>2 DEF SM!Invoke, SM!NoCall, NoCall
  <2>2. ASSUME NEW k \in Keys, NEW o \in {"get", "delete"}, Begin(o, k, NULL, NULL) PROVE SM!Invoke
    <3>1. /\ call = NoCall /\ Map' = Map /\ UNCHANGED <<key, data, ret>> /\ call'.op # "destroy"
          /\ call' = [op |-> o, key |-> k, item |-> NULL, val |-> NULL]
      BY <1>2, <2>2
    <3>2. call' = [SM!NoCall EXCEPT !.op = o, !.key = k]
      BY <3>1, ArgumentRecords
    <3> QED
      BY <3>1, <3>2 DEF SM!Invoke, SM!NoCall, NoCall
  <2>3. ASSUME NEW k \in Keys, NEW v \in Values, Begin("update", k, NULL, v) PROVE SM!Invoke
    <3>1. /\ call = NoCall /\ Map' = Map /\ UNCHANGED <<key, data, ret>> /\ call'.op # "destroy"
          /\ call' = [op |-> "update", key |-> k, item |-> NULL, val |-> v]
      BY <1>2, <2>3
    <3>2. call' = [SM!NoCall EXCEPT !.op = "update", !.key = k, !.val = v]
      BY <3>1, UpdateRecord
    <3> QED
      BY <3>1, <3>2 DEF SM!Invoke, SM!NoCall, NoCall
  <2> QED
    BY <1>3, <2>1, <2>2, <2>3 DEF Call, SM!Next
<1>4. ASSUME NEW o \in {"enumerate", "destroy"}, EnumBegin(o) PROVE SM!Invoke
  <2>1. /\ pc = "idle" /\ pc' = "enum" /\ call' = [NoCall EXCEPT !.op = o] /\ call'.op = o
        /\ UNCHANGED <<key, data, inside, ret>>
    BY <1>4 DEF EnumBegin, node_vars, tree_vars, NoCall
  <2>2. ~Destroying /\ call = NoCall
    BY <2>1 DEF Destroying, StrongInv, OpInv
  <2>3. Map' = IF call'.op = "destroy" THEN SM!NoMap ELSE Map
    <3>1. CASE o = "destroy"
      <4>1. Destroying'
        BY <2>1, <3>1 DEF Destroying
      <4> QED
        BY <2>1, <3>1, <4>1, MapGivenUpNext
    <3>2. CASE o # "destroy"
      <4>1. ~Destroying'
        BY <2>1, <3>2 DEF Destroying
      <4> QED
        BY <2>1, <2>2, <3>2, <4>1, MapSame
    <3> QED
      BY <3>1, <3>2
  <2> QED
    BY <2>1, <2>2, <2>3 DEF SM!Invoke, SM!NoCall, NoCall
<1> QED
  BY <1>1, <1>3, <1>4 DEF SM!Next

LEMMA EnumMapped ==
  ASSUME StrongInv, StrongInv', EnumVisit \/ EnumDone \/ EnumStop
  PROVE  SM!Next \/ UNCHANGED SM!vars
<1>1. CASE EnumVisit
  <2>1. /\ pc = "enum" /\ stack # <<>> /\ UNCHANGED <<inside, pc, call, ret>>
        /\ IF call.op = "destroy"
             THEN /\ key' = [key EXCEPT ![Top.node] = NULL]
                  /\ data' = [data EXCEPT ![Top.node] = NULL]
             ELSE UNCHANGED <<key, data>>
    BY <1>1 DEF EnumVisit, Callback, node_vars
  <2>2. Top.node \in Nodes
    BY <2>1, TopFacts DEF StrongInv
  <2>3. CASE call.op = "destroy"
    <3>1. Destroying /\ Destroying'
      BY <2>1, <2>3 DEF Destroying
    <3>2. Map' = Map
      BY <3>1, MapGivenUp, MapGivenUpNext
    <3> QED
      BY <2>1, <2>2, <2>3, <3>2 DEF SM!Next, SM!NodeFree
  <2>4. CASE call.op # "destroy"
    <3>1. ~Destroying /\ ~Destroying'
      BY <2>1, <2>4 DEF Destroying
    <3>2. Map' = Map
      BY <2>1, <2>4, <3>1, MapSame
    <3> QED
      BY <2>1, <2>4, <3>2 DEF SM!vars
  <2> QED
    BY <2>3, <2>4
<1>2. CASE EnumDone
  <2>1. /\ pc = "enum" /\ pc' = "idle" /\ call' = NoCall /\ ret' = Zero(NULL)
        /\ UNCHANGED <<key, data>>
        /\ IF call.op = "destroy" THEN inside' = {} ELSE UNCHANGED inside
    BY <1>2 DEF EnumDone, EnumReturn, node_vars
  <2>2. ~Destroying'
    BY <2>1 DEF Destroying
  <2>3. Map' = Map
    <3>1. CASE call.op = "destroy"
      <4>1. Map = SM!NoMap
        BY <2>1, <3>1, MapGivenUp DEF Destroying
      <4>2. Map' = SM!NoMap
        BY <2>1, <3>1 DEF Map, SM!NoMap
      <4> QED
        BY <4>1, <4>2
    <3>2. CASE call.op # "destroy"
      BY <2>1, <2>2, <3>2, MapSame DEF Destroying
    <3> QED
      BY <3>1, <3>2
  <2>4. call.op \in {"enumerate", "destroy"}
    BY <2>1 DEF StrongInv, OpInv
  <2> QED
    BY <2>1, <2>3, <2>4 DEF SM!Next, SM!Enumerate, SM!Answer, SM!NoCall, SM!Zero, NoCall, Zero
<1>3. CASE EnumStop
  <2>1. /\ pc' = "idle" /\ call' = NoCall /\ ret' = NonZero /\ call.op = "enumerate"
        /\ UNCHANGED <<key, data, inside>>
    BY <1>3 DEF EnumStop, EnumReturn, node_vars, tree_vars
  <2>2. Map' = Map
    BY <2>1, MapSame DEF Destroying
  <2> QED
    BY <2>1, <2>2 DEF SM!Next, SM!Enumerate, SM!Answer, SM!NoCall, SM!NonZero, NoCall, NonZero
<1> QED
  BY <1>1, <1>2, <1>3

\* Steps within a call, of which a caller is told nothing.
LEMMA WithinMapped ==
  ASSUME StrongInv, StrongInv', Descend \/ DeleteFound \/ Rotate \/ EnumKid \/ UNCHANGED vars
  PROVE  UNCHANGED SM!vars
<1>1. UNCHANGED <<key, data, inside, call, ret>> /\ Destroying' = Destroying
  <2>1. CASE Descend
    BY <2>1 DEF Descend, node_vars, tree_vars, Destroying
  <2>2. CASE DeleteFound \/ Rotate
    BY <2>2 DEF DeleteFound, Rotate, Hit, node_vars, tree_vars, Destroying
  <2>3. CASE EnumKid
    BY <2>3 DEF EnumKid, node_vars, tree_vars, Destroying
  <2>4. CASE UNCHANGED vars
    BY <2>4 DEF vars, node_vars, tree_vars, Destroying
  <2> QED
    BY <2>1, <2>2, <2>3, <2>4
<1>2. Map' = Map
  BY <1>1, MapSame, MapGivenUp, MapGivenUpNext
<1> QED
  BY <1>1, <1>2 DEF SM!vars

LEMMA InitMapped == Init => SM!Init
<1> SUFFICES ASSUME Init PROVE SM!Init
  OBVIOUS
<1>1. Map = SM!NoMap
  BY DEF Init, Map, SM!NoMap
<1> QED
  BY <1>1 DEF Init, SM!Init, SM!NoCall, SM!Void, NoCall, Void

\* Trees, hashes and rotations cannot be told from a map of strings.
THEOREM Refinement == Spec => Implements
<1>1. ASSUME StrongInv, StrongInv', [Next]_vars PROVE [SM!Next]_(SM!vars)
  <2>1. CASE \/ \E n \in Nodes, k \in Keys, v \in Values : NodeInit(n, k, v)
             \/ Call
             \/ EnumBegin("enumerate") \/ EnumBegin("destroy")
    BY <1>1, <2>1, BetweenMapped
  <2>2. CASE Descend \/ DeleteFound \/ Rotate \/ EnumKid \/ UNCHANGED vars
    BY <1>1, <2>2, WithinMapped
  <2>3. CASE Get \/ Update \/ InsertExists \/ DeleteMissing
    BY <1>1, <2>3, SearchMapped
  <2>4. CASE InsertAttach
    BY <1>1, <2>4, AttachMapped
  <2>5. CASE Detach
    BY <1>1, <2>5, DetachMapped
  <2>6. CASE EnumVisit \/ EnumDone \/ EnumStop
    BY <1>1, <2>6, EnumMapped
  <2> QED
    BY <1>1, <2>1, <2>2, <2>3, <2>4, <2>5, <2>6 DEF Next, Running
<1> QED
  BY <1>1, Strong, InitMapped, PTL DEF Spec, Implements, SM!Spec

-----------------------------------------------------------------------------
(* How deep the tree is.  A chain of nodes further down than integer keys  *)
(* have digits is of strings with one integer key; a deletion may carry    *)
(* another string's node into it, but moved one of them up to do so.       *)

\* The integer key of k begins the way p goes.
Class(k, p) == \A j \in 1 .. Width : IKey[k][j] = p[j]

VictimInv ==
  pc = "rotate" /\ Len(at[cur]) >= Width =>
    \/ Class(key[cur], at[cur])
    \/ /\ Width > 0
       /\ \E m \in inside : at[m] = Above(at[cur], Width - 1) /\ Class(key[m], at[cur])

HeightInv == IsFiniteSet(inside) /\ VictimInv

LEMMA LeadsClass ==
  ASSUME NEW k \in Keys, NEW p \in Paths, Leads(k, p), Len(p) >= Width
  PROVE  Class(k, p)
<1>1. Width \in Nat /\ Len(p) \in Nat
  BY ConstantsOK, PathFacts DEF ConstantsOK
<1> SUFFICES ASSUME NEW j \in 1 .. Width PROVE IKey[k][j] = p[j]
  BY DEF Class
<1>2. j \in 1 .. Len(p) /\ j - 1 \in Nat /\ j - 1 < Width /\ (j - 1) + 1 = j
  BY <1>1
<1>3. p[j] = Digit(k, j - 1)
  BY <1>2, LeadsFacts
<1> QED
  BY <1>2, <1>3 DEF Digit

LEMMA SameFunction ==
  ASSUME NEW S, NEW T, NEW f \in [S -> T], NEW g \in [S -> T], \A x \in S : f[x] = g[x]
  PROVE  f = g
<1>1. f = [x \in S |-> f[x]] /\ g = [x \in S |-> g[x]]
  OBVIOUS
<1> QED
  BY <1>1

\* Strings whose integer keys begin one way have one integer key.
LEMMA OneClass ==
  ASSUME NEW k \in Keys, NEW j \in Keys, NEW p, Class(k, p), Class(j, p)
  PROVE  IKey[k] = IKey[j]
<1> DEFINE f == IKey[k]
           g == IKey[j]
           S == 1 .. Width
<1>1. f \in [S -> Digits] /\ g \in [S -> Digits]
  BY ConstantsOK DEF ConstantsOK
<1>2. \A i \in S : f[i] = g[i]
  BY DEF Class
<1> HIDE DEF f, g, S
<1>3. f = g
  BY ONLY <1>1, <1>2, SameFunction
<1> QED
  BY <1>3 DEF f, g

LEMMA ClassUnder ==
  ASSUME NEW k, NEW p \in Paths, NEW i \in Digits, Len(p) >= Width
  PROVE  Class(k, Under(p, i)) <=> Class(k, p)
<1>1. \A j \in 1 .. Width : j \in 1 .. Len(p)
  BY ConstantsOK, PathFacts DEF ConstantsOK
<1> QED
  BY <1>1, UnderFacts DEF Class

LEMMA HeightInit == Init => HeightInv
BY FS_EmptySet DEF Init, HeightInv, VictimInv

LEMMA RotateHeight ==
  ASSUME StrongInv, StrongInv', VictimInv, Rotate
  PROVE  VictimInv'
<1> DEFINE v == cur
           i == FindKid(cur, Digit(call.key, level))
           k == kids[cur][i]
<1> USE DEF StrongInv
<1>1. /\ pc = "rotate" /\ HasKid(v)
      /\ at' = [at EXCEPT ![k] = at[v], ![v] = Append(at[v], i)]
      /\ UNCHANGED <<key, inside, pc, cur>>
  BY DEF Rotate, node_vars
<1>2. i \in Digits /\ kids[v][i] # NULL
  <2>1. cur \in Nodes /\ Digit(call.key, level) \in Digits
    BY <1>1, SlotFacts, DigitType, InsideType DEF OpInv, CallInv
  <2> QED
    BY <1>1, <2>1, FindKidFacts
<1> HIDE DEF i
<1>3. /\ v \in inside /\ k \in inside /\ k # v /\ at[k] = Under(at[v], i)
  BY <1>1, <1>2, RotateFacts
<1> HIDE DEF k
<1>4. /\ at[v] \in Paths /\ Len(at[v]) \in Nat /\ at[k] \in Paths /\ v \in Nodes /\ k \in Nodes
      /\ Len(at[k]) = Len(at[v]) + 1 /\ \A n \in inside : n \in Nodes
      /\ Width \in Nat
  BY <1>2, <1>3, InsideType, UnderFacts, ConstantsOK DEF ConstantsOK
<1>5. /\ at'[v] = at[k] /\ at'[k] = at[v]
      /\ \A n \in Nodes : n # k /\ n # v => at'[n] = at[n]
  <2>1. Append(at[v], i) = at[k]
    BY <1>3 DEF Under
  <2> QED
    BY <1>1, <1>3, <1>4, <2>1 DEF TypeOK
<1>6. Above(at[k], Len(at[v])) = at[v]
  <2>1. Len(at[v]) \in 0 .. Len(at[v])
    BY <1>4
  <2> QED
    BY <1>2, <1>3, <1>4, <2>1, AboveUnder, AboveWhole
<1> HIDE DEF v
<1> SUFFICES ASSUME Len(at[k]) >= Width
             PROVE  \/ Class(key[v], at[k])
                    \/ /\ Width > 0
                       /\ \E m \in inside : at'[m] = Above(at[k], Width - 1) /\ Class(key[m], at[k])
  BY <1>1, <1>5 DEF VictimInv, v
<1>7. CASE Len(at[v]) >= Width
  <2>1. \A x : Class(x, at[k]) <=> Class(x, at[v])
    BY <1>2, <1>3, <1>4, <1>7, ClassUnder
  <2>2. CASE Class(key[v], at[v])
    BY <2>1, <2>2
  <2>3. CASE ~Class(key[v], at[v])
    <3>1. Width > 0 /\ \E m \in inside : at[m] = Above(at[v], Width - 1) /\ Class(key[m], at[v])
      BY <1>1, <1>7, <2>3 DEF VictimInv, v
    <3>2. PICK m \in inside : at[m] = Above(at[v], Width - 1) /\ Class(key[m], at[v])
      BY <3>1
    <3>3. Width - 1 \in 0 .. Len(at[v])
      BY <1>4, <1>7, <3>1
    <3>4. Len(at[m]) = Width - 1
      BY <1>4, <3>2, <3>3, AboveFacts
    <3>5. m # v /\ m # k
      BY <1>4, <1>7, <3>4
    <3>6. at'[m] = Above(at[k], Width - 1)
      BY <1>2, <1>3, <1>4, <1>5, <3>2, <3>3, <3>5, AboveUnder
    <3> QED
      BY <2>1, <3>1, <3>2, <3>6
  <2> QED
    BY <2>2, <2>3
<1>8. CASE Len(at[v]) < Width
  <2>1. Len(at[v]) = Width - 1 /\ Width > 0
    BY <1>4, <1>8
  <2>2. Class(key[k], at[k])
    <3>1. ~IsVictim(k) /\ ~Destroying
      BY <1>1, <1>3 DEF IsVictim, v, Destroying
    <3> QED
      BY <1>3, <1>4, <3>1, InsideKeys, LeadsClass
  <2>3. at'[k] = Above(at[k], Width - 1)
    BY <1>5, <1>6, <2>1
  <2> QED
    BY <1>3, <2>1, <2>2, <2>3
<1> QED
  BY <1>4, <1>7, <1>8

LEMMA HeightStep ==
  ASSUME StrongInv, StrongInv', HeightInv, [Next]_vars
  PROVE  HeightInv'
<1> USE DEF HeightInv
<1>1. CASE inside' = inside /\ pc' # "rotate"
  BY <1>1 DEF VictimInv
<1>2. CASE InsertAttach \/ Detach \/ EnumDone
  <2>1. pc' # "rotate"
    BY <1>2 DEF InsertAttach, Detach, EnumDone, Return, EnumReturn
  <2>2. IsFiniteSet(inside')
    <3>1. CASE InsertAttach
      BY <3>1, FS_AddElement DEF InsertAttach
    <3>2. CASE Detach
      BY <3>2, FS_RemoveElement DEF Detach
    <3>3. CASE EnumDone
      BY <3>3, FS_EmptySet DEF EnumDone
    <3> QED
      BY <1>2, <3>1, <3>2, <3>3
  <2> QED
    BY <2>1, <2>2 DEF VictimInv
<1>3. CASE DeleteFound
  <2>1. /\ pc = "search" /\ cur # NULL /\ UNCHANGED <<key, inside, at, cur>>
    BY <1>3 DEF DeleteFound, Hit, node_vars, tree_vars, loop_vars
  <2>2. cur \in inside /\ ~IsVictim(cur) /\ ~Destroying
    BY <2>1, SlotFacts DEF IsVictim, StrongInv
  <2>3. key[cur] \in Keys /\ Leads(key[cur], at[cur]) /\ at[cur] \in Paths
    BY <2>2, InsideKeys, InsideType DEF StrongInv
  <2>4. Len(at[cur]) >= Width => Class(key[cur], at[cur])
    BY <2>3, LeadsClass
  <2> QED
    BY <2>1, <2>4 DEF VictimInv
<1>4. CASE Rotate
  <2>1. inside' = inside
    BY <1>4 DEF Rotate
  <2> QED
    BY <1>4, <2>1, RotateHeight
<1>5. CASE UNCHANGED vars
  BY <1>5 DEF vars, node_vars, tree_vars, loop_vars, VictimInv
<1>6. ASSUME ~InsertAttach, ~Detach, ~EnumDone, ~DeleteFound, ~Rotate, ~UNCHANGED vars
      PROVE  inside' = inside /\ pc' # "rotate"
  <2>1. ASSUME NEW n \in Nodes, NEW k \in Keys, NEW v \in Values, NodeInit(n, k, v)
        PROVE  inside' = inside /\ pc' # "rotate"
    BY <2>1 DEF NodeInit
  <2>2. CASE Call \/ EnumBegin("enumerate") \/ EnumBegin("destroy")
    BY <2>2 DEF Call, Begin, EnumBegin, tree_vars
  <2>3. CASE Descend \/ EnumKid \/ EnumVisit \/ EnumStop
    BY <2>3 DEF Descend, EnumKid, EnumVisit, EnumStop, EnumReturn, tree_vars
  <2>4. CASE Get \/ Update \/ InsertExists \/ DeleteMissing
    BY <2>4 DEF Get, Update, InsertExists, DeleteMissing, Return, tree_vars
  <2> QED
    BY <1>6, <2>1, <2>2, <2>3, <2>4 DEF Next, Running
<1> QED
  BY <1>1, <1>2, <1>3, <1>4, <1>5, <1>6

LEMMA Height == Spec => []HeightInv
<1>1. HeightInv /\ StrongInv /\ StrongInv' /\ [Next]_vars => HeightInv'
  BY HeightStep
<1> QED
  BY <1>1, Strong, HeightInit, PTL DEF Spec

\* At every level from Width down to a node hangs a string with its integer key,
\* the victim's level aside, for which one hangs at level Width - 1.
LEMMA ChainClass ==
  ASSUME StrongInv, HeightInv, ~Destroying, NEW n \in inside, ~IsVictim(n),
         Len(at[n]) >= Width, NEW l \in Width .. Len(at[n])
  PROVE  \E m \in inside :
           /\ IKey[key[m]] = IKey[key[n]]
           /\ \/ Len(at[m]) = l
              \/ Len(at[m]) = Width - 1 /\ Len(at[cur]) = l
<1> DEFINE q == at[n]
<1> USE DEF StrongInv
<1>1. q \in Paths /\ Len(q) \in Nat /\ Width \in Nat /\ key[n] \in Keys /\ Class(key[n], q)
  BY InsideType, InsideKeys, LeadsClass, ConstantsOK DEF ConstantsOK
<1>2. l \in 0 .. Len(q) /\ l >= Width
  BY <1>1
<1>3. PICK m \in inside : at[m] = Above(q, l)
  BY <1>2 DEF Shape, AboveInv
<1> HIDE DEF q
<1>4. /\ at[m] \in Paths /\ Len(at[m]) = l /\ \A j \in 1 .. l : at[m][j] = q[j]
      /\ key[m] \in Keys
  BY <1>1, <1>2, <1>3, AboveFacts, InsideKeys
<1>5. \A k : Class(k, at[m]) <=> Class(k, q)
  <2>1. \A j \in 1 .. Width : j \in 1 .. l
    BY <1>1, <1>2
  <2> QED
    BY <1>4, <2>1 DEF Class
<1>6. CASE Class(key[m], at[m])
  <2>1. IKey[key[m]] = IKey[key[n]]
    BY <1>1, <1>4, <1>5, <1>6, OneClass
  <2> QED
    BY <1>4, <2>1
<1>7. CASE ~Class(key[m], at[m])
  <2>1. IsVictim(m)
    BY <1>2, <1>4, <1>7, InsideKeys, LeadsClass
  <2>2. m = cur /\ pc = "rotate"
    BY <2>1 DEF IsVictim
  <2>3. PICK w \in inside : at[w] = Above(at[m], Width - 1) /\ Class(key[w], at[m])
    BY <1>2, <1>4, <1>7, <2>2 DEF HeightInv, VictimInv
  <2>4. Width > 0
    BY <1>2, <1>4, <1>7, <2>2 DEF HeightInv, VictimInv
  <2>5. Len(at[w]) = Width - 1
    <3>1. Width - 1 \in 0 .. Len(at[m])
      BY <1>1, <1>2, <1>4, <2>4
    <3> QED
      BY <1>4, <2>3, <3>1, AboveFacts
  <2>6. IKey[key[w]] = IKey[key[n]]
    <3>1. key[w] \in Keys
      BY InsideKeys
    <3> QED
      BY <1>1, <1>5, <2>3, <3>1, OneClass
  <2> QED
    BY <1>4, <2>2, <2>5, <2>6
<1> QED
  BY <1>6, <1>7

\* How deep enumerate recurses is bounded by the width of integer keys and the
\* number of strings that share one, through every insertion and deletion.
THEOREM Bounded == Spec => []HeightBounded
<1>1. ASSUME StrongInv, HeightInv PROVE HeightBounded
  <2> USE <1>1
  <2> SUFFICES ASSUME NEW n \in inside, ~Destroying, ~IsVictim(n)
               PROVE  Len(at[n]) < Width
                        + Cardinality({m \in inside : IKey[key[m]] = IKey[key[n]]})
    BY DEF HeightBounded
  <2> DEFINE C == {m \in inside : IKey[key[m]] = IKey[key[n]]}
             d == Len(at[n])
             S == Width .. d
             P(l, m) == Len(at[m]) = l \/ (Len(at[m]) = Width - 1 /\ Len(at[cur]) = l)
             f == [l \in S |-> CHOOSE m \in C : P(l, m)]
  <2>1. d \in Nat /\ Width \in Nat
    BY InsideType, ConstantsOK DEF ConstantsOK, StrongInv
  <2>2. IsFiniteSet(C) /\ Cardinality(C) \in Nat /\ n \in C
    <3>1. C \in SUBSET inside /\ n \in C
      OBVIOUS
    <3> HIDE DEF C
    <3> QED
      BY <3>1, FS_Subset, FS_CardinalityType DEF HeightInv
  <2>3. CASE d < Width
    <3>1. Cardinality(C) # 0
      BY <2>2, FS_EmptySet
    <3> QED
      BY <2>1, <2>2, <2>3, <3>1
  <2>4. CASE d >= Width
    <3>1. \A l \in S : \E m \in C : P(l, m)
      BY <2>4, ChainClass
    <3> HIDE DEF C, P
    <3>2. \A l \in S : f[l] \in C /\ P(l, f[l])
      BY <3>1
    <3>3. f \in [S -> C]
      BY <3>2
    <3> HIDE DEF f
    <3>4. ASSUME NEW a \in S, NEW b \in S, f[a] = f[b] PROVE a = b
      <4>1. P(a, f[a]) /\ P(b, f[a])
        BY <3>2, <3>4
      <4>2. a >= Width /\ b >= Width /\ a \in Nat /\ b \in Nat
        BY <2>1
      <4> QED
        BY <2>1, <4>1, <4>2 DEF P
    <3>5. f \in Injection(S, C)
      BY <3>3, <3>4 DEF Injection, IsInjective
    <3>6. Cardinality(S) <= Cardinality(C)
      BY <2>2, <3>5, FS_Injection
    <3>7. Cardinality(S) = d - Width + 1
      BY <2>1, <2>4, FS_Interval
    <3> QED
      BY <2>1, <2>2, <2>4, <3>6, <3>7 DEF C
  <2> QED
    BY <2>1, <2>3, <2>4
<1> QED
  BY <1>1, Strong, Height, PTL

-----------------------------------------------------------------------------
(* What a call has left to do is a finite set, and each step of the call    *)
(* that is not its last takes something out of it and puts nothing in.     *)

LEMMA Lessens ==
  ASSUME NEW T, IsFiniteSet(T), NEW S \in SUBSET T, NEW x \in T, x \notin S
  PROVE  Cardinality(S) < Cardinality(T)
<1>1. /\ Cardinality(S) \in Nat /\ Cardinality(T) \in Nat
      /\ Cardinality(S) <= Cardinality(T)
      /\ Cardinality(S) = Cardinality(T) => S = T
  BY FS_Subset, FS_CardinalityType
<1> QED
  BY <1>1

LEMMA PrefixIsAbove ==
  ASSUME NEW p \in Paths, NEW q \in Paths
  PROVE  IsPrefix(p, q) <=> Len(p) <= Len(q) /\ Above(q, Len(p)) = p
<1>1. Above(p, Len(p)) = p
  BY AboveWhole
<1> QED
  BY <1>1 DEF IsPrefix, Above

\* What is below a child is below its parent.
LEMMA PrefixUnder ==
  ASSUME NEW p \in Paths, NEW i \in Digits, NEW q \in Paths, IsPrefix(Under(p, i), q)
  PROVE  IsPrefix(p, q) /\ Len(p) < Len(q)
<1>1. Under(p, i) \in Paths /\ Len(Under(p, i)) = Len(p) + 1
  BY UnderFacts
<1>2. Len(p) + 1 <= Len(q) /\ Above(q, Len(p) + 1) = Under(p, i)
  BY <1>1, PrefixIsAbove
<1>3. Len(p) \in Nat /\ Len(q) \in Nat
  BY PathFacts
<1>4. Len(p) \in 0 .. Len(q) /\ Len(p) + 1 \in 0 .. Len(q)
  BY <1>2, <1>3
<1>5. \A j \in 1 .. Len(p) : j \in 1 .. Len(p) + 1
  BY <1>3
<1>6. \A j \in 1 .. Len(p) : q[j] = p[j]
  <2>1. \A j \in 1 .. Len(p) + 1 : Above(q, Len(p) + 1)[j] = q[j]
    BY <1>4, AboveFacts
  <2>2. \A j \in 1 .. Len(p) : Under(p, i)[j] = p[j]
    BY UnderFacts
  <2> QED
    BY <1>2, <1>5, <2>1, <2>2
<1>7. Above(q, Len(p)) = p
  <2>1. /\ Above(q, Len(p)) \in Paths /\ Len(Above(q, Len(p))) = Len(p)
        /\ \A j \in 1 .. Len(p) : Above(q, Len(p))[j] = q[j]
    BY <1>4, AboveFacts
  <2> QED
    BY <1>6, <2>1, SamePath
<1> QED
  BY <1>2, <1>3, <1>7, PrefixIsAbove

LEMMA PrefixItself ==
  ASSUME NEW p \in Paths
  PROVE  IsPrefix(p, p)
BY PathFacts, AboveWhole, PrefixIsAbove

LEMMA RemainingFinite ==
  ASSUME StrongInv, HeightInv
  PROVE  IsFiniteSet(Remaining)
<1>1. IsFiniteSet(inside) /\ IsFiniteSet(inside \X (0 .. NB))
  <2>1. IsFiniteSet(0 .. NB)
    BY FS_Interval, ConstantsOK DEF ConstantsOK
  <2> QED
    BY <2>1, FS_Product DEF HeightInv
<1>2. CASE pc = "search"
  <2>1. Remaining \in SUBSET inside
    BY <1>2 DEF Remaining, AtOrBelow
  <2> QED
    BY <1>1, <2>1, FS_Subset
<1>3. CASE pc = "rotate"
  <2>1. Remaining \in SUBSET inside
    BY <1>3 DEF Remaining, AtOrBelow
  <2> QED
    BY <1>1, <2>1, FS_Subset
<1>4. CASE pc = "enum"
  <2>1. Remaining \in SUBSET (inside \X (0 .. NB))
    BY <1>4 DEF Remaining
  <2> QED
    BY <1>1, <2>1, FS_Subset
<1>5. CASE pc = "idle"
  BY <1>5, FS_EmptySet DEF Remaining
<1> QED
  BY <1>2, <1>3, <1>4, <1>5 DEF StrongInv, TypeOK

\* A search leaves the node it passes.
LEMMA DescendLessens ==
  ASSUME StrongInv, Descend
  PROVE  \E x \in Remaining : x \notin Remaining' /\ Remaining' \in SUBSET Remaining
<1> DEFINE d == Digit(call.key, level)
           p == SlotPath
<1> USE DEF StrongInv
<1>1. /\ pc = "search" /\ cur # NULL /\ slot' = [node |-> cur, idx |-> d]
      /\ UNCHANGED <<pc, inside, at>>
  BY DEF Descend, tree_vars
<1>2. cur \in inside /\ at[cur] = p /\ p \in Paths
  BY <1>1, SlotFacts
<1>3. d \in Digits
  BY <1>1, SlotFacts, DigitType DEF OpInv
<1>4. SlotPath' = Under(p, d)
  BY <1>1, <1>2 DEF SlotPath, Under
<1> HIDE DEF d, p
<1>5. /\ Remaining = {m \in inside : IsPrefix(p, at[m])}
      /\ Remaining' = {m \in inside : IsPrefix(Under(p, d), at[m])}
  BY <1>1, <1>4 DEF Remaining, AtOrBelow, p
<1>6. \A m \in inside : IsPrefix(Under(p, d), at[m]) => IsPrefix(p, at[m]) /\ Len(p) < Len(at[m])
  BY <1>2, <1>3, InsideType, PrefixUnder
<1>7. IsPrefix(p, at[cur]) /\ ~(Len(p) < Len(at[cur]))
  BY <1>2, PrefixItself, PathFacts
<1> QED
  BY <1>2, <1>5, <1>6, <1>7

\* A deletion that found its victim leaves the victim.
LEMMA FoundLessens ==
  ASSUME StrongInv, DeleteFound
  PROVE  \E x \in Remaining : x \notin Remaining' /\ Remaining' \in SUBSET Remaining
<1> USE DEF StrongInv
<1>1. /\ pc = "search" /\ cur # NULL /\ pc' = "rotate"
      /\ UNCHANGED <<inside, at, cur>>
  BY DEF DeleteFound, Hit, tree_vars, loop_vars
<1>2. cur \in inside /\ at[cur] = SlotPath /\ SlotPath \in Paths
  BY <1>1, SlotFacts
<1>3. /\ Remaining = {m \in inside : IsPrefix(SlotPath, at[m])}
      /\ Remaining' = {m \in inside : IsPrefix(SlotPath, at[m])} \ {cur}
  BY <1>1, <1>2 DEF Remaining, AtOrBelow
<1> QED
  BY <1>2, <1>3, PrefixItself

\* A rotation leaves the child it has put above the victim.
LEMMA RotateLessens ==
  ASSUME StrongInv, Rotate
  PROVE  \E x \in Remaining : x \notin Remaining' /\ Remaining' \in SUBSET Remaining
<1> DEFINE v == cur
           i == FindKid(cur, Digit(call.key, level))
           k == kids[cur][i]
<1> USE DEF StrongInv
<1>1. /\ pc = "rotate" /\ HasKid(v)
      /\ at' = [at EXCEPT ![k] = at[v], ![v] = Append(at[v], i)]
      /\ UNCHANGED <<inside, pc, cur>>
  BY DEF Rotate
<1>2. i \in Digits /\ kids[v][i] # NULL
  <2>1. cur \in Nodes /\ Digit(call.key, level) \in Digits
    BY <1>1, SlotFacts, DigitType, InsideType DEF OpInv, CallInv
  <2> QED
    BY <1>1, <2>1, FindKidFacts
<1> HIDE DEF i
<1>3. v \in inside /\ k \in inside /\ k # v /\ at[k] = Under(at[v], i)
  BY <1>1, <1>2, RotateFacts
<1> HIDE DEF k
<1>4. at[v] \in Paths /\ at[k] \in Paths /\ v \in Nodes /\ k \in Nodes
  BY <1>3, InsideType
<1>5. /\ at'[v] = at[k] /\ at'[k] = at[v]
      /\ \A n \in Nodes : n # k /\ n # v => at'[n] = at[n]
  <2>1. Append(at[v], i) = at[k]
    BY <1>3 DEF Under
  <2> QED
    BY <1>1, <1>3, <1>4, <2>1 DEF TypeOK
<1>6. /\ Remaining = {m \in inside : IsPrefix(at[v], at[m])} \ {v}
      /\ Remaining' = {m \in inside : IsPrefix(at[k], at'[m])} \ {v}
  BY <1>1, <1>5 DEF Remaining, AtOrBelow
<1>7. IsPrefix(at[v], at[k])
  BY <1>2, <1>3, <1>4, PrefixItself, PrefixUnder
<1>8. ~IsPrefix(at[k], at[v])
  <2>1. IsPrefix(at[k], at[v]) => Len(at[v]) < Len(at[v])
    BY <1>2, <1>3, <1>4, PrefixUnder
  <2> QED
    BY <1>4, <2>1, PathFacts
<1>9. k \in Remaining /\ k \notin Remaining'
  BY <1>3, <1>5, <1>6, <1>7, <1>8
<1>10. ASSUME NEW n \in Remaining'
       PROVE  n \in Remaining
  <2>1. n \in inside /\ n # v /\ n # k /\ IsPrefix(at[k], at'[n])
    BY <1>6, <1>9
  <2>2. at'[n] = at[n] /\ at[n] \in Paths
    BY <1>5, <2>1, InsideType
  <2>3. IsPrefix(at[v], at[n])
    BY <1>2, <1>3, <1>4, <2>1, <2>2, PrefixUnder
  <2> QED
    BY <1>6, <2>1, <2>3
<1> QED
  BY <1>9, <1>10

\* The indices some activation has not passed, of nodes not given to the callback.
Open(n, i) ==
  /\ n \notin Range(seen)
  /\ \A j \in 1 .. Len(stack) : stack[j].node = n => stack[j].idx <= i

LEMMA EnumRemaining ==
  TypeOK /\ pc = "enum" => Remaining = {x \in inside \X (0 .. NB) : Open(x[1], x[2])}
<1> SUFFICES ASSUME TypeOK, pc = "enum"
             PROVE  Remaining = {x \in inside \X (0 .. NB) : Open(x[1], x[2])}
  OBVIOUS
<1>1. DOMAIN stack = 1 .. Len(stack)
  BY StackType
<1>2. \A n, i : (\A f \in Range(stack) : f.node = n => f.idx <= i)
                <=> (\A j \in 1 .. Len(stack) : stack[j].node = n => stack[j].idx <= i)
  BY <1>1 DEF Range
<1> QED
  BY <1>2 DEF Remaining, Open

LEMMA EnumRemainingNext ==
  (TypeOK /\ pc = "enum" => Remaining = {x \in inside \X (0 .. NB) : Open(x[1], x[2])})'
BY EnumRemaining, PTL

\* An iteration of the loop over the children leaves the index it has passed.
LEMMA KidLessens ==
  ASSUME StrongInv, StrongInv', EnumKid
  PROVE  \E x \in Remaining : x \notin Remaining' /\ Remaining' \in SUBSET Remaining
<1> USE DEF StrongInv
<1>0. PICK N, t, i : N = Len(stack) /\ t = Top.node /\ i = Top.idx
  OBVIOUS
<1>1. /\ pc = "enum" /\ stack # <<>> /\ UNCHANGED <<inside, pc, seen>>
  BY DEF EnumKid, tree_vars
<1>2. /\ N \in Nat /\ N > 0 /\ i \in Digits /\ Len(stack') \in {N, N + 1}
      /\ \A k \in 1 .. N - 1 : stack'[k] = stack[k]
      /\ stack'[N].node = t /\ stack'[N].idx = i + 1
  BY <1>0, EnumKidFacts
<1>3. N \in 1 .. N /\ stack[N].node = t /\ stack[N].idx = i
  BY <1>0, <1>1, TopFacts
<1>4. t \in inside /\ t \notin Range(seen)
  BY <1>0, <1>1, <1>3, FramePending, PendingLive
<1>5. \A j \in 1 .. N : Len(at[stack[j].node]) = j - 1
  BY <1>0, FramePending
<1>6. ASSUME NEW j \in 1 .. N, stack[j].node = t
      PROVE  j = N
  <2>1. N - 1 = j - 1
    BY <1>3, <1>5, <1>6, Zenon
  <2> QED
    BY <1>2, <2>1
<1>7. /\ Remaining = {x \in inside \X (0 .. NB) : Open(x[1], x[2])}
      /\ Remaining' = {x \in inside \X (0 .. NB) : Open(x[1], x[2])'}
  BY <1>1, EnumRemaining, EnumRemainingNext
<1>8. i \in 0 .. NB /\ i \in Int
  BY <1>2, ConstantsOK DEF ConstantsOK, Digits
<1>9. Open(t, i)
  BY <1>0, <1>3, <1>4, <1>6, <1>8 DEF Open
<1>10. ~Open(t, i)'
  <2>1. N \in 1 .. Len(stack')
    BY <1>2
  <2>2. ~(stack'[N].idx <= i)
    BY <1>2, <1>8
  <2> QED
    BY <1>2, <2>1, <2>2 DEF Open
<1>11. ASSUME NEW n \in inside, NEW l \in 0 .. NB, Open(n, l)'
       PROVE  Open(n, l)
  <2>1. n \notin Range(seen)
    BY <1>1, <1>11 DEF Open
  <2>2. ASSUME NEW j \in 1 .. N, stack[j].node = n
        PROVE  stack[j].idx <= l
    <3>1. j \in 1 .. Len(stack')
      BY <1>2
    <3>2. CASE j = N
      <4>1. i + 1 <= l
        BY <1>2, <1>3, <1>11, <2>2, <3>1, <3>2 DEF Open
      <4> QED
        BY <1>3, <1>8, <3>2, <4>1
    <3>3. CASE j # N
      <4>1. j \in 1 .. N - 1
        BY <1>2, <3>3
      <4> QED
        BY <1>2, <1>11, <2>2, <3>1, <4>1 DEF Open
    <3> QED
      BY <3>2, <3>3
  <2> QED
    BY <1>0, <2>1, <2>2 DEF Open
<1>12. <<t, i>> \in Remaining /\ <<t, i>> \notin Remaining'
  BY <1>4, <1>7, <1>8, <1>9, <1>10
<1>13. Remaining' \in SUBSET Remaining
  BY <1>7, <1>11
<1> QED
  BY <1>12, <1>13

\* A call of the callback leaves the node it is about.
LEMMA VisitLessens ==
  ASSUME StrongInv, StrongInv', EnumVisit
  PROVE  \E x \in Remaining : x \notin Remaining' /\ Remaining' \in SUBSET Remaining
<1> USE DEF StrongInv
<1>0. PICK N, t : N = Len(stack) /\ t = Top.node
  OBVIOUS
<1>1. /\ pc = "enum" /\ stack # <<>> /\ stack' = Below /\ seen' = Append(seen, t)
      /\ UNCHANGED <<inside, pc>>
  BY <1>0 DEF EnumVisit
<1>2. /\ N \in Nat /\ N > 0 /\ N \in 1 .. N /\ stack[N].node = t
      /\ Len(stack') = N - 1 /\ \A k \in 1 .. N - 1 : stack'[k] = stack[k]
  BY <1>0, <1>1, TopFacts, StackType
<1>3. t \in inside /\ t \in Nodes /\ t \notin Range(seen)
  <2>1. t \in inside /\ Pending(t)
    BY <1>0, <1>2, FramePending
  <2> QED
    BY <1>1, <2>1, PendingLive, InsideType
<1>4. Range(seen') = Range(seen) \cup {t}
  BY <1>1, <1>3, RangeAppend DEF TypeOK
<1>5. /\ Remaining = {x \in inside \X (0 .. NB) : Open(x[1], x[2])}
      /\ Remaining' = {x \in inside \X (0 .. NB) : Open(x[1], x[2])'}
  BY <1>1, EnumRemaining, EnumRemainingNext
<1>6. NB \in 0 .. NB /\ \A j \in 1 .. N : stack[j].idx <= NB
  BY <1>0, StackType, ConstantsOK DEF ConstantsOK
<1>7. Open(t, NB) /\ ~Open(t, NB)'
  BY <1>0, <1>3, <1>4, <1>6 DEF Open
<1>8. ASSUME NEW n \in inside, NEW l \in 0 .. NB, Open(n, l)'
      PROVE  Open(n, l)
  <2>1. n \notin Range(seen) /\ n # t
    BY <1>4, <1>8 DEF Open
  <2>2. ASSUME NEW j \in 1 .. N, stack[j].node = n
        PROVE  stack[j].idx <= l
    <3>1. j \in 1 .. N - 1
      BY <1>2, <2>1, <2>2
    <3> QED
      BY <1>2, <1>8, <2>2, <3>1 DEF Open
  <2> QED
    BY <1>0, <2>1, <2>2 DEF Open
<1>9. <<t, NB>> \in Remaining /\ <<t, NB>> \notin Remaining'
  BY <1>3, <1>5, <1>6, <1>7
<1>10. Remaining' \in SUBSET Remaining
  BY <1>5, <1>8
<1> QED
  BY <1>9, <1>10

\* A step within a call is an iteration of one of the loops.
LEMMA WithinCall ==
  ASSUME StrongInv, Next, pc # "idle", pc' # "idle"
  PROVE  Descend \/ DeleteFound \/ Rotate \/ EnumKid \/ EnumVisit
<1>1. ASSUME NEW n \in Nodes, NEW k \in Keys, NEW v \in Values, NodeInit(n, k, v)
      PROVE  FALSE
  BY <1>1 DEF NodeInit
<1>2. ~Call /\ ~EnumBegin("enumerate") /\ ~EnumBegin("destroy")
  BY DEF Call, Begin, EnumBegin
<1>3. ~Get /\ ~Update /\ ~InsertExists /\ ~InsertAttach /\ ~DeleteMissing /\ ~Detach
  BY DEF Get, Update, InsertExists, InsertAttach, DeleteMissing, Detach, Return
<1>4. ~EnumDone /\ ~EnumStop
  BY DEF EnumDone, EnumStop, EnumReturn
<1> QED
  BY <1>1, <1>2, <1>3, <1>4 DEF Next, Running

\* Every call of cop_strdict.c returns, whatever the strings, their hashes and the
\* digits of these: each of its steps leaves it less of finitely many things to do.
THEOREM Advances == Spec => CallsAdvance
<1>1. ASSUME StrongInv, StrongInv', HeightInv, Next, pc # "idle", pc' # "idle"
      PROVE  IsFiniteSet(Remaining) /\ Cardinality(Remaining') < Cardinality(Remaining)
  <2>1. \E x \in Remaining : x \notin Remaining' /\ Remaining' \in SUBSET Remaining
    BY <1>1, WithinCall, DescendLessens, FoundLessens, RotateLessens, KidLessens, VisitLessens
  <2>2. IsFiniteSet(Remaining)
    BY <1>1, RemainingFinite
  <2> QED
    BY <2>1, <2>2, Lessens
<1>2. StrongInv /\ StrongInv' /\ HeightInv /\ [Next]_vars =>
        [pc # "idle" /\ pc' # "idle" =>
           IsFiniteSet(Remaining) /\ Cardinality(Remaining') < Cardinality(Remaining)]_vars
  BY <1>1
<1> QED
  BY <1>2, Strong, Height, PTL DEF Spec, CallsAdvance
=============================================================================
