------------------------------- MODULE StrDict -------------------------------
(***************************************************************************)
(* The string dictionary of libcop/cop_strdict.c: a tree of the caller's   *)
(* own nodes in which a node at depth d hangs where the d lowest digits of *)
(* its integer key (string length and hash) lead.  Calls run one iteration *)
(* of their loop at a time; enumerate runs the caller's callback.          *)
(***************************************************************************)
EXTENDS Naturals, SequencesExt, FiniteSets

CONSTANTS
  Keys,     \* The strings the caller uses.
  IKey,     \* The integer key of each, as its digits, the lowest first.
  NB,       \* Children per node, the base of those digits.
  Width,    \* How many digits an integer key has.
  Nodes,    \* The nodes the caller has memory for.
  Values,   \* Data pointers.
  NULL

Digits == 0 .. NB - 1

ASSUME ConstantsOK ==
  /\ NB \in Nat \ {0} /\ Width \in Nat
  /\ IKey \in [Keys -> [1 .. Width -> Digits]]
  /\ NULL \notin Nodes /\ NULL \notin Keys

VARIABLES
  root,        \* The caller's root pointer.
  kids,        \* The child pointers of every node.
  key,         \* The string a node was set up with, NULL if it is not set up.
  data,        \* The data pointer of every node.
  pc,          \* Where the running call is.
  call,        \* The running call: its name and arguments.
  slot,        \* pp_root: the root pointer, or one child pointer of a node.
  cur,         \* The node the running loop is at.
  level,       \* How many digits the loop has shifted out of ukey.
  stack,       \* The activations of cop_strdict_enumerate_rec.
  seen,        \* History: the nodes the callback was given, in order.
  inside,      \* History: the nodes inserted and not deleted.
  at,          \* History: the child indices that lead from root to a node.
  ret          \* What the last call returned.

node_vars == <<key, data>>
tree_vars == <<root, kids, inside, at>>
loop_vars == <<slot, cur, level>>
enum_vars == <<stack, seen>>
vars == <<node_vars, tree_vars, pc, call, loop_vars, enum_vars, ret>>

Void == [rc |-> "none", p |-> NULL]
Zero(p) == [rc |-> "zero", p |-> p]
NonZero == [rc |-> "nonzero", p |-> NULL]
Pointer(p) == [rc |-> "none", p |-> p]

NoKids == [i \in Digits |-> NULL]
\* What child pointers may hold in memory that is not set up: pointers to nodes.
Dirty(n) == [i \in Digits |-> n]
NoCall == [op |-> "none", key |-> NULL, item |-> NULL, val |-> NULL]
RootSlot == [node |-> NULL, idx |-> 0]

Init ==
  /\ root = NULL
  /\ kids = [n \in Nodes |-> Dirty(n)]
  /\ key = [n \in Nodes |-> NULL] /\ data = [n \in Nodes |-> NULL]
  /\ pc = "idle" /\ call = NoCall
  /\ slot = RootSlot /\ cur = NULL /\ level = 0
  /\ stack = <<>> /\ seen = <<>>
  /\ inside = {} /\ at = [n \in Nodes |-> <<>>]
  /\ ret = Void

-----------------------------------------------------------------------------
(* The operators the code is written in. *)

\* ukey & COP_STRDICT_CHID_MASK after l shifts: the shifts bring in zeros.
Digit(k, l) == IF l < Width THEN IKey[k][l + 1] ELSE 0

\* Slip: takes equal lengths and hashes for equal strings.
MatchesHash(n, k) == IKey[key[n]] = IKey[k]

\* The integer keys agree and memcmp finds the strings equal.
Matches(n, k) == IKey[key[n]] = IKey[k] /\ key[n] = k

\* findkid: the first child pointer in use, looking from index offset on.
FindKid(n, offset) ==
  CHOOSE i \in Digits :
    /\ kids[n][i] # NULL
    /\ \A j \in Digits : kids[n][j] # NULL
         => (i + NB - offset) % NB <= (j + NB - offset) % NB

HasKid(n) == \E i \in Digits : kids[n][i] # NULL

\* *pp_root = v, in the child pointers ks.
Stored(ks, v) ==
  IF slot.node = NULL THEN ks
  ELSE [ks EXCEPT ![slot.node] = [@ EXCEPT ![slot.idx] = v]]

RootStored(v) == IF slot.node = NULL THEN v ELSE root

\* Where a node put in the slot hangs.
SlotPath == IF slot.node = NULL THEN <<>> ELSE Append(at[slot.node], slot.idx)

\* The end of a call.
Return(r) ==
  /\ pc' = "idle" /\ call' = NoCall
  /\ slot' = RootSlot /\ cur' = NULL /\ level' = 0
  /\ ret' = r
  /\ UNCHANGED enum_vars

-----------------------------------------------------------------------------
(* What the caller does between calls. *)

\* Slip: leaves out the loop that clears the child pointers.
NodeInitKeepKids(n, k, v) ==
  /\ pc = "idle" /\ n \notin inside
  /\ key' = [key EXCEPT ![n] = k]
  /\ data' = [data EXCEPT ![n] = v]
  /\ ret' = Void
  /\ UNCHANGED <<tree_vars, pc, call, loop_vars, enum_vars>>

\* cop_strdict_node_init, on a node that is not in the dictionary.
NodeInit(n, k, v) ==
  /\ pc = "idle" /\ n \notin inside
  /\ key' = [key EXCEPT ![n] = k]
  /\ data' = [data EXCEPT ![n] = v]
  /\ kids' = [kids EXCEPT ![n] = NoKids]
  /\ ret' = Void
  /\ UNCHANGED <<root, inside, at, pc, call, loop_vars, enum_vars>>

\* A search starts at the root with the whole integer key.
Begin(o, k, n, v) ==
  /\ pc = "idle"
  /\ pc' = "search" /\ call' = [op |-> o, key |-> k, item |-> n, val |-> v]
  /\ slot' = RootSlot /\ cur' = root /\ level' = 0
  /\ UNCHANGED <<node_vars, tree_vars, enum_vars, ret>>

\* A node may be inserted when it is set up, also when it already is inside.
Call ==
  \/ \E n \in Nodes : key[n] # NULL /\ Begin("insert", key[n], n, NULL)
  \/ \E k \in Keys : Begin("get", k, NULL, NULL) \/ Begin("delete", k, NULL, NULL)
  \/ \E k \in Keys, v \in Values : Begin("update", k, NULL, v)

-----------------------------------------------------------------------------
(* The loop that insert, get, update and delete share. *)

Hit == pc = "search" /\ cur # NULL /\ Matches(cur, call.key)
Miss == pc = "search" /\ cur = NULL

\* Slip: forgets to shift the key.
DescendSameDigit ==
  /\ pc = "search" /\ cur # NULL /\ ~Matches(cur, call.key)
  /\ slot' = [node |-> cur, idx |-> Digit(call.key, level)]
  /\ cur' = kids[cur][Digit(call.key, level)]
  /\ UNCHANGED <<level, node_vars, tree_vars, pc, call, enum_vars, ret>>

Descend ==
  /\ pc = "search" /\ cur # NULL /\ ~Matches(cur, call.key)
  /\ slot' = [node |-> cur, idx |-> Digit(call.key, level)]
  /\ cur' = kids[cur][Digit(call.key, level)]
  /\ level' = level + 1
  /\ UNCHANGED <<node_vars, tree_vars, pc, call, enum_vars, ret>>

Get ==
  /\ call.op = "get"
  /\ \/ Hit /\ Return(Zero(data[cur]))
     \/ Miss /\ Return(NonZero)
  /\ UNCHANGED <<node_vars, tree_vars>>

Update ==
  /\ call.op = "update"
  /\ \/ /\ Hit
        /\ data' = [data EXCEPT ![cur] = call.val]
        /\ Return(Zero(NULL))
     \/ Miss /\ Return(NonZero) /\ UNCHANGED data
  /\ UNCHANGED <<key, tree_vars>>

InsertExists ==
  /\ call.op = "insert" /\ Hit
  /\ Return(NonZero)
  /\ UNCHANGED <<node_vars, tree_vars>>

InsertAttach ==
  /\ call.op = "insert" /\ Miss
  /\ root' = RootStored(call.item)
  /\ kids' = Stored(kids, call.item)
  /\ inside' = inside \cup {call.item}
  /\ at' = [at EXCEPT ![call.item] = SlotPath]
  /\ Return(Zero(NULL))
  /\ UNCHANGED node_vars

DeleteMissing ==
  /\ call.op = "delete" /\ Miss
  /\ Return(Pointer(NULL))
  /\ UNCHANGED <<node_vars, tree_vars>>

DeleteFound ==
  /\ call.op = "delete" /\ Hit
  /\ pc' = "rotate"
  /\ UNCHANGED <<node_vars, tree_vars, call, loop_vars, enum_vars, ret>>

-----------------------------------------------------------------------------
(* The second loop of delete: while the victim has a child, one of them     *)
(* takes its place, and its children, and it takes the child's.             *)

\* Slip: the child moves up with its own children.
RotatePromote ==
  LET i   == FindKid(cur, Digit(call.key, level))
      kid == kids[cur][i]
  IN  /\ pc = "rotate" /\ HasKid(cur)
      /\ root' = RootStored(kid)
      /\ kids' = Stored([kids EXCEPT ![cur] = kids[kid],
                                     ![kid] = [@ EXCEPT ![i] = cur]], kid)
      /\ slot' = [node |-> kid, idx |-> i]
      /\ level' = level + 1
      /\ at' = [at EXCEPT ![kid] = at[cur], ![cur] = Append(at[cur], i)]
      /\ UNCHANGED <<node_vars, inside, pc, call, cur, enum_vars, ret>>

Rotate ==
  LET i   == FindKid(cur, Digit(call.key, level))
      kid == kids[cur][i]
  IN  /\ pc = "rotate" /\ HasKid(cur)
      /\ root' = RootStored(kid)
      /\ kids' = Stored([kids EXCEPT ![cur] = kids[kid],
                                     ![kid] = [kids[cur] EXCEPT ![i] = cur]], kid)
      /\ slot' = [node |-> kid, idx |-> i]
      /\ level' = level + 1
      /\ at' = [at EXCEPT ![kid] = at[cur], ![cur] = Append(at[cur], i)]
      /\ UNCHANGED <<node_vars, inside, pc, call, cur, enum_vars, ret>>

\* Slip: the pointer to the victim is not cleared.
DetachKeepLink ==
  /\ pc = "rotate" /\ ~HasKid(cur)
  /\ inside' = inside \ {cur}
  /\ at' = [at EXCEPT ![cur] = <<>>]
  /\ Return(Pointer(cur))
  /\ UNCHANGED <<root, kids, node_vars>>

Detach ==
  /\ pc = "rotate" /\ ~HasKid(cur)
  /\ root' = RootStored(NULL)
  /\ kids' = Stored(kids, NULL)
  /\ inside' = inside \ {cur}
  /\ at' = [at EXCEPT ![cur] = <<>>]
  /\ Return(Pointer(cur))
  /\ UNCHANGED node_vars

-----------------------------------------------------------------------------
(* cop_strdict_enumerate, to look at the nodes or to free every one of them. *)

EnumBegin(o) ==
  /\ pc = "idle"
  /\ pc' = "enum" /\ call' = [NoCall EXCEPT !.op = o]
  /\ stack' = IF root = NULL THEN <<>> ELSE <<[node |-> root, idx |-> 0]>>
  /\ UNCHANGED <<node_vars, tree_vars, loop_vars, seen, ret>>

Top == stack[Len(stack)]
Below == SubSeq(stack, 1, Len(stack) - 1)

\* Slip: the index does not move on past a child.
EnumKidAgain ==
  LET kid == kids[Top.node][Top.idx]
      advanced == Append(Below, [Top EXCEPT !.idx = @ + 1])
  IN  /\ pc = "enum" /\ stack # <<>> /\ Top.idx < NB
      /\ stack' = IF kid = NULL THEN advanced
                  ELSE Append(stack, [node |-> kid, idx |-> 0])
      /\ UNCHANGED <<node_vars, tree_vars, pc, call, loop_vars, seen, ret>>

\* One iteration of the loop over the children.
EnumKid ==
  LET kid == kids[Top.node][Top.idx]
      advanced == Append(Below, [Top EXCEPT !.idx = @ + 1])
  IN  /\ pc = "enum" /\ stack # <<>> /\ Top.idx < NB
      /\ stack' = IF kid = NULL THEN advanced
                  ELSE Append(advanced, [node |-> kid, idx |-> 0])
      /\ UNCHANGED <<node_vars, tree_vars, pc, call, loop_vars, seen, ret>>

\* The callback: one frees the node it is given, one only looks at it.
Callback ==
  IF call.op = "destroy"
    THEN /\ key' = [key EXCEPT ![Top.node] = NULL]
         /\ data' = [data EXCEPT ![Top.node] = NULL]
         /\ kids' = [kids EXCEPT ![Top.node] = Dirty(Top.node)]
    ELSE UNCHANGED <<node_vars, kids>>

\* Slip: the callback is given a node before its children.
EnumVisitFirst ==
  /\ pc = "enum" /\ stack # <<>>
  /\ \/ /\ Top.idx = 0 /\ Top.node \notin Range(seen)
        /\ Callback
        /\ seen' = Append(seen, Top.node)
        /\ UNCHANGED stack
     \/ /\ Top.idx = NB
        /\ stack' = Below
        /\ UNCHANGED <<seen, node_vars, kids>>
  /\ UNCHANGED <<root, inside, at, pc, call, loop_vars, ret>>

\* The callback returned zero: back to the loop of the parent.
EnumVisit ==
  /\ pc = "enum" /\ stack # <<>> /\ Top.idx = NB
  /\ Callback
  /\ seen' = Append(seen, Top.node)
  /\ stack' = Below
  /\ UNCHANGED <<root, inside, at, pc, call, loop_vars, ret>>

\* The end of an enumeration, with what the callback or the last one returned.
EnumReturn(r) ==
  /\ pc' = "idle" /\ call' = NoCall
  /\ stack' = <<>> /\ seen' = <<>>
  /\ ret' = r
  /\ UNCHANGED loop_vars

\* It returned zero for the root, if any.  A caller who freed all nodes starts afresh.
EnumDone ==
  /\ pc = "enum" /\ stack = <<>>
  /\ EnumReturn(Zero(NULL))
  /\ IF call.op = "destroy"
       THEN root' = NULL /\ inside' = {} /\ at' = [n \in Nodes |-> <<>>]
       ELSE UNCHANGED <<root, inside, at>>
  /\ UNCHANGED <<node_vars, kids>>

\* It returned non-zero: no caller does so while it frees the nodes.
EnumStop ==
  /\ pc = "enum" /\ stack # <<>> /\ Top.idx = NB /\ call.op = "enumerate"
  /\ EnumReturn(NonZero)
  /\ UNCHANGED <<node_vars, tree_vars>>

-----------------------------------------------------------------------------
Running ==
  \/ Descend \/ Get \/ Update \/ InsertExists \/ InsertAttach
  \/ DeleteMissing \/ DeleteFound \/ Rotate \/ Detach
  \/ EnumKid \/ EnumVisit \/ EnumDone \/ EnumStop

Next ==
  \/ \E n \in Nodes, k \in Keys, v \in Values : NodeInit(n, k, v)
  \/ Call
  \/ EnumBegin("enumerate") \/ EnumBegin("destroy")
  \/ Running

Spec == Init /\ [][Next]_vars

-----------------------------------------------------------------------------
(* What the tree, a call and an enumeration may be. *)

Pointers == Nodes \cup {NULL}
Paths == Seq(Digits)
Results == [rc : {"none", "zero", "nonzero"}, p : Pointers \cup Values]

TypeOK ==
  /\ root \in Pointers
  /\ kids \in [Nodes -> [Digits -> Pointers]]
  /\ key \in [Nodes -> Keys \cup {NULL}]
  /\ data \in [Nodes -> Values \cup {NULL}]
  /\ pc \in {"idle", "search", "rotate", "enum"}
  /\ call \in [op : {"none", "insert", "get", "update", "delete", "enumerate",
                     "destroy"},
               key : Keys \cup {NULL}, item : Pointers, val : Values \cup {NULL}]
  /\ slot \in [node : Pointers, idx : Digits]
  /\ cur \in Pointers /\ level \in Nat
  /\ stack \in Seq([node : Nodes, idx : 0 .. NB])
  /\ seen \in Seq(Nodes)
  /\ inside \subseteq Nodes
  /\ at \in [Nodes -> Paths]
  /\ ret \in Results

\* The first l digits of a key.
KeyPath(k, l) == [i \in 1 .. l |-> Digit(k, i - 1)]

\* The node delete is moving down: the one node not where its key leads.
IsVictim(n) == pc = "rotate" /\ n = cur

Destroying == pc = "enum" /\ call.op = "destroy"

\* The pointers form a tree of exactly the nodes inside, each at a place of its
\* own where the digits of its key lead, and no key is there twice.
TreeInv ==
  /\ (root = NULL) <=> (inside = {})
  /\ root # NULL => root \in inside /\ at[root] = <<>>
  /\ \A n \in inside, i \in Digits :
       kids[n][i] # NULL =>
         kids[n][i] \in inside /\ at[kids[n][i]] = Append(at[n], i)
  /\ \A n \in inside : at[n] # <<>> =>
       \E m \in inside : at[m] = Front(at[n]) /\ kids[m][Last(at[n])] = n
  /\ \A m, n \in inside : m # n => at[m] # at[n] /\ key[m] # key[n]
  /\ \A n \in inside : key[n] # NULL
  /\ \A n \in inside : ~IsVictim(n) => at[n] = KeyPath(key[n], Len(at[n]))

\* A search has followed the digits of its key, past nodes with other keys; a
\* deletion holds the pointer to its victim.
CallInv ==
  /\ pc \in {"search", "rotate"} =>
       /\ cur = (IF slot.node = NULL THEN root ELSE kids[slot.node][slot.idx])
       /\ slot.node # NULL => slot.node \in inside
       /\ level = Len(SlotPath)
  /\ pc = "search" =>
       /\ SlotPath = KeyPath(call.key, level)
       /\ \A n \in inside : key[n] = call.key => Len(at[n]) >= level
  /\ pc = "search" /\ call.op = "insert" =>
       call.item \in Nodes /\ key[call.item] = call.key
  /\ pc = "rotate" =>
       call.op = "delete" /\ cur \in inside /\ key[cur] = call.key

\* The tree and the call in progress, for as long as the caller is not freeing
\* the nodes.  It is inductive together with DetachedClean and what an enumeration
\* knows of its activations (StrongInv of StrDictProofs).
IInv == TypeOK /\ (~Destroying => TreeInv /\ CallInv)

\* A node that is set up and not inside has no children left: the caller may
\* insert what delete returned without setting it up again.
DetachedClean ==
  \A n \in Nodes \ inside : key[n] # NULL => kids[n] = NoKids

\* Strings of one length and hash end up in a chain, and nothing else does: how
\* deep enumerate recurses is bounded by the integer key's width and the number
\* of strings that share it, through every insertion and deletion.
HeightBounded ==
  \A n \in inside : ~Destroying /\ ~IsVictim(n) =>
    Len(at[n]) < Width + Cardinality({m \in inside : IKey[key[m]] = IKey[key[n]]})

\* No activation of the enumeration holds a node the callback has freed, and no
\* pointer it has yet to follow leads to one (cop_strdict.h:168-171).
EnumReadsLive ==
  \A f \in Range(stack) :
    /\ key[f.node] # NULL
    /\ \A i \in Digits : i >= f.idx /\ kids[f.node][i] # NULL =>
         key[kids[f.node][i]] # NULL

\* The callback is given a node when it has been given everything below it, and
\* at the depth it is told (cop_strdict.h:152-155, 168-169).
LeavesFirst ==
  [][seen' # seen /\ seen' # <<>> =>
       LET n == Last(seen') IN
       /\ n \notin Range(seen)
       /\ Len(stack) - 1 = Len(at[n])
       /\ \A m \in inside : IsStrictPrefix(at[n], at[m]) => m \in Range(seen)]_vars

\* An enumeration that returns zero has given every node to the callback.
EnumComplete ==
  [][pc = "enum" /\ pc' = "idle" /\ ret'.rc = "zero" => Range(seen) = inside]_vars

\* The nodes at and below a place in the tree.
AtOrBelow(p) == {m \in inside : IsPrefix(p, at[m])}

\* What the running loop or recursion has left to do: nodes to pass, or to put above
\* the victim, or every index of nodes the callback was not given.
Remaining ==
  CASE pc = "search" -> AtOrBelow(SlotPath)
    [] pc = "rotate" -> AtOrBelow(at[cur]) \ {cur}
    [] pc = "enum" -> {x \in inside \X (0 .. NB) :
                         /\ x[1] \notin Range(seen)
                         /\ \A f \in Range(stack) : f.node = x[1] => f.idx <= x[2]}
    [] OTHER -> {}

\* Every call returns, whatever chain of colliding strings it works on: each
\* step that is not its last leaves it less to do, so no loop or recursion runs
\* in a circle (a running call always has a step: the run checks for deadlock).
CallsAdvance ==
  [][pc # "idle" /\ pc' # "idle" =>
       IsFiniteSet(Remaining) /\ Cardinality(Remaining') < Cardinality(Remaining)]_vars

\* What a caller is told of the dictionary, from when it is not being torn down.
Map == [k \in Keys |->
         IF Destroying \/ \A n \in inside : key[n] # k THEN NULL
         ELSE CHOOSE n \in inside : key[n] = k]

SM == INSTANCE StrMap WITH map <- Map

\* Trees, hashes and rotations cannot be told from a map of strings.
Implements == SM!Spec
=============================================================================
