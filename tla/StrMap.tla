------------------------------- MODULE StrMap -------------------------------
(***************************************************************************)
(* What cop_strdict.h promises: a finite map from strings to the nodes the *)
(* caller inserted, each holding a data pointer.  Nothing here knows of    *)
(* hashes or of the tree.  A call is made in one step and answered in one. *)
(***************************************************************************)
CONSTANTS Keys, Nodes, Values, NULL

VARIABLES
  map,   \* For each key the node inserted under it, or NULL.
  key,   \* The key a node was set up with, NULL if it is not set up.
  data,  \* The data pointer of a node.
  call,  \* The call that is not answered yet: its name and arguments.
  ret    \* What the last call returned: its int, if it has one, and a pointer.

vars == <<map, key, data, call, ret>>

Void == [rc |-> "none", p |-> NULL]
Zero(p) == [rc |-> "zero", p |-> p]
NonZero == [rc |-> "nonzero", p |-> NULL]
Pointer(p) == [rc |-> "none", p |-> p]

NoCall == [op |-> "none", key |-> NULL, item |-> NULL, val |-> NULL]

NoMap == [k \in Keys |-> NULL]

Outside(n) == \A k \in Keys : map[k] # n

Found == map[call.key] # NULL

Init ==
  /\ map = NoMap
  /\ key = [n \in Nodes |-> NULL]
  /\ data = [n \in Nodes |-> NULL]
  /\ call = NoCall /\ ret = Void

\* The caller prepares a node that is not in the dictionary.
NodeInit(n, k, v) ==
  /\ call = NoCall /\ Outside(n)
  /\ key' = [key EXCEPT ![n] = k]
  /\ data' = [data EXCEPT ![n] = v]
  /\ ret' = Void
  /\ UNCHANGED <<map, call>>

\* A call that means to free every node gives the dictionary up.
Invoke ==
  /\ call = NoCall
  /\ \/ \E n \in Nodes : /\ key[n] # NULL
                         /\ call' = [NoCall EXCEPT !.op = "insert",
                                                   !.key = key[n], !.item = n]
     \/ \E k \in Keys, o \in {"get", "delete"} :
          call' = [NoCall EXCEPT !.op = o, !.key = k]
     \/ \E k \in Keys, v \in Values :
          call' = [NoCall EXCEPT !.op = "update", !.key = k, !.val = v]
     \/ \E o \in {"enumerate", "destroy"} : call' = [NoCall EXCEPT !.op = o]
  /\ map' = IF call'.op = "destroy" THEN NoMap ELSE map
  /\ UNCHANGED <<key, data, ret>>

Answer(r) == call' = NoCall /\ ret' = r

\* No change is made to the dictionary that has the key (cop_strdict.h:76-78).
Insert ==
  /\ call.op = "insert"
  /\ \/ Found /\ Answer(NonZero) /\ UNCHANGED map
     \/ /\ ~Found /\ Answer(Zero(NULL))
        /\ map' = [map EXCEPT ![call.key] = call.item]
  /\ UNCHANGED <<key, data>>

Get ==
  /\ call.op = "get"
  /\ Answer(IF Found THEN Zero(data[map[call.key]]) ELSE NonZero)
  /\ UNCHANGED <<map, key, data>>

Update ==
  /\ call.op = "update"
  /\ \/ ~Found /\ Answer(NonZero) /\ UNCHANGED data
     \/ /\ Found /\ Answer(Zero(NULL))
        /\ data' = [data EXCEPT ![map[call.key]] = call.val]
  /\ UNCHANGED <<map, key>>

\* The node comes back to the caller, who may insert it again as it is.
Delete ==
  /\ call.op = "delete"
  /\ Answer(Pointer(map[call.key]))
  /\ map' = [map EXCEPT ![call.key] = NULL]
  /\ UNCHANGED <<key, data>>

\* A callback frees a node of the dictionary that was given up.
NodeFree(n) ==
  /\ call.op = "destroy"
  /\ key' = [key EXCEPT ![n] = NULL]
  /\ data' = [data EXCEPT ![n] = NULL]
  /\ UNCHANGED <<map, call, ret>>

\* An enumeration ended; one that frees no node may be stopped early.
Enumerate ==
  /\ \/ call.op \in {"enumerate", "destroy"} /\ Answer(Zero(NULL))
     \/ call.op = "enumerate" /\ Answer(NonZero)
  /\ UNCHANGED <<map, key, data>>

Next ==
  \/ \E n \in Nodes, k \in Keys, v \in Values : NodeInit(n, k, v)
  \/ Invoke
  \/ Insert \/ Get \/ Update \/ Delete \/ Enumerate
  \/ \E n \in Nodes : NodeFree(n)

Spec == Init /\ [][Next]_vars
=============================================================================
