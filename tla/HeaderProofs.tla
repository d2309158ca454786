---------------------------- MODULE HeaderProofs ----------------------------
(***************************************************************************)
(* Proofs about the header-only parts: the log calls of cop_log.h, for any *)
(* tags and any number of calls, in every build; the string handles of     *)
(* cop_strtypes.h, for any number of values of a character and of a hash   *)
(* and for strings of any length; the loads and stores of                  *)
(* cop_conversions.h, for any even number of values of a byte; and the     *)
(* vectors of cop_vec.h, in every implementation, for any elements.        *)
(***************************************************************************)
EXTENDS MCHeaders, SequenceTheorems, WellFoundedInduction, TLAPS

vars == <<client, vec_vars, conversion_vars, hash_vars, log_vars>>

-----------------------------------------------------------------------------
(* Sequences and smallest elements.                                        *)

\* What SubSeq keeps of a prefix, element by element.
LEMMA PrefixFacts ==
  ASSUME NEW S, NEW q \in Seq(S), NEW n \in 0 .. Len(q)
  PROVE  /\ SubSeq(q, 1, n) \in Seq(S)
         /\ Len(SubSeq(q, 1, n)) = n
         /\ \A i \in 1 .. n : SubSeq(q, 1, n)[i] = q[i]
OBVIOUS

\* Tuples of one and two elements, put together one by one.
LEMMA Singleton ==
  ASSUME NEW x
  PROVE  Append(<<>>, x) = <<x>>
<1> DEFINE q == Append(<<>>, x)
           r == <<x>>
<1>1. <<>> \in Seq({x})
  OBVIOUS
<1>2. q \in Seq({x}) /\ Len(q) = 1 /\ q[1] = x
  BY <1>1, AppendProperties
<1>3. r \in Seq({x}) /\ Len(r) = 1 /\ r[1] = x
  OBVIOUS
<1> HIDE DEF q, r
<1>4. q = r
  BY <1>2, <1>3, SeqEqual, SMT
<1> QED
  BY <1>4 DEF q, r

LEMMA Pair ==
  ASSUME NEW x, NEW y
  PROVE  Append(<<y>>, x) = <<y, x>>
<1> DEFINE q == Append(<<y>>, x)
           r == <<y, x>>
<1>1. <<y>> \in Seq({x, y}) /\ Len(<<y>>) = 1 /\ <<y>>[1] = y
  OBVIOUS
<1>2. q \in Seq({x, y}) /\ Len(q) = 2 /\ q[1] = y /\ q[2] = x
  BY <1>1, AppendProperties
<1>3. r \in Seq({x, y}) /\ Len(r) = 2 /\ r[1] = y /\ r[2] = x
  OBVIOUS
<1> HIDE DEF q, r
<1>4. q = r
  BY <1>2, <1>3, SeqEqual, SMT
<1> QED
  BY <1>4 DEF q, r

\* Any set of numbers that is not empty has a smallest element.
LEMMA SmallestNat ==
  ASSUME NEW T, T \subseteq Nat, T # {}
  PROVE  \E n \in T : \A k \in T : n <= k
<1>1. PICK n \in T : \A k \in T : ~(<<k, n>> \in OpToRel(<, Nat))
  BY NatLessThanWellFounded, WFMin
<1>2. \A k \in T : ~(k < n)
  BY <1>1 DEF OpToRel
<1> QED
  BY <1>2

-----------------------------------------------------------------------------
(* Logging.                                                                *)

AllTags == {NULL, <<"file">>} \cup {<<tags>> : tags \in Tags}
             \cup {<<"file", tags>> : tags \in Tags}

Builds == [c99 : BOOLEAN, ndebug : BOOLEAN, file_tag : G!Flag, trace : G!Flag,
           debug : G!Flag, warning : G!Flag, error : G!Flag]

LogCalls == [type : G!Types, tags : Tags \cup {NULL}, arg : Nat]
LogEvents == [type : G!Types, tags : AllTags, arg : Nat]

LogTyped ==
  /\ build \in Builds /\ iface \in BOOLEAN
  /\ calls \in Seq(LogCalls) /\ events \in Seq(LogEvents)

\* An event is the call it tells of.
Tells(e) ==
  /\ e.arg \in DOMAIN calls
  /\ e.type = calls[e.arg].type
  /\ e.tags = G!TagsOf(calls[e.arg].tags)

InOrder == \A j, k \in DOMAIN events : j < k => events[j].arg < events[k].arg

\* The calls that arrived are those whose type the build has.
Arrived ==
  \A i \in DOMAIN calls : G!Delivered(i) <=> iface /\ G!Enabled(calls[i].type)

LogInv ==
  /\ LogTyped
  /\ ~iface => events = <<>>
  /\ \A j \in DOMAIN events : Tells(events[j])
  /\ InOrder
  /\ Arrived

\* A macro and a function pass the tags their build is to give.
LEMMA LogTags ==
  ASSUME LogTyped, NEW tags \in Tags \cup {NULL}
  PROVE  /\ build.c99 => G!MacroTags(tags) = G!TagsOf(tags)
         /\ ~build.c99 => G!FunctionTags(tags) = G!TagsOf(tags)
         /\ G!TagsOf(tags) \in AllTags
<1>1. build.file_tag \in {"undefined", "zero", "one"}
  BY DEF LogTyped, Builds, G!Flag
<1>2. ASSUME build.c99
      PROVE  G!MacroTags(tags) = G!TagsOf(tags)
  <2>1. G!FileTag = IF build.file_tag # "zero" THEN <<"file">> ELSE <<>>
    BY <1>1 DEF G!FileTag, G!Defaulted
  <2>2. Append(<<>>, tags) = <<tags>> /\ Append(<<"file">>, tags) = <<"file", tags>>
    BY Singleton, Pair
  <2> QED
    BY <1>2, <2>1, <2>2 DEF G!MacroTags, G!TagsOf, G!FileTagged
<1>3. ~build.c99 => G!FunctionTags(tags) = G!TagsOf(tags)
  BY DEF G!FunctionTags, G!TagsOf, G!FileTagged
<1>4. G!TagsOf(tags) \in AllTags
  BY DEF G!TagsOf, AllTags
<1> QED
  BY <1>2, <1>3, <1>4

\* One call, which the build has and the interface gets, or not.
LEMMA LogStep ==
  ASSUME LogInv, NEW ty \in G!Types, NEW tags \in Tags \cup {NULL},
         NEW given, given = G!TagsOf(tags),
         build' = build, iface' = iface,
         calls' = Append(calls, [type |-> ty, tags |-> tags, arg |-> Len(calls) + 1]),
         IF G!Enabled(ty) /\ iface THEN G!Deliver(ty, given, Len(calls) + 1)
         ELSE UNCHANGED events
  PROVE  LogInv'
<1> DEFINE c == [type |-> ty, tags |-> tags, arg |-> Len(calls) + 1]
           e == [type |-> ty, tags |-> given, arg |-> Len(calls) + 1]
           n == Len(calls)
<1>1. LogTyped /\ n \in Nat
  BY DEF LogInv, LogTyped
<1>2. c \in LogCalls /\ c.type = ty /\ c.tags = tags
  BY <1>1 DEF LogCalls
<1>3. e \in LogEvents /\ e.arg = n + 1 /\ e.type = ty /\ e.tags = given
  BY <1>1, LogTags DEF LogEvents
<1>4. /\ calls' \in Seq(LogCalls) /\ DOMAIN calls = 1 .. n /\ DOMAIN calls' = 1 .. n + 1
      /\ calls'[n + 1] = c /\ \A i \in 1 .. n : calls'[i] = calls[i]
  BY <1>1, <1>2 DEF LogTyped
<1>5. CASE G!Enabled(ty) /\ iface
  <2> DEFINE m == Len(events)
  <2>1. m \in Nat /\ events' = Append(events, e)
    <3>1. events' = Append(events, e)
      BY <1>5 DEF G!Deliver
    <3> QED
      BY <1>1, <3>1 DEF LogTyped
  <2>2. /\ events' \in Seq(LogEvents) /\ DOMAIN events = 1 .. m /\ DOMAIN events' = 1 .. m + 1
        /\ events'[m + 1] = e /\ \A j \in 1 .. m : events'[j] = events[j]
    BY <1>1, <1>3, <2>1 DEF LogTyped
  <2> HIDE DEF c, e, n, m
  <2>3. LogTyped' /\ (~iface => events = <<>>)'
    BY <1>1, <1>4, <1>5, <2>2 DEF LogTyped, Builds
  <2>4. \A j \in DOMAIN events : events[j].arg \in 1 .. n
    BY <1>4 DEF LogInv, Tells
  <2>5. (\A j \in DOMAIN events : Tells(events[j]))'
    <3> SUFFICES ASSUME NEW j \in 1 .. m + 1
                 PROVE  /\ events'[j].arg \in DOMAIN calls'
                        /\ events'[j].type = calls'[events'[j].arg].type
                        /\ events'[j].tags = G!TagsOf(calls'[events'[j].arg].tags)
      BY <2>2 DEF Tells, G!TagsOf, G!FileTagged
    <3>1. CASE j = m + 1
      <4>1. events'[j].arg = n + 1 /\ events'[j].type = ty /\ events'[j].tags = given
        BY <1>3, <2>2, <3>1
      <4> QED
        BY <1>1, <1>2, <1>4, <4>1
    <3>2. CASE j # m + 1
      <4>1. j \in DOMAIN events /\ events'[j] = events[j]
        BY <2>1, <2>2, <3>2
      <4>2. Tells(events[j]) /\ events[j].arg \in 1 .. n
        BY <2>4, <4>1 DEF LogInv
      <4>3. events[j].arg \in 1 .. n + 1
        BY <1>1, <4>2
      <4> QED
        BY <1>4, <4>1, <4>2, <4>3 DEF Tells
    <3> QED
      BY <3>1, <3>2
  <2>6. InOrder'
    <3> SUFFICES ASSUME NEW j \in 1 .. m + 1, NEW k \in 1 .. m + 1, j < k
                 PROVE  events'[j].arg < events'[k].arg
      BY <2>2 DEF InOrder
    <3>1. j \in 1 .. m /\ events'[j] = events[j]
      BY <2>1, <2>2
    <3>2. CASE k = m + 1
      <4>1. events'[k].arg = n + 1 /\ events'[j].arg \in 1 .. n
        BY <1>3, <2>2, <2>4, <3>1, <3>2
      <4> QED
        BY <1>1, <4>1
    <3>3. CASE k # m + 1
      <4>1. k \in 1 .. m /\ events'[k] = events[k]
        BY <2>1, <2>2, <3>3
      <4> QED
        BY <2>2, <3>1, <4>1 DEF LogInv, InOrder
    <3> QED
      BY <3>2, <3>3
  <2>7. Arrived'
    <3> SUFFICES ASSUME NEW i \in 1 .. n + 1
                 PROVE  (\E j \in DOMAIN events' : events'[j].arg = i)
                          <=> iface /\ G!Enabled(calls'[i].type)
      BY <1>4 DEF Arrived, G!Delivered, G!Enabled, G!Defaulted
    <3>1. CASE i = n + 1
      <4>1. events'[m + 1].arg = i /\ m + 1 \in DOMAIN events'
        BY <1>3, <2>1, <2>2, <3>1
      <4>2. calls'[i].type = ty
        BY <1>2, <1>4, <3>1
      <4> QED
        BY <1>5, <4>1, <4>2
    <3>2. CASE i # n + 1
      <4>1. i \in DOMAIN calls /\ calls'[i] = calls[i]
        BY <1>1, <1>4, <3>2
      <4>2. events'[m + 1].arg # i
        BY <1>3, <2>2, <3>2
      <4>3. (\E j \in DOMAIN events' : events'[j].arg = i)
              <=> (\E j \in DOMAIN events : events[j].arg = i)
        <5>1. \A j \in 1 .. m + 1 : j \in 1 .. m \/ j = m + 1
          BY <2>1
        <5>2. \A j \in 1 .. m : j \in 1 .. m + 1
          BY <2>1
        <5> QED
          BY <2>2, <4>2, <5>1, <5>2
      <4> QED
        BY <4>1, <4>3 DEF LogInv, Arrived, G!Delivered
    <3> QED
      BY <3>1, <3>2
  <2> QED
    BY <2>3, <2>5, <2>6, <2>7 DEF LogInv
<1>6. CASE ~(G!Enabled(ty) /\ iface)
  <2>1. events' = events
    BY <1>6
  <2> HIDE DEF c, e, n
  <2>2. LogTyped' /\ (~iface => events = <<>>)' /\ InOrder'
    BY <1>1, <1>4, <2>1 DEF LogInv, LogTyped, Builds, InOrder
  <2>3. (\A j \in DOMAIN events : Tells(events[j]))'
    <3> SUFFICES ASSUME NEW j \in DOMAIN events
                 PROVE  /\ events[j].arg \in DOMAIN calls'
                        /\ events[j].type = calls'[events[j].arg].type
                        /\ events[j].tags = G!TagsOf(calls'[events[j].arg].tags)
      BY <2>1 DEF Tells, G!TagsOf, G!FileTagged
    <3>1. Tells(events[j]) /\ events[j].arg \in 1 .. n
      BY <1>4 DEF LogInv, Tells
    <3>2. events[j].arg \in 1 .. n + 1
      BY <1>1, <3>1
    <3> QED
      BY <1>4, <3>1, <3>2 DEF Tells
  <2>4. Arrived'
    <3> SUFFICES ASSUME NEW i \in 1 .. n + 1
                 PROVE  (\E j \in DOMAIN events : events[j].arg = i)
                          <=> iface /\ G!Enabled(calls'[i].type)
      BY <1>4, <2>1 DEF Arrived, G!Delivered, G!Enabled, G!Defaulted
    <3>1. CASE i = n + 1
      <4>1. calls'[i].type = ty
        BY <1>2, <1>4, <3>1
      <4>2. \A j \in DOMAIN events : events[j].arg \in 1 .. n
        BY <1>4 DEF LogInv, Tells
      <4>3. \A j \in DOMAIN events : events[j].arg # i
        BY <1>1, <3>1, <4>2
      <4> QED
        BY <1>6, <4>1, <4>3
    <3>2. CASE i # n + 1
      <4>1. i \in DOMAIN calls /\ calls'[i] = calls[i]
        BY <1>1, <1>4, <3>2
      <4> QED
        BY <4>1 DEF LogInv, Arrived, G!Delivered
    <3> QED
      BY <3>1, <3>2
  <2> QED
    BY <2>2, <2>3, <2>4 DEF LogInv
<1> QED
  BY <1>5, <1>6

\* A call of the log through the macros or the functions.
LEMMA LogNext == LogInv /\ G!Next => LogInv'
<1> SUFFICES ASSUME LogInv, G!Next
             PROVE  LogInv'
  OBVIOUS
<1>1. PICK ty \in G!Types, tags \in Tags \cup {NULL} :
        G!LogMacro(ty, tags, Len(calls) + 1) \/ G!LogFunction(ty, tags, Len(calls) + 1)
  BY DEF G!Next
<1>2. CASE G!LogMacro(ty, tags, Len(calls) + 1)
  <2>1. /\ build' = build /\ iface' = iface
        /\ calls' = Append(calls, [type |-> ty, tags |-> tags, arg |-> Len(calls) + 1])
    BY <1>2 DEF G!LogMacro, G!Called
  <2>2. IF G!Enabled(ty) /\ iface THEN G!Deliver(ty, G!MacroTags(tags), Len(calls) + 1)
        ELSE UNCHANGED events
    BY <1>2 DEF G!LogMacro
  <2>3. LogTyped /\ build.c99
    BY <1>2 DEF G!LogMacro, LogInv
  <2> QED
    BY <2>1, <2>2, <2>3, LogTags, LogStep
<1>3. CASE G!LogFunction(ty, tags, Len(calls) + 1)
  <2>1. /\ build' = build /\ iface' = iface
        /\ calls' = Append(calls, [type |-> ty, tags |-> tags, arg |-> Len(calls) + 1])
    BY <1>3 DEF G!LogFunction, G!Called
  <2>2. IF G!Enabled(ty) /\ iface THEN G!Deliver(ty, G!FunctionTags(tags), Len(calls) + 1)
        ELSE UNCHANGED events
    BY <1>3 DEF G!LogFunction
  <2>3. LogTyped /\ ~build.c99
    BY <1>3 DEF G!LogFunction, LogInv
  <2> QED
    BY <2>1, <2>2, <2>3, LogTags, LogStep
<1> QED
  BY <1>1, <1>2, <1>3

LEMMA LogInit == G!Init => LogInv
<1> SUFFICES ASSUME G!Init
             PROVE  LogInv
  OBVIOUS
<1>1. build \in Builds /\ iface \in BOOLEAN /\ calls = <<>> /\ events = <<>>
  BY DEF G!Init, Builds
<1>2. <<>> \in Seq(LogCalls) /\ <<>> \in Seq(LogEvents) /\ DOMAIN <<>> = {}
  OBVIOUS
<1> QED
  BY <1>1, <1>2 DEF LogInv, LogTyped, InOrder, Arrived

\* No other client touches the log.
LEMMA LogUnchanged == LogInv /\ UNCHANGED log_vars => LogInv'
<1> SUFFICES ASSUME LogInv, UNCHANGED log_vars
             PROVE  LogInv'
  OBVIOUS
<1>1. build' = build /\ iface' = iface /\ calls' = calls /\ events' = events
  BY DEF log_vars
<1>2. LogTyped' /\ (~iface => events = <<>>)' /\ InOrder'
  BY <1>1 DEF LogInv, LogTyped, Builds, InOrder
<1>3. (\A j \in DOMAIN events : Tells(events[j]))'
  BY <1>1 DEF LogInv, Tells, G!TagsOf, G!FileTagged
<1>4. Arrived'
  BY <1>1 DEF LogInv, Arrived, G!Delivered, G!Enabled, G!Defaulted
<1> QED
  BY <1>2, <1>3, <1>4 DEF LogInv

\* What the flags enable once they have their defaults is what a build is to have.
LEMMA EnabledExists ==
  ASSUME LogTyped, NEW ty \in G!Types
  PROVE  G!Enabled(ty) <=> G!Exists(ty)
<1>1. /\ build["trace"] \in {"undefined", "zero", "one"}
      /\ build["debug"] \in {"undefined", "zero", "one"}
      /\ build["warning"] \in {"undefined", "zero", "one"}
      /\ build["error"] \in {"undefined", "zero", "one"}
  BY DEF LogTyped, Builds, G!Flag
<1>2. CASE ty = "trace"
  BY <1>1, <1>2 DEF G!Enabled, G!Exists, G!Defaulted, G!Types
<1>3. CASE ty = "debug"
  BY <1>1, <1>3 DEF G!Enabled, G!Exists, G!Defaulted, G!Types
<1>4. CASE ty \in {"warning", "error"}
  BY <1>1, <1>4 DEF G!Enabled, G!Exists, G!Defaulted, G!Types
<1> QED
  BY <1>2, <1>3, <1>4 DEF G!Types

\* What arrived is right, since the flags decide by type alone.
LEMMA LogRight == LogInv => G!LogsDelivered
<1> SUFFICES ASSUME LogInv
             PROVE  G!LogsDelivered
  OBVIOUS
<1>1. \A i \in DOMAIN calls : calls[i].type \in G!Types
  <2>1. \A i \in DOMAIN calls : calls[i] \in LogCalls
    BY DEF LogInv, LogTyped
  <2> QED
    BY <2>1 DEF LogCalls
<1>2. \A i \in DOMAIN calls : G!Delivered(i) <=> iface /\ G!Exists(calls[i].type)
  <2>1. \A i \in DOMAIN calls : G!Enabled(calls[i].type) <=> G!Exists(calls[i].type)
    BY <1>1, EnabledExists DEF LogInv
  <2> QED
    BY <2>1 DEF LogInv, Arrived
<1>3. \A j \in DOMAIN events :
        /\ \A k \in DOMAIN events : j < k => events[j].arg < events[k].arg
        /\ events[j].arg \in DOMAIN calls
        /\ events[j].type = calls[events[j].arg].type
        /\ events[j].tags = G!TagsOf(calls[events[j].arg].tags)
  BY DEF LogInv, Tells, InOrder
<1> QED
  BY <1>2, <1>3 DEF G!LogsDelivered

\* As macros or as functions and under any setting of the flags, the callback of
\* cop_log.h is given just the calls whose message exists in that build, once and
\* in the order they were made, each with its type and its caller's tags, which
\* the file precedes where the build has it.
THEOREM LogsDeliver == Spec => []LogsDelivered
<1> DEFINE Inv == client = "log" => LogInv
<1>1. Init => Inv
  BY LogInit DEF Init
<1>2. Inv /\ [Next]_vars => Inv'
  <2> SUFFICES ASSUME Inv, [Next]_vars, client' = "log"
               PROVE  LogInv'
    OBVIOUS
  <2>1. client = "log" /\ (G!Next \/ UNCHANGED log_vars)
    BY DEF Next, vars
  <2> QED
    BY <2>1, LogNext, LogUnchanged
<1>3. Inv => LogsDelivered
  BY LogRight DEF LogsDelivered
<1>4. Spec => Init /\ [][Next]_vars
  BY DEF Spec, vars
<1> HIDE DEF Inv
<1> QED
  BY <1>1, <1>2, <1>3, <1>4, PTL

-----------------------------------------------------------------------------
(* String handles.                                                         *)

\* The hash after one more character.
After(h, ch) == (H!Xor(h, H!Widened(ch)) * Prime) % Word

\* The hash of the first n characters of s: the last of a trace of the loop.
IsHash(s, n, h) ==
  \E t : /\ t[0] = Basis /\ t[n] = h
         /\ \A i \in 1 .. n : t[i] = After(t[i - 1], s[i])

\* The loop has passed n characters of s.
ReadUpTo(s, n) == n \in 0 .. Size - 1 /\ \A i \in 1 .. n : s[i] # 0

IsHandle(x, s) ==
  /\ x = [len |-> x.len, hash |-> x.hash]
  /\ x.len \in 1 .. Size /\ s[x.len] = 0
  /\ ReadUpTo(s, x.len - 1)
  /\ IsHash(s, x.len - 1, x.hash)

HashInv ==
  /\ text \in [1 .. 2 -> H!Strings]
  /\ (\E S : handle \in Seq(S)) /\ Len(handle) \in 0 .. 2
  /\ H!Busy => ReadUpTo(H!Current, length) /\ IsHash(H!Current, length, hash)
  /\ \A k \in 1 .. Len(handle) : IsHandle(handle[k], text[k])

\* One more character, one more step of a trace.
LEMMA HashGrows ==
  ASSUME NEW s, NEW n \in Nat, NEW h, IsHash(s, n, h)
  PROVE  IsHash(s, n + 1, After(h, s[n + 1]))
<1>1. PICK t : /\ t[0] = Basis /\ t[n] = h
               /\ \A i \in 1 .. n : t[i] = After(t[i - 1], s[i])
  BY DEF IsHash
<1> DEFINE u == [i \in 0 .. n + 1 |-> IF i = n + 1 THEN After(h, s[n + 1]) ELSE t[i]]
<1>2. u[n + 1] = After(h, s[n + 1]) /\ \A i \in 0 .. n : u[i] = t[i]
  OBVIOUS
<1> HIDE DEF u
<1>3. ASSUME NEW i \in 1 .. n + 1
      PROVE  u[i] = After(u[i - 1], s[i])
  <2>1. i - 1 \in 0 .. n /\ u[i - 1] = t[i - 1]
    BY <1>2
  <2>2. CASE i = n + 1
    <3>1. i - 1 = n
      BY <2>2
    <3> QED
      BY <1>1, <1>2, <2>1, <2>2, <3>1
  <2>3. CASE i # n + 1
    <3>1. i \in 1 .. n /\ i \in 0 .. n
      BY <2>3
    <3> QED
      BY <1>1, <1>2, <2>1, <3>1
  <2> QED
    BY <2>2, <2>3
<1>4. u[0] = Basis
  BY <1>1, <1>2
<1> QED
  BY <1>2, <1>3, <1>4 DEF IsHash

\* Equal characters give equal hashes: two traces that differed would differ
\* somewhere first, though not at the start and not after an equal hash.
LEMMA HashUnique ==
  ASSUME NEW s, NEW r, NEW n \in Nat, \A i \in 1 .. n : s[i] = r[i],
         NEW h, NEW g, IsHash(s, n, h), IsHash(r, n, g)
  PROVE  h = g
<1>1. PICK t : /\ t[0] = Basis /\ t[n] = h
               /\ \A i \in 1 .. n : t[i] = After(t[i - 1], s[i])
  BY DEF IsHash
<1>2. PICK u : /\ u[0] = Basis /\ u[n] = g
               /\ \A i \in 1 .. n : u[i] = After(u[i - 1], r[i])
  BY DEF IsHash
<1> DEFINE Differ == {i \in 0 .. n : t[i] # u[i]}
<1>3. CASE Differ = {}
  BY <1>1, <1>2, <1>3
<1>4. CASE Differ # {}
  <2>1. PICK i \in Differ : \A k \in Differ : i <= k
    <3>1. Differ \subseteq Nat
      OBVIOUS
    <3> HIDE DEF Differ
    <3> QED
      BY <1>4, <3>1, SmallestNat
  <2>2. i \in 0 .. n /\ t[i] # u[i]
    OBVIOUS
  <2>3. i \in 1 .. n /\ i - 1 \in 0 .. n
    BY <1>1, <1>2, <2>2
  <2>4. i - 1 \notin Differ
    BY <2>1, <2>3
  <2>5. t[i - 1] = u[i - 1]
    BY <2>3, <2>4
  <2>6. t[i] = After(t[i - 1], s[i]) /\ u[i] = After(u[i - 1], r[i]) /\ s[i] = r[i]
    BY <1>1, <1>2, <2>3
  <2> QED
    BY <2>2, <2>5, <2>6, Zenon
<1> QED
  BY <1>3, <1>4

\* The memory of a string is a sequence.
LEMMA StringIsSeq ==
  ASSUME Size \in Nat \ {0}, NEW s \in H!Strings
  PROVE  s \in Seq(0 .. Char - 1) /\ Len(s) = Size
<1> DEFINE Chars == 0 .. Char - 1
<1>1. s \in [1 .. Size -> Chars]
  BY DEF H!Strings
<1> HIDE DEF Chars
<1>2. s \in Seq(Chars) /\ Len(s) = Size
  BY <1>1
<1> QED
  BY <1>2 DEF Chars

\* The first terminator ends a string, and no other position does.
LEMMA ContentOfHandle ==
  ASSUME NEW s \in H!Strings, NEW x, IsHandle(x, s)
  PROVE  H!Content(s) = SubSeq(s, 1, x.len - 1)
<1> DEFINE First(i) == s[i] = 0 /\ \A j \in 1 .. i - 1 : s[j] # 0
<1>1. x.len \in 1 .. Size /\ First(x.len)
  BY DEF IsHandle, ReadUpTo
<1>2. ASSUME NEW i \in 1 .. Size, First(i)
      PROVE  i = x.len
  <2>1. ~(i < x.len)
    BY <1>1, <1>2
  <2>2. ~(x.len < i)
    BY <1>1, <1>2
  <2> QED
    BY <1>1, <2>1, <2>2
<1>3. (CHOOSE i \in 1 .. Size : First(i)) = x.len
  BY <1>1, <1>2
<1> QED
  BY <1>3 DEF H!Content

SameBytes(x, s, y, r) == SubSeq(s, 1, x.len) = SubSeq(r, 1, y.len)

\* The strings of two handles agree up to their terminators, counted or not, in
\* the same case, and then so do the hashes.
LEMMA HandlesMatch ==
  ASSUME Size \in Nat \ {0},
         NEW s \in H!Strings, NEW x, IsHandle(x, s),
         NEW r \in H!Strings, NEW y, IsHandle(y, r)
  PROVE  x = y /\ SameBytes(x, s, y, r) <=> H!Content(s) = H!Content(r)
<1> DEFINE Chars == 0 .. Char - 1
<1>1. s \in Seq(Chars) /\ r \in Seq(Chars) /\ Len(s) = Size /\ Len(r) = Size
  BY StringIsSeq
<1> HIDE DEF Chars
<1>2. x.len \in 1 .. Size /\ y.len \in 1 .. Size /\ s[x.len] = 0 /\ r[y.len] = 0
  BY DEF IsHandle
<1>3. /\ x.len \in 0 .. Len(s) /\ x.len - 1 \in 0 .. Len(s)
      /\ y.len \in 0 .. Len(r) /\ y.len - 1 \in 0 .. Len(r)
  BY <1>1, <1>2
<1>4. H!Content(s) = SubSeq(s, 1, x.len - 1) /\ H!Content(r) = SubSeq(r, 1, y.len - 1)
  BY ContentOfHandle
<1>5. ASSUME x = y, SubSeq(s, 1, x.len) = SubSeq(r, 1, y.len)
      PROVE  SubSeq(s, 1, x.len - 1) = SubSeq(r, 1, y.len - 1)
  <2>1. \A i \in 1 .. x.len : s[i] = r[i]
    BY <1>1, <1>3, <1>5, PrefixFacts
  <2>2. \A i \in 1 .. x.len - 1 : i \in 1 .. x.len
    BY <1>2
  <2> QED
    BY <1>1, <1>3, <1>5, <2>1, <2>2, PrefixFacts, SeqEqual
<1>6. ASSUME SubSeq(s, 1, x.len - 1) = SubSeq(r, 1, y.len - 1)
      PROVE  x = y /\ SubSeq(s, 1, x.len) = SubSeq(r, 1, y.len)
  <2>1. /\ x.len - 1 = y.len - 1
        /\ \A i \in 1 .. x.len - 1 : s[i] = r[i]
    BY <1>1, <1>3, <1>6, PrefixFacts
  <2>2. x.len = y.len
    BY <1>2, <2>1
  <2>3. \A i \in 1 .. x.len : s[i] = r[i]
    <3>1. \A i \in 1 .. x.len : i = x.len \/ i \in 1 .. x.len - 1
      BY <1>2
    <3> QED
      BY <1>2, <2>1, <2>2, <3>1
  <2>4. SubSeq(s, 1, x.len) = SubSeq(r, 1, y.len)
    BY <1>1, <1>3, <2>2, <2>3, PrefixFacts, SeqEqual
  <2>5. x.hash = y.hash
    <3>1. IsHash(s, x.len - 1, x.hash) /\ IsHash(r, x.len - 1, y.hash)
      BY <2>2 DEF IsHandle
    <3>2. x.len - 1 \in Nat
      BY <1>2
    <3> QED
      BY <2>1, <3>1, <3>2, HashUnique
  <2>6. x = y
    BY <2>2, <2>5 DEF IsHandle
  <2> QED
    BY <2>4, <2>6
<1> QED
  BY <1>4, <1>5, <1>6 DEF SameBytes

\* Before a string is read: no characters, and the hash of those.
LEMMA HashStarts ==
  ASSUME Size \in Nat \ {0}, NEW s
  PROVE  ReadUpTo(s, 0) /\ IsHash(s, 0, Basis)
<1> DEFINE t == [i \in {0} |-> Basis]
<1>1. t[0] = Basis /\ \A i \in 1 .. 0 : t[i] = After(t[i - 1], s[i])
  OBVIOUS
<1>2. IsHash(s, 0, Basis)
  BY <1>1 DEF IsHash
<1>3. ReadUpTo(s, 0)
  BY DEF ReadUpTo
<1> QED
  BY <1>2, <1>3

\* A hash depends on the build, which stays as it is.
LEMMA HashKept ==
  signed_char' = signed_char => \A h, ch : After(h, ch)' = After(h, ch)
<1> SUFFICES ASSUME signed_char' = signed_char, NEW h, NEW ch
             PROVE  After(h, ch)' = After(h, ch)
  OBVIOUS
<1>1. H!Widened(ch)' = H!Widened(ch)
  BY DEF H!Widened
<1>2. H!Xor(h, H!Widened(ch))' = H!Xor(h, H!Widened(ch))
  BY <1>1
<1> QED
  BY <1>2 DEF After

\* Nor does a step forget a handle.
LEMMA HandleKept ==
  ASSUME signed_char' = signed_char, text' = text, NEW k, handle'[k] = handle[k],
         IsHandle(handle[k], text[k])
  PROVE  IsHandle(handle[k], text[k])'
<1>1. IsHash(text[k], handle[k].len - 1, handle[k].hash)'
  BY HashKept DEF IsHandle, IsHash
<1>2. ReadUpTo(text[k], handle[k].len - 1)'
  BY DEF IsHandle, ReadUpTo
<1> QED
  BY <1>1, <1>2 DEF IsHandle

LEMMA ReadStarts ==
  Size \in Nat \ {0} /\ length = 0 /\ hash = Basis =>
    ReadUpTo(H!Current, length) /\ IsHash(H!Current, length, hash)
BY HashStarts

LEMMA HashInit == Size \in Nat \ {0} /\ H!Init => HashInv
<1> SUFFICES ASSUME Size \in Nat \ {0}, H!Init
             PROVE  HashInv
  OBVIOUS
<1>1. text \in [1 .. 2 -> H!Strings] /\ hash = Basis /\ length = 0 /\ handle = <<>>
  BY DEF H!Init
<1>2. handle \in Seq({}) /\ Len(handle) = 0
  BY <1>1
<1>3. ReadUpTo(H!Current, length) /\ IsHash(H!Current, length, hash)
  BY <1>1, ReadStarts
<1> QED
  BY <1>1, <1>2, <1>3 DEF HashInv

LEMMA HashMix == Size \in Nat \ {0} /\ HashInv /\ H!Mix => HashInv'
<1> SUFFICES ASSUME Size \in Nat \ {0}, HashInv, H!Mix
             PROVE  HashInv'
  OBVIOUS
<1> DEFINE s == H!Current
<1>1. /\ H!Busy /\ s[length + 1] # 0 /\ length' = length + 1
      /\ hash' = After(hash, s[length + 1])
      /\ signed_char' = signed_char /\ text' = text /\ handle' = handle
  BY DEF H!Mix, After
<1>2. s' = s /\ s \in H!Strings
  BY <1>1 DEF HashInv, H!Current, H!Busy
<1>3. s[Size] = 0
  BY <1>2 DEF H!Strings
<1> HIDE DEF s
<1>4. ReadUpTo(s, length) /\ IsHash(s, length, hash)
  BY <1>1 DEF HashInv, s
<1>5. length \in Nat /\ length + 1 \in 0 .. Size - 1
  BY <1>1, <1>3, <1>4 DEF ReadUpTo
<1>6. ReadUpTo(s, length + 1)
  <2>1. \A i \in 1 .. length + 1 : i = length + 1 \/ i \in 1 .. length
    BY <1>5
  <2> QED
    BY <1>1, <1>4, <1>5, <2>1 DEF ReadUpTo
<1>7. IsHash(s, length, hash)'
  <2>1. IsHash(s, length + 1, After(hash, s[length + 1]))
    BY <1>4, <1>5, HashGrows
  <2> QED
    BY <1>1, <1>2, <2>1, HashKept DEF IsHash
<1>8. (H!Busy => ReadUpTo(H!Current, length) /\ IsHash(H!Current, length, hash))'
  BY <1>1, <1>2, <1>6, <1>7 DEF ReadUpTo, s
<1>9. (\A k \in 1 .. Len(handle) : IsHandle(handle[k], text[k]))'
  BY <1>1, HandleKept DEF HashInv
<1> QED
  BY <1>1, <1>8, <1>9 DEF HashInv

LEMMA HashFinish == Size \in Nat \ {0} /\ HashInv /\ H!Finish => HashInv'
<1> SUFFICES ASSUME Size \in Nat \ {0}, HashInv, H!Finish
             PROVE  HashInv'
  OBVIOUS
<1> DEFINE x == [len |-> length + 1, hash |-> hash]
           n == Len(handle)
<1>1. /\ H!Busy /\ text[n + 1][length + 1] = 0
      /\ handle' = Append(handle, x) /\ length' = 0 /\ hash' = Basis
      /\ signed_char' = signed_char /\ text' = text
  BY DEF H!Finish, H!Current
<1>2. ReadUpTo(text[n + 1], length) /\ IsHash(text[n + 1], length, hash)
  BY <1>1 DEF HashInv, H!Current
<1>3. length \in 0 .. Size - 1 /\ n \in 0 .. 1
  BY <1>1, <1>2 DEF HashInv, ReadUpTo, H!Busy
<1>4. x.len = length + 1 /\ x.hash = hash /\ x = [len |-> x.len, hash |-> x.hash]
  OBVIOUS
<1>5. x.len - 1 = length /\ x.len \in 1 .. Size
  BY <1>3
<1> HIDE DEF x, n
<1>6. IsHandle(x, text[n + 1])
  BY <1>1, <1>2, <1>4, <1>5 DEF IsHandle
<1>7. PICK S : handle \in Seq(S)
  BY DEF HashInv
<1>8. handle \in Seq(S \cup {x})
  BY <1>7, SeqMonotonic
<1>9. /\ handle' \in Seq(S \cup {x}) /\ Len(handle') = n + 1
      /\ handle'[n + 1] = x /\ \A k \in 1 .. n : handle'[k] = handle[k]
  BY <1>1, <1>8, AppendProperties DEF n
<1>10. (\A k \in 1 .. Len(handle) : IsHandle(handle[k], text[k]))'
  <2> SUFFICES ASSUME NEW k \in 1 .. n + 1
               PROVE  IsHandle(handle[k], text[k])'
    BY <1>9
  <2>1. CASE k = n + 1
    <3>1. IsHash(text[k], handle[k].len - 1, handle[k].hash)'
      <4>1. IsHash(text[k], x.len - 1, x.hash)
        BY <1>6, <2>1 DEF IsHandle
      <4> QED
        BY <1>1, <1>9, <2>1, <4>1, HashKept DEF IsHash
    <3> QED
      BY <1>1, <1>6, <1>9, <2>1, <3>1 DEF IsHandle, ReadUpTo
  <2>2. CASE k # n + 1
    <3>1. k \in 1 .. n
      BY <1>3, <2>2
    <3>2. IsHandle(handle[k], text[k])
      BY <3>1 DEF HashInv, n
    <3> QED
      BY <1>1, <1>9, <3>1, <3>2, HandleKept
  <2> QED
    BY <2>1, <2>2
<1>11. (H!Busy => ReadUpTo(H!Current, length) /\ IsHash(H!Current, length, hash))'
  <2>1. (Size \in Nat \ {0} /\ length = 0 /\ hash = Basis =>
           ReadUpTo(H!Current, length) /\ IsHash(H!Current, length, hash))'
    BY ReadStarts, PTL
  <2> QED
    BY <1>1, <2>1
<1>12. text' \in [1 .. 2 -> H!Strings] /\ Len(handle') \in 0 .. 2
  BY <1>1, <1>3, <1>9 DEF HashInv
<1> QED
  BY <1>9, <1>10, <1>11, <1>12 DEF HashInv, H!Strings

\* No other client touches the strings.
LEMMA HashUnchanged == HashInv /\ UNCHANGED hash_vars => HashInv'
<1> SUFFICES ASSUME HashInv, UNCHANGED hash_vars
             PROVE  HashInv'
  OBVIOUS
<1>1. /\ signed_char' = signed_char /\ text' = text /\ hash' = hash
      /\ length' = length /\ handle' = handle
  BY DEF hash_vars
<1>2. (H!Busy => ReadUpTo(H!Current, length) /\ IsHash(H!Current, length, hash))'
  <2>1. H!Busy' = H!Busy /\ H!Current' = H!Current
    BY <1>1 DEF H!Busy, H!Current
  <2>2. ASSUME H!Busy
        PROVE  ReadUpTo(H!Current, length)' /\ IsHash(H!Current, length, hash)'
    <3>1. ReadUpTo(H!Current, length) /\ IsHash(H!Current, length, hash)
      BY <2>2 DEF HashInv
    <3> QED
      BY <1>1, <2>1, <3>1, HashKept DEF ReadUpTo, IsHash
  <2> QED
    BY <2>1, <2>2
<1>3. (\A k \in 1 .. Len(handle) : IsHandle(handle[k], text[k]))'
  BY <1>1, HandleKept DEF HashInv
<1> QED
  BY <1>1, <1>2, <1>3 DEF HashInv, H!Strings

LEMMA HashRight == Size \in Nat \ {0} /\ HashInv => H!HandlesAgree
<1> SUFFICES ASSUME Size \in Nat \ {0}, HashInv, ~H!Busy
             PROVE  handle[1] = handle[2] /\ H!SameMemory
                      <=> H!Content(text[1]) = H!Content(text[2])
  BY DEF H!HandlesAgree
<1>1. 1 \in 1 .. Len(handle) /\ 2 \in 1 .. Len(handle)
  BY DEF HashInv, H!Busy
<1>2. IsHandle(handle[1], text[1]) /\ IsHandle(handle[2], text[2])
  BY <1>1 DEF HashInv
<1>3. text[1] \in H!Strings /\ text[2] \in H!Strings
  BY DEF HashInv
<1>4. handle[1] = handle[2] /\ SameBytes(handle[1], text[1], handle[2], text[2])
        <=> H!Content(text[1]) = H!Content(text[2])
  BY <1>2, <1>3, HandlesMatch
<1> QED
  BY <1>4 DEF H!SameMemory, SameBytes

\* Whatever a character and a hash can be, and whether or not a plain char has a
\* sign, cop_strh_init_shallow gives two strings handles that match exactly when
\* the strings are the same up to their terminators.
THEOREM HandlesMatchStrings == Spec => []HandlesAgree
<1> DEFINE Inv == client = "hash" => HashInv
<1>1. Size \in Nat \ {0}
  BY HeadersConstants DEF H!StrHashConstants
<1>2. Init => Inv
  BY <1>1, HashInit DEF Init
<1>3. Inv /\ [Next]_vars => Inv'
  <2> SUFFICES ASSUME Inv, [Next]_vars, client' = "hash"
               PROVE  HashInv'
    OBVIOUS
  <2>1. client = "hash" /\ (H!Next \/ UNCHANGED hash_vars)
    BY DEF Next, vars
  <2> QED
    BY <1>1, <2>1, HashMix, HashFinish, HashUnchanged DEF H!Next
<1>4. Inv => HandlesAgree
  BY <1>1, HashRight DEF HandlesAgree
<1>5. Spec => Init /\ [][Next]_vars
  BY DEF Spec, vars
<1> HIDE DEF Inv
<1> QED
  BY <1>2, <1>3, <1>4, <1>5, PTL

-----------------------------------------------------------------------------
(* Byte-order conversions.                                                 *)

Bytes == 0 .. Byte - 1
Widths == 2 .. 4

LEMMA ByteOK == Byte \in Nat /\ Byte > 0 /\ Byte % 2 = 0
BY HeadersConstants DEF C!ConversionsConstants

\* A number is its low byte and what lies above it, in one way only.
LEMMA LowByte ==
  ASSUME NEW v \in Int
  PROVE  /\ v % Byte \in Bytes /\ v \div Byte \in Int
         /\ v = (v % Byte) + Byte * (v \div Byte)
BY ByteOK DEF Bytes

LEMMA OneWay ==
  ASSUME NEW b \in Int, NEW r \in Int, NEW x \in Int, NEW q \in Int,
         NEW m \in Nat, 0 <= b, b < m, 0 <= r, r < m,
         b + m * x = r + m * q
  PROVE  b = r /\ x = q
<1> DEFINE d == x - q
<1>1. d \in Int /\ m * d = r - b /\ x = q + d
  OBVIOUS
<1> HIDE DEF d
<1>2. ASSUME d >= 1 PROVE FALSE
  <2>1. m * d >= m
    BY <1>1, <1>2
  <2> QED
    BY <1>1, <2>1
<1>3. ASSUME d <= -1 PROVE FALSE
  <2>1. m * d <= -m
    BY <1>1, <1>3
  <2> QED
    BY <1>1, <2>1
<1>4. d = 0
  BY <1>1, <1>2, <1>3
<1> QED
  BY <1>1, <1>4

LEMMA Placed ==
  ASSUME NEW b \in Bytes, NEW x \in Int
  PROVE  (b + Byte * x) % Byte = b /\ (b + Byte * x) \div Byte = x
<1> DEFINE v == b + Byte * x
           r == v % Byte
           q == v \div Byte
<1>1. v \in Int
  BY ByteOK DEF Bytes
<1>2. r \in Bytes /\ q \in Int /\ v = r + Byte * q
  BY <1>1, LowByte
<1>3. b + Byte * x = r + Byte * q
  BY <1>2
<1> HIDE DEF v, r, q
<1>4. /\ r \in Int /\ 0 <= r /\ r < Byte /\ b \in Int /\ 0 <= b /\ b < Byte /\ Byte \in Nat
  BY <1>2, ByteOK DEF Bytes
<1>5. b = r /\ x = q
  BY <1>2, <1>3, <1>4, OneWay
<1> QED
  BY <1>5 DEF v, r, q

\* The bytes of a number that is given by its low ones.
LEMMA SplitTwo ==
  ASSUME NEW a \in Bytes, NEW b \in Bytes, NEW x \in Int
  PROVE  LET v == a + Byte * (b + Byte * x)
         IN  /\ C!Split(v)[1] = a /\ C!Split(v)[2] = b /\ C!Split(v)[3] = x % Byte
             /\ C!Split(v)[4] = (x \div Byte) % Byte
<1> DEFINE w == b + Byte * x
           v == a + Byte * w
<1>1. w \in Int
  BY ByteOK DEF Bytes
<1>2. w % Byte = b /\ w \div Byte = x
  BY Placed
<1> HIDE DEF w
<1>3. v % Byte = a /\ v \div Byte = w
  BY <1>1, Placed
<1> HIDE DEF v
<1>4. /\ C!Split(v)[1] = a /\ C!Split(v)[2] = b /\ C!Split(v)[3] = x % Byte
      /\ C!Split(v)[4] = (x \div Byte) % Byte
  BY <1>2, <1>3 DEF C!Split
<1> QED
  BY <1>4 DEF v, w

\* What n bytes are joined to, and a multiple of what n bytes can hold.
LEMMA JoinedForm ==
  ASSUME NEW s, NEW n \in Widths, NEW k \in Int, \A i \in 1 .. n : s[i] \in Bytes
  PROVE  C!Joined(s, n) + k * C!Power(n) =
           s[1] + Byte * (s[2] + Byte *
             (IF n = 2 THEN k ELSE s[3] + Byte * (IF n = 3 THEN k ELSE s[4] + Byte * k)))
<1>1. n = 2 \/ n = 3 \/ n = 4
  BY DEF Widths
<1>2. Byte \in Int
  BY ByteOK
<1>3. \A b \in Bytes : b \in Int
  BY DEF Bytes
<1>4. CASE n = 2
  <2>1. s[1] \in Int /\ s[2] \in Int
    BY <1>3, <1>4
  <2> QED
    BY <1>2, <1>4, <2>1 DEF C!Joined, C!Power
<1>5. CASE n = 3
  <2>1. s[1] \in Int /\ s[2] \in Int /\ s[3] \in Int
    BY <1>3, <1>5
  <2> QED
    BY <1>2, <1>5, <2>1 DEF C!Joined, C!Power
<1>6. CASE n = 4
  <2>1. s[1] \in Int /\ s[2] \in Int /\ s[3] \in Int /\ s[4] \in Int
    BY <1>3, <1>6
  <2> QED
    BY <1>2, <1>6, <2>1 DEF C!Joined, C!Power
<1> QED
  BY <1>1, <1>4, <1>5, <1>6

\* Splitting undoes joining, whatever lies above the bytes that were joined.
LEMMA SplitJoined ==
  ASSUME NEW s, NEW n \in Widths, NEW k \in Int, \A i \in 1 .. n : s[i] \in Bytes
  PROVE  \A i \in 1 .. n : C!Split(C!Joined(s, n) + k * C!Power(n))[i] = s[i]
<1> DEFINE x == IF n = 2 THEN k ELSE s[3] + Byte * (IF n = 3 THEN k ELSE s[4] + Byte * k)
           y == IF n = 3 THEN k ELSE s[4] + Byte * k
           v == C!Joined(s, n) + k * C!Power(n)
<1>1. v = s[1] + Byte * (s[2] + Byte * x)
  BY JoinedForm
<1>2. s[1] \in Bytes /\ s[2] \in Bytes
  BY DEF Widths
<1>3. n = 2 \/ n = 3 \/ n = 4
  BY DEF Widths
<1>4. n # 2 => y \in Int
  <2>1. n = 4 => s[4] \in Int
    BY DEF Bytes
  <2> QED
    BY <1>3, <2>1, ByteOK
<1>5. n # 2 => x = s[3] + Byte * y /\ s[3] \in Bytes
  BY <1>3
<1>6. n = 4 => y = s[4] + Byte * k /\ s[4] \in Bytes
  BY <1>3
<1>7. n = 2 => x = k
  OBVIOUS
<1> HIDE DEF x, y, v
<1>8. x \in Int
  BY <1>4, <1>5, <1>7, ByteOK DEF Bytes
<1>9. /\ C!Split(v)[1] = s[1] /\ C!Split(v)[2] = s[2] /\ C!Split(v)[3] = x % Byte
      /\ C!Split(v)[4] = (x \div Byte) % Byte
  BY <1>1, <1>2, <1>8, SplitTwo
<1>10. n # 2 => x % Byte = s[3] /\ x \div Byte = y
  BY <1>4, <1>5, Placed
<1>11. n = 4 => y % Byte = s[4]
  BY <1>6, Placed
<1>12. ASSUME NEW i \in 1 .. n
       PROVE  C!Split(v)[i] = s[i]
  BY <1>3, <1>9, <1>10, <1>11
<1> QED
  BY <1>12 DEF v

\* Joining undoes splitting, up to what the bytes cannot hold.
LEMMA JoinedSplit ==
  ASSUME NEW v \in Int, NEW n \in Widths
  PROVE  /\ \A i \in 1 .. 4 : C!Split(v)[i] \in Bytes
         /\ \E k \in Int : v = C!Joined(C!Split(v), n) + k * C!Power(n)
<1> DEFINE q == v \div Byte
           r == q \div Byte
           t == r \div Byte
           u == t \div Byte
           s == C!Split(v)
<1>1. /\ q \in Int /\ r \in Int /\ t \in Int /\ u \in Int
      /\ v % Byte \in Bytes /\ q % Byte \in Bytes /\ r % Byte \in Bytes /\ t % Byte \in Bytes
      /\ v = (v % Byte) + Byte * q /\ q = (q % Byte) + Byte * r
      /\ r = (r % Byte) + Byte * t /\ t = (t % Byte) + Byte * u
  <2>1. q \in Int /\ v % Byte \in Bytes /\ v = (v % Byte) + Byte * q
    BY LowByte
  <2> HIDE DEF q
  <2>2. r \in Int /\ q % Byte \in Bytes /\ q = (q % Byte) + Byte * r
    BY <2>1, LowByte
  <2> HIDE DEF r
  <2>3. t \in Int /\ r % Byte \in Bytes /\ r = (r % Byte) + Byte * t
    BY <2>2, LowByte
  <2> HIDE DEF t
  <2>4. u \in Int /\ t % Byte \in Bytes /\ t = (t % Byte) + Byte * u
    BY <2>3, LowByte
  <2> QED
    BY <2>1, <2>2, <2>3, <2>4
<1>2. s[1] = v % Byte /\ s[2] = q % Byte /\ s[3] = r % Byte /\ s[4] = t % Byte
  BY DEF C!Split
<1> HIDE DEF q, r, t, u, s
<1>3. \A i \in 1 .. 4 : s[i] \in Bytes
  <2> SUFFICES ASSUME NEW i \in 1 .. 4
               PROVE  s[i] \in Bytes
    OBVIOUS
  <2>1. i = 1 \/ i = 2 \/ i = 3 \/ i = 4
    OBVIOUS
  <2> QED
    BY <1>1, <1>2, <2>1
<1>4. n = 2 \/ n = 3 \/ n = 4
  BY DEF Widths
<1>5. \A i \in 1 .. n : s[i] \in Bytes
  BY <1>3, <1>4
<1> DEFINE k == IF n = 2 THEN r ELSE IF n = 3 THEN t ELSE u
<1>6. k \in Int
  BY <1>1
<1>7. C!Joined(s, n) + k * C!Power(n) =
        s[1] + Byte * (s[2] + Byte *
          (IF n = 2 THEN k ELSE s[3] + Byte * (IF n = 3 THEN k ELSE s[4] + Byte * k)))
  BY <1>5, <1>6, JoinedForm
<1>8. v = s[1] + Byte * (s[2] + Byte *
            (IF n = 2 THEN k ELSE s[3] + Byte * (IF n = 3 THEN k ELSE s[4] + Byte * k)))
  <2>1. v = s[1] + Byte * (s[2] + Byte * r) /\ r = s[3] + Byte * t /\ t = s[4] + Byte * u
    BY <1>1, <1>2, Zenon
  <2> QED
    BY <1>4, <2>1
<1>9. v = C!Joined(s, n) + k * C!Power(n)
  BY <1>7, <1>8
<1> QED
  BY <1>3, <1>6, <1>9 DEF s

\* n bytes hold the numbers below Power(n).
LEMMA OneMore ==
  ASSUME NEW b \in Bytes, NEW m \in Nat, NEW x \in 0 .. m - 1
  PROVE  b + Byte * x \in 0 .. Byte * m - 1
<1>1. Byte \in Nat /\ b \in Int /\ 0 <= b /\ b <= Byte - 1 /\ x \in Nat /\ x <= m - 1
  BY ByteOK DEF Bytes
<1>2. Byte * x >= 0 /\ Byte * x \in Int
  BY <1>1
<1>3. Byte * x <= Byte * (m - 1)
  <2> DEFINE d == m - 1 - x
  <2>1. d \in Nat /\ m - 1 = x + d
    BY <1>1
  <2> HIDE DEF d
  <2>2. Byte * d >= 0 /\ Byte * (x + d) = Byte * x + Byte * d
    BY <1>1, <2>1
  <2> QED
    BY <1>1, <2>1, <2>2
<1>4. Byte * (m - 1) = Byte * m - Byte /\ Byte * m \in Int
  BY <1>1
<1> QED
  BY <1>1, <1>2, <1>3, <1>4

LEMMA PowerType ==
  ASSUME NEW n \in Widths
  PROVE  C!Power(n) \in Nat /\ C!Power(n) > 0
<1>1. n = 2 \/ n = 3 \/ n = 4
  BY DEF Widths
<1>2. Byte * Byte \in Nat /\ Byte * Byte > 0
  BY ByteOK
<1>3. Byte * (Byte * Byte) \in Nat /\ Byte * (Byte * Byte) > 0
  BY <1>2, ByteOK
<1>4. Byte * (Byte * (Byte * Byte)) \in Nat /\ Byte * (Byte * (Byte * Byte)) > 0
  BY <1>3, ByteOK
<1> QED
  BY <1>1, <1>2, <1>3, <1>4 DEF C!Power

LEMMA JoinedRange ==
  ASSUME NEW s, NEW n \in Widths, \A i \in 1 .. n : s[i] \in Bytes
  PROVE  C!Joined(s, n) \in 0 .. C!Power(n) - 1
<1>1. n = 2 \/ n = 3 \/ n = 4
  BY DEF Widths
<1>2. Byte \in Nat /\ Byte * Byte \in Nat /\ Byte * (Byte * Byte) \in Nat
  BY ByteOK
<1>3. \A b \in Bytes : b \in 0 .. Byte - 1 /\ b + 0 = b
  BY DEF Bytes
<1>4. CASE n = 2
  <2>1. s[1] \in Bytes /\ s[2] \in Bytes
    BY <1>4
  <2>2. s[1] + Byte * s[2] \in 0 .. Byte * Byte - 1
    BY <1>2, <1>3, <2>1, OneMore
  <2> QED
    BY <1>3, <1>4, <2>1, <2>2 DEF C!Joined, C!Power
<1>5. CASE n = 3
  <2>1. s[1] \in Bytes /\ s[2] \in Bytes /\ s[3] \in Bytes
    BY <1>5
  <2>2. s[2] + Byte * s[3] \in 0 .. Byte * Byte - 1
    BY <1>2, <1>3, <2>1, OneMore
  <2>3. s[1] + Byte * (s[2] + Byte * s[3]) \in 0 .. Byte * (Byte * Byte) - 1
    BY <1>2, <2>1, <2>2, OneMore
  <2> QED
    BY <1>3, <1>5, <2>1, <2>3 DEF C!Joined, C!Power
<1>6. CASE n = 4
  <2>1. s[1] \in Bytes /\ s[2] \in Bytes /\ s[3] \in Bytes /\ s[4] \in Bytes
    BY <1>6
  <2>2. s[3] + Byte * s[4] \in 0 .. Byte * Byte - 1
    BY <1>2, <1>3, <2>1, OneMore
  <2>3. s[2] + Byte * (s[3] + Byte * s[4]) \in 0 .. Byte * (Byte * Byte) - 1
    BY <1>2, <2>1, <2>2, OneMore
  <2>4. s[1] + Byte * (s[2] + Byte * (s[3] + Byte * s[4]))
          \in 0 .. Byte * (Byte * (Byte * Byte)) - 1
    BY <1>2, <2>1, <2>3, OneMore
  <2> QED
    BY <1>6, <2>4 DEF C!Joined, C!Power
<1> QED
  BY <1>1, <1>4, <1>5, <1>6

\* What is joined depends on the bytes alone.
LEMMA JoinedSame ==
  ASSUME NEW s, NEW r, NEW n \in Widths, \A i \in 1 .. n : s[i] = r[i]
  PROVE  C!Joined(s, n) = C!Joined(r, n)
<1>1. n = 2 \/ n = 3 \/ n = 4
  BY DEF Widths
<1>2. s[1] = r[1] /\ s[2] = r[2] /\ (n # 2 => s[3] = r[3]) /\ (n = 4 => s[4] = r[4])
  BY <1>1
<1> QED
  BY <1>1, <1>2 DEF C!Joined

\* A number of three bytes with the values from the sign bit on taken as negative.
Signed(u) == IF u >= C!Sign THEN u - C!Power(3) ELSE u

LEMMA SignHalves == C!Sign \in Nat /\ C!Sign > 0 /\ C!Power(3) = 2 * C!Sign
<1> DEFINE c == Byte \div 2
           m == c * (Byte * Byte)
<1>1. c \in Nat /\ Byte = 2 * c /\ c > 0 /\ Byte \in Nat
  BY ByteOK
<1> HIDE DEF c
<1>2. m \in Nat /\ Byte * (Byte * Byte) = 2 * m
  <2>1. Byte * Byte \in Nat
    BY <1>1
  <2> DEFINE d == Byte * Byte
  <2> HIDE DEF d
  <2>2. c * d \in Nat /\ (2 * c) * d = 2 * (c * d)
    BY <1>1, <2>1 DEF d
  <2> QED
    BY <1>1, <2>2 DEF d
<1> HIDE DEF m
<1>3. C!Power(3) = 2 * m /\ C!Power(3) > 0
  <2>1. 3 \in Widths
    BY DEF Widths
  <2> QED
    BY <1>2, <2>1, PowerType DEF C!Power
<1>4. C!Sign = m
  BY <1>2, <1>3 DEF C!Sign
<1> QED
  BY <1>2, <1>3, <1>4

\* Both builds take the sign off the same way.
LEMMA SignedLoads ==
  ASSUME NEW u \in 0 .. C!Power(3) - 1
  PROVE  /\ C!SignedFromComplement(u) = Signed(u) /\ C!SignedByShift(u) = Signed(u)
         /\ Signed(u) \in -C!Sign .. C!Sign - 1 /\ Signed(u) \in Int
         /\ \E k \in Int : Signed(u) = u + k * C!Power(3)
<1> DEFINE S == C!Sign
           P == C!Power(3)
<1>1. S \in Nat /\ S > 0 /\ P = 2 * S /\ u \in Int /\ 0 <= u /\ u < 2 * S
  BY SignHalves
<1>2. C!SignedFromComplement(u) = IF u >= S THEN -((S - 1 - (u % S)) + 1) ELSE u
  BY DEF C!SignedFromComplement
<1>3. C!SignedByShift(u) =
        (IF u * Byte >= S * Byte THEN u * Byte - 2 * S * Byte ELSE u * Byte) \div Byte
  BY DEF C!SignedByShift
<1>4. Signed(u) = IF u >= S THEN u - P ELSE u
  BY DEF Signed
<1> HIDE DEF S, P
<1>5. u >= S => u % S = u - S
  <2> SUFFICES ASSUME u >= S
               PROVE  u % S = u - S
    OBVIOUS
  <2> DEFINE r == u % S
             q == u \div S
  <2>1. r \in Int /\ q \in Int /\ 0 <= r /\ r < S /\ u = r + S * q
    BY <1>1
  <2>2. (u - S) + S * 1 = r + S * q /\ u - S \in Int /\ 0 <= u - S /\ u - S < S
    BY <1>1, <2>1
  <2> HIDE DEF r, q
  <2>3. u - S = r
    BY <1>1, <2>1, <2>2, OneWay
  <2> QED
    BY <2>3 DEF r
<1>6. C!SignedFromComplement(u) = Signed(u)
  BY <1>1, <1>2, <1>4, <1>5
<1>7. u * Byte >= S * Byte <=> u >= S
  <2>1. ASSUME u >= S PROVE u * Byte >= S * Byte
    <3> DEFINE d == u - S
    <3>1. d \in Nat /\ u = S + d
      BY <1>1, <2>1
    <3> HIDE DEF d
    <3>2. d * Byte >= 0 /\ (S + d) * Byte = S * Byte + d * Byte
      BY <1>1, <3>1, ByteOK
    <3> QED
      BY <1>1, <3>1, <3>2, ByteOK
  <2>2. ASSUME u < S PROVE u * Byte < S * Byte
    <3> DEFINE d == S - u
    <3>1. d \in Nat /\ d > 0 /\ S = u + d
      BY <1>1, <2>2
    <3> HIDE DEF d
    <3>2. d * Byte > 0 /\ (u + d) * Byte = u * Byte + d * Byte
      BY <1>1, <3>1, ByteOK
    <3> QED
      BY <1>1, <3>1, <3>2, ByteOK
  <2> QED
    BY <1>1, <2>1, <2>2, ByteOK
<1>8. \A x \in Int : (Byte * x) \div Byte = x
  <2> SUFFICES ASSUME NEW x \in Int
               PROVE  (Byte * x) \div Byte = x
    OBVIOUS
  <2>1. 0 \in Bytes /\ 0 + Byte * x = Byte * x
    BY ByteOK DEF Bytes
  <2> QED
    BY <2>1, Placed
<1>9. C!SignedByShift(u) = Signed(u)
  <2>1. u * Byte = Byte * u /\ u * Byte - 2 * S * Byte = Byte * (u - P)
    BY <1>1, ByteOK
  <2>2. u - P \in Int
    BY <1>1
  <2> QED
    BY <1>1, <1>3, <1>4, <1>7, <1>8, <2>1, <2>2
<1>10. Signed(u) \in -S .. S - 1 /\ Signed(u) \in Int
  BY <1>1, <1>4
<1>11. \E k \in Int : Signed(u) = u + k * P
  <2>1. u + 0 * P = u /\ u + (-1) * P = u - P
    BY <1>1
  <2>2. 0 \in Int /\ -1 \in Int
    OBVIOUS
  <2> QED
    BY <1>4, <2>1, <2>2
<1> QED
  BY <1>6, <1>9, <1>10, <1>11 DEF S, P

-----------------------------------------------------------------------------
(* A client of the conversions.                                            *)

Loads == {"ld_ule", "ld_ube", "ld_sle"}
Stores == {"st_ule", "st_sle"}
MoveKinds == [op : Loads \cup Stores, n : Widths]

\* The number is the one in the first n bytes, up to what they cannot hold.
Agrees(n) == \E k \in Int : val = C!Joined(buf, n) + k * C!Power(n)

ConvTyped == buf \in [1 .. 4 -> Bytes] /\ val \in Int /\ moves \in Seq(MoveKinds)

\* After a move the buffer and the number agree, or after a load the other way
\* round the number is the bytes read backwards.
Done(m) ==
  /\ m.op # "ld_ube" => Agrees(m.n)
  /\ m.op = "ld_ube" => val = C!ld_ube(m.n)

ConvInv == ConvTyped /\ (moves # <<>> => Done(moves[Len(moves)]))

\* What a step of the client promises.
Trips ==
  /\ C!Does({"ld_ule", "ld_sle"}) /\ C!AfterStore => (val' - val) % C!Power(C!Width) = 0
  /\ C!Does({"ld_sle"}) /\ C!AfterStore /\ val \in -C!Sign .. C!Sign - 1 => val' = val
  /\ C!Does({"ld_sle"}) => val' \in -C!Sign .. C!Sign - 1
  /\ C!Does({"ld_ule", "ld_ube"}) => val' \in 0 .. C!Power(C!Width) - 1
  /\ C!Does({"ld_ule", "ld_sle"}) => val' % Byte = buf[1]
  /\ C!Does({"ld_ube"}) => val' % Byte = buf[C!Width]
  /\ C!Does({"st_ule", "st_sle"}) /\ C!AfterLoad({"ld_ule", "ld_sle"}) => buf' = buf
  /\ C!Does({"st_ule", "st_sle"}) /\ C!AfterLoad({"ld_ube"}) =>
       \A i \in 1 .. C!Width : buf'[i] = buf[C!Width + 1 - i]
  /\ C!Does({"st_ule", "st_sle"}) => \A i \in C!Width + 1 .. 4 : buf'[i] = buf[i]

\* What a move adds to the history, and what the one before it left.
LEMMA MoveFacts ==
  ASSUME ConvInv, NEW n \in Widths, NEW name \in Loads \cup Stores, C!Moved(name, n)
  PROVE  /\ moves' \in Seq(MoveKinds) /\ moves' # <<>>
         /\ moves'[Len(moves')] = [op |-> name, n |-> n]
         /\ C!Width = n
         /\ \A names : C!Does(names) => name \in names
         /\ C!AfterStore => Agrees(n)
         /\ C!AfterLoad({"ld_ule", "ld_sle"}) => Agrees(n)
         /\ C!AfterLoad({"ld_ube"}) => val = C!ld_ube(n)
<1> DEFINE m == [op |-> name, n |-> n]
<1>1. moves \in Seq(MoveKinds) /\ m \in MoveKinds /\ moves' = Append(moves, m)
  BY DEF ConvInv, ConvTyped, MoveKinds, C!Moved
<1>2. /\ moves' \in Seq(MoveKinds) /\ moves' # <<>> /\ moves'[Len(moves')] = m
  BY <1>1
<1>3. C!Width = n
  BY <1>2 DEF C!Width, C!Last
<1>4. ASSUME NEW names, C!Does(names)
      PROVE  name \in names
  <2>1. moves'[Len(moves')].op \in names
    BY <1>4 DEF C!Does, C!Last
  <2> QED
    BY <1>2, <2>1
<1>5. C!AfterStore => Agrees(n)
  <2> SUFFICES ASSUME C!AfterStore
               PROVE  Agrees(n)
    OBVIOUS
  <2>1. /\ moves # <<>> /\ moves[Len(moves)].op \in {"st_ule", "st_sle"}
        /\ moves[Len(moves)].n = n
    BY <1>3 DEF C!AfterStore, C!Last
  <2> QED
    BY <2>1 DEF ConvInv, Done
<1>6. C!AfterLoad({"ld_ule", "ld_sle"}) => Agrees(n)
  <2> SUFFICES ASSUME C!AfterLoad({"ld_ule", "ld_sle"})
               PROVE  Agrees(n)
    OBVIOUS
  <2>1. /\ moves # <<>> /\ moves[Len(moves)].op \in {"ld_ule", "ld_sle"}
        /\ moves[Len(moves)].n = n
    BY <1>3 DEF C!AfterLoad, C!Last
  <2> QED
    BY <2>1 DEF ConvInv, Done
<1>7. C!AfterLoad({"ld_ube"}) => val = C!ld_ube(n)
  <2> SUFFICES ASSUME C!AfterLoad({"ld_ube"})
               PROVE  val = C!ld_ube(n)
    OBVIOUS
  <2>1. /\ moves # <<>> /\ moves[Len(moves)].op \in {"ld_ube"}
        /\ moves[Len(moves)].n = n
    BY <1>3 DEF C!AfterLoad, C!Last
  <2> QED
    BY <2>1 DEF ConvInv, Done
<1> QED
  BY <1>2, <1>3, <1>4, <1>5, <1>6, <1>7

\* A multiple of a number leaves nothing over.
LEMMA NoRest ==
  ASSUME NEW m \in Nat, m > 0, NEW k \in Int
  PROVE  (k * m) % m = 0
<1> DEFINE r == (k * m) % m
           q == (k * m) \div m
<1>1. r \in Int /\ q \in Int /\ 0 <= r /\ r < m /\ k * m = r + m * q
  BY SMT
<1>2. 0 + m * k = r + m * q
  BY <1>1
<1> HIDE DEF r, q
<1>3. 0 = r
  BY <1>1, <1>2, OneWay
<1> QED
  BY <1>3 DEF r

\* Two numbers that agree with the same bytes differ by a multiple of what those
\* can hold, and not at all if both are signed numbers of three bytes.
LEMMA SameUpTo ==
  ASSUME NEW n \in Widths, NEW j \in Int, NEW u \in Int, NEW v \in Int,
         \E k \in Int : u = j + k * C!Power(n), \E k \in Int : v = j + k * C!Power(n)
  PROVE  /\ (u - v) % C!Power(n) = 0
         /\ n = 3 /\ u \in -C!Sign .. C!Sign - 1 /\ v \in -C!Sign .. C!Sign - 1 => u = v
<1> DEFINE P == C!Power(n)
           S == C!Sign
<1>1. PICK k \in Int : u = j + k * P
  OBVIOUS
<1>2. PICK l \in Int : v = j + l * P
  OBVIOUS
<1>3. P \in Nat /\ P > 0
  BY PowerType
<1>4. S \in Nat /\ (n = 3 => P = 2 * S)
  BY SignHalves
<1> HIDE DEF P, S
<1>5. u - v = (k - l) * P /\ k - l \in Int
  BY <1>1, <1>2, <1>3
<1>6. (u - v) % P = 0
  BY <1>3, <1>5, NoRest
<1>7. ASSUME n = 3, u \in -S .. S - 1, v \in -S .. S - 1
      PROVE  u = v
  <2>1. (u + S) + P * l = (v + S) + P * k
    BY <1>1, <1>2, <1>3, <1>4
  <2>2. /\ u + S \in Int /\ 0 <= u + S /\ u + S < P
        /\ v + S \in Int /\ 0 <= v + S /\ v + S < P
    BY <1>4, <1>7
  <2>3. u + S = v + S
    BY <1>3, <2>1, <2>2, OneWay
  <2> QED
    BY <1>4, <2>3
<1> QED
  BY <1>6, <1>7 DEF P, S

\* A number is itself without any multiple, and with one of its remainder.
LEMMA Multiples ==
  ASSUME NEW v \in Int, NEW m \in Nat, m > 0
  PROVE  /\ \E k \in Int : v = v + k * m
         /\ v % m \in Int /\ \E k \in Int : v % m = v + k * m
<1>1. v = v + 0 * m /\ 0 \in Int
  OBVIOUS
<1>2. PICK r \in Int, q \in Int : r = v % m /\ v = r + m * q
  BY SMT
<1>3. r = v + (-q) * m /\ -q \in Int
  BY <1>2
<1> QED
  BY <1>1, <1>2, <1>3

\* The first of the bytes that were joined is the low one.
LEMMA LowByteFirst ==
  ASSUME NEW s, NEW n \in Widths, \A i \in 1 .. n : s[i] \in Bytes,
         NEW v, \E k \in Int : v = C!Joined(s, n) + k * C!Power(n)
  PROVE  v % Byte = s[1]
<1>1. PICK k \in Int : v = C!Joined(s, n) + k * C!Power(n)
  OBVIOUS
<1>2. C!Split(v)[1] = s[1]
  <2>1. 1 \in 1 .. n
    BY DEF Widths
  <2> QED
    BY <1>1, <2>1, SplitJoined
<1> QED
  BY <1>2 DEF C!Split

\* A load, of a number that agrees with the bytes or of the bytes backwards.
LEMMA LoadStep ==
  ASSUME ConvInv, NEW n \in Widths, NEW name \in Loads, C!Moved(name, n),
         NEW v \in Int, val' = v, buf' = buf,
         name = "ld_ube" => v = C!ld_ube(n),
         name # "ld_ube" => \E k \in Int : v = C!Joined(buf, n) + k * C!Power(n),
         name = "ld_sle" => n = 3 /\ v \in -C!Sign .. C!Sign - 1,
         name # "ld_sle" => v \in 0 .. C!Power(n) - 1
  PROVE  ConvInv' /\ Trips
<1> DEFINE m == [op |-> name, n |-> n]
<1>1. /\ moves' \in Seq(MoveKinds) /\ moves' # <<>> /\ moves'[Len(moves')] = m
      /\ C!Width = n
      /\ \A names : C!Does(names) => name \in names
      /\ C!AfterStore => Agrees(n)
  BY MoveFacts
<1>2. ConvInv'
  <2>1. ConvTyped'
    BY <1>1 DEF ConvInv, ConvTyped, Bytes, MoveKinds, Loads, Stores, Widths
  <2>2. name # "ld_ube" => \E k \in Int : val' = C!Joined(buf', n) + k * C!Power(n)
    OBVIOUS
  <2>3. name = "ld_ube" => val' = C!Joined([i \in 1 .. n |-> buf'[n + 1 - i]], n)
    BY DEF C!ld_ube
  <2>4. name # "ld_ube" => Done(m)'
    BY <2>2 DEF Done, Agrees, C!Joined, C!Power
  <2>5. name = "ld_ube" => Done(m)'
    BY <2>3 DEF Done, C!ld_ube, C!Joined
  <2> QED
    BY <1>1, <2>1, <2>4, <2>5 DEF ConvInv
<1>3. val \in Int /\ C!Joined(buf, n) \in Int
  <2>1. buf \in [1 .. 4 -> Bytes] /\ \A i \in 1 .. n : i \in 1 .. 4
    BY DEF ConvInv, ConvTyped, Widths
  <2>2. \A i \in 1 .. n : buf[i] \in Bytes
    BY <2>1
  <2>3. C!Joined(buf, n) \in 0 .. C!Power(n) - 1
    BY <2>2, JoinedRange
  <2> QED
    BY <2>3 DEF ConvInv, ConvTyped
<1>4. ASSUME C!AfterStore, name # "ld_ube"
      PROVE  /\ (v - val) % C!Power(n) = 0
             /\ name = "ld_sle" /\ val \in -C!Sign .. C!Sign - 1 => v = val
  <2>1. \E k \in Int : val = C!Joined(buf, n) + k * C!Power(n)
    BY <1>1, <1>4 DEF Agrees
  <2>2. /\ (v - val) % C!Power(n) = 0
        /\ n = 3 /\ v \in -C!Sign .. C!Sign - 1 /\ val \in -C!Sign .. C!Sign - 1 => v = val
    BY <1>3, <1>4, <2>1, SameUpTo
  <2> QED
    BY <2>2
<1>5. /\ C!Does({"ld_ule", "ld_sle"}) => name # "ld_ube"
      /\ C!Does({"ld_sle"}) => name = "ld_sle"
      /\ C!Does({"ld_ule", "ld_ube"}) => name # "ld_sle"
      /\ C!Does({"ld_ube"}) => name = "ld_ube"
      /\ ~C!Does({"st_ule", "st_sle"})
  <2>1. /\ C!Does({"ld_ule", "ld_sle"}) => name \in {"ld_ule", "ld_sle"}
        /\ C!Does({"ld_sle"}) => name \in {"ld_sle"}
        /\ C!Does({"ld_ule", "ld_ube"}) => name \in {"ld_ule", "ld_ube"}
        /\ C!Does({"ld_ube"}) => name \in {"ld_ube"}
        /\ C!Does({"st_ule", "st_sle"}) => name \in {"st_ule", "st_sle"}
    BY <1>1, Zenon
  <2> QED
    BY <2>1 DEF Loads
<1>6. /\ name # "ld_ube" => v % Byte = buf[1]
      /\ name = "ld_ube" => v % Byte = buf[n]
  <2>1. \A i \in 1 .. n : buf[i] \in Bytes /\ buf[n + 1 - i] \in Bytes
    BY DEF ConvInv, ConvTyped, Widths
  <2>2. ASSUME name # "ld_ube"
        PROVE  v % Byte = buf[1]
    BY <2>1, <2>2, LowByteFirst
  <2>3. ASSUME name = "ld_ube"
        PROVE  v % Byte = buf[n]
    <3> DEFINE s == [i \in 1 .. n |-> buf[n + 1 - i]]
    <3>1. (\A i \in 1 .. n : s[i] \in Bytes) /\ s[1] = buf[n]
      BY <2>1 DEF Widths
    <3>2. v = C!Joined(s, n)
      BY <2>3 DEF C!ld_ube
    <3> HIDE DEF s
    <3>3. \E k \in Int : v = C!Joined(s, n) + k * C!Power(n)
      BY <3>2, PowerType, Multiples
    <3> QED
      BY <3>1, <3>3, LowByteFirst
  <2> QED
    BY <2>2, <2>3
<1>7. Trips
  BY <1>1, <1>4, <1>5, <1>6 DEF Trips
<1> QED
  BY <1>2, <1>7

\* A store of the number, or of one that is the same in n bytes.
LEMMA StoreStep ==
  ASSUME ConvInv, NEW n \in Widths, NEW name \in Stores, C!Moved(name, n),
         NEW w \in Int, \E k \in Int : w = val + k * C!Power(n),
         val' = val, buf' = C!Stored(w, n)
  PROVE  ConvInv' /\ Trips
<1> DEFINE m == [op |-> name, n |-> n]
           P == C!Power(n)
<1>1. /\ moves' \in Seq(MoveKinds) /\ moves' # <<>> /\ moves'[Len(moves')] = m
      /\ C!Width = n
      /\ \A names : C!Does(names) => name \in names
      /\ C!AfterLoad({"ld_ule", "ld_sle"}) => Agrees(n)
      /\ C!AfterLoad({"ld_ube"}) => val = C!ld_ube(n)
  BY MoveFacts
<1>2. buf \in [1 .. 4 -> Bytes] /\ val \in Int
  BY DEF ConvInv, ConvTyped
<1>3. n \in Nat /\ 2 <= n /\ n <= 4
  BY DEF Widths
<1>4. P \in Nat
  BY PowerType
<1>5. PICK k \in Int : w = val + k * P
  OBVIOUS
<1>6. PICK l \in Int : w = C!Joined(C!Split(w), n) + l * P
  BY JoinedSplit
<1>7. \A i \in 1 .. 4 : C!Split(w)[i] \in Bytes
  BY JoinedSplit
<1>8. /\ buf' \in [1 .. 4 -> Bytes]
      /\ \A i \in 1 .. n : buf'[i] = C!Split(w)[i]
      /\ \A i \in n + 1 .. 4 : buf'[i] = buf[i]
  BY <1>2, <1>3, <1>7 DEF C!Stored
<1>9. C!Joined(buf', n) = C!Joined(C!Split(w), n)
  BY <1>8, JoinedSame
<1>10. C!Joined(C!Split(w), n) \in Int
  <2>1. \A i \in 1 .. n : C!Split(w)[i] \in Bytes
    BY <1>3, <1>7
  <2>2. C!Joined(C!Split(w), n) \in 0 .. P - 1
    BY <2>1, JoinedRange
  <2> QED
    BY <2>2
<1>11. \E j \in Int : val' = C!Joined(buf', n) + j * P
  <2>1. PICK a \in Int : a = C!Joined(C!Split(w), n)
    BY <1>10
  <2> HIDE DEF P
  <2>2. val + k * P = a + l * P
    BY <1>5, <1>6, <2>1
  <2>3. val = a + (l - k) * P /\ l - k \in Int
    BY <1>2, <1>4, <2>2
  <2> QED
    BY <1>9, <2>1, <2>3
<1>12. ConvInv'
  <2>1. ConvTyped'
    BY <1>1, <1>2, <1>8 DEF ConvTyped, Bytes, MoveKinds, Loads, Stores, Widths
  <2>2. m.op = name /\ m.n = n /\ name # "ld_ube"
    BY DEF Stores
  <2> HIDE DEF m
  <2>3. Done(m)'
    BY <1>11, <2>2 DEF Done, Agrees, C!Joined, C!Power
  <2> QED
    BY <1>1, <2>1, <2>3 DEF ConvInv
<1>13. ASSUME NEW s, NEW j \in Int, \A i \in 1 .. n : s[i] \in Bytes,
              val = C!Joined(s, n) + j * P
       PROVE  \A i \in 1 .. n : buf'[i] = s[i]
  <2>1. C!Joined(s, n) \in Int
    <3>1. C!Joined(s, n) \in 0 .. P - 1
      BY <1>13, JoinedRange
    <3> QED
      BY <3>1
  <2> DEFINE a == C!Joined(s, n)
  <2>2. w = a + (j + k) * P /\ j + k \in Int
    <3> HIDE DEF a, P
    <3>1. a \in Int /\ val = a + j * P
      BY <1>13, <2>1 DEF a
    <3> QED
      BY <1>2, <1>4, <1>5, <3>1
  <2>3. \A i \in 1 .. n : C!Split(C!Joined(s, n) + (j + k) * C!Power(n))[i] = s[i]
    BY <1>13, <2>2, SplitJoined
  <2> QED
    BY <1>8, <2>2, <2>3
<1>14. ASSUME Agrees(n)
       PROVE  buf' = buf
  <2>1. PICK j \in Int : val = C!Joined(buf, n) + j * P
    BY <1>14 DEF Agrees
  <2>2. \A i \in 1 .. n : buf[i] \in Bytes
    BY <1>2, <1>3
  <2>3. \A i \in 1 .. n : buf'[i] = buf[i]
    BY <1>13, <2>1, <2>2
  <2>4. \A i \in 1 .. 4 : buf'[i] = buf[i]
    BY <1>3, <1>8, <2>3
  <2> QED
    BY <1>2, <1>8, <2>4
<1>15. ASSUME val = C!ld_ube(n)
       PROVE  \A i \in 1 .. n : buf'[i] = buf[n + 1 - i]
  <2> DEFINE s == [i \in 1 .. n |-> buf[n + 1 - i]]
  <2>1. \A i \in 1 .. n : s[i] = buf[n + 1 - i] /\ s[i] \in Bytes
    BY <1>2, <1>3
  <2>2. val = C!Joined(s, n)
    BY <1>15 DEF C!ld_ube
  <2> HIDE DEF s
  <2>3. C!Joined(s, n) = C!Joined(s, n) + 0 * P
    <3>1. C!Joined(s, n) \in Int
      BY <1>2, <2>2
    <3> DEFINE a == C!Joined(s, n)
    <3> HIDE DEF a, P
    <3> QED
      BY <1>4, <3>1 DEF a
  <2>4. 0 \in Int /\ val = C!Joined(s, n) + 0 * P
    BY <2>2, <2>3
  <2>5. \A i \in 1 .. n : buf'[i] = s[i]
    BY <1>13, <2>1, <2>4
  <2> QED
    BY <2>1, <2>5
<1>16. /\ ~C!Does({"ld_ule", "ld_sle"}) /\ ~C!Does({"ld_sle"})
       /\ ~C!Does({"ld_ule", "ld_ube"}) /\ ~C!Does({"ld_ube"})
  <2>1. /\ C!Does({"ld_ule", "ld_sle"}) => name \in {"ld_ule", "ld_sle"}
        /\ C!Does({"ld_sle"}) => name \in {"ld_sle"}
        /\ C!Does({"ld_ule", "ld_ube"}) => name \in {"ld_ule", "ld_ube"}
        /\ C!Does({"ld_ube"}) => name \in {"ld_ube"}
    BY <1>1, Zenon
  <2> QED
    BY <2>1 DEF Stores
<1>17. Trips
  BY <1>1, <1>8, <1>14, <1>15, <1>16 DEF Trips
<1> QED
  BY <1>12, <1>17

\* A client's number and the buffer's bytes, and what a load of them is.
LEMMA ConvFacts ==
  ASSUME ConvInv, NEW n \in Widths
  PROVE  /\ val \in Int /\ C!Power(n) \in Nat /\ C!Power(n) > 0
         /\ C!ld_ule(n) = C!Joined(buf, n)
         /\ C!ld_ule(n) \in 0 .. C!Power(n) - 1 /\ C!ld_ube(n) \in 0 .. C!Power(n) - 1
<1>1. buf \in [1 .. 4 -> Bytes] /\ val \in Int
  BY DEF ConvInv, ConvTyped
<1>2. \A i \in 1 .. n : buf[i] \in Bytes /\ buf[n + 1 - i] \in Bytes
  BY <1>1 DEF Widths
<1>3. C!Joined(buf, n) \in 0 .. C!Power(n) - 1
  BY <1>2, JoinedRange
<1>4. C!Joined([i \in 1 .. n |-> buf[n + 1 - i]], n) \in 0 .. C!Power(n) - 1
  <2> DEFINE s == [i \in 1 .. n |-> buf[n + 1 - i]]
  <2>1. \A i \in 1 .. n : s[i] \in Bytes
    BY <1>2
  <2> HIDE DEF s
  <2>2. C!Joined(s, n) \in 0 .. C!Power(n) - 1
    BY <2>1, JoinedRange
  <2> QED
    BY <2>2 DEF s
<1>5. C!ld_ule(n) = C!Joined(buf, n)
  BY DEF C!ld_ule
<1>6. C!ld_ube(n) = C!Joined([i \in 1 .. n |-> buf[n + 1 - i]], n)
  BY DEF C!ld_ube
<1> QED
  BY <1>1, <1>3, <1>4, <1>5, <1>6, PowerType

LEMMA ConvLittle ==
  ASSUME ConvInv, NEW n \in Widths, C!LoadLittle(n)
  PROVE  ConvInv' /\ Trips
<1> DEFINE v == C!Joined(buf, n)
<1>1. C!Moved("ld_ule", n) /\ val' = v /\ buf' = buf
  BY ConvFacts DEF C!LoadLittle
<1>2. v \in 0 .. C!Power(n) - 1 /\ v \in Int
  <2>1. v \in 0 .. C!Power(n) - 1
    BY ConvFacts
  <2> QED
    BY <2>1
<1>3. \E k \in Int : v = C!Joined(buf, n) + k * C!Power(n)
  BY <1>2, ConvFacts, Multiples
<1>4. "ld_ule" \in Loads
  BY DEF Loads
<1> QED
  BY <1>1, <1>2, <1>3, <1>4, LoadStep

LEMMA ConvBig ==
  ASSUME ConvInv, NEW n \in Widths, C!LoadBig(n)
  PROVE  ConvInv' /\ Trips
<1> DEFINE v == C!ld_ube(n)
<1>1. C!Moved("ld_ube", n) /\ val' = v /\ buf' = buf
  BY DEF C!LoadBig
<1>2. v \in 0 .. C!Power(n) - 1 /\ v \in Int
  <2>1. v \in 0 .. C!Power(n) - 1
    BY ConvFacts
  <2> QED
    BY <2>1
<1>3. "ld_ube" \in Loads
  BY DEF Loads
<1> QED
  BY <1>1, <1>2, <1>3, LoadStep

LEMMA ConvSigned ==
  ASSUME ConvInv, C!LoadSigned24
  PROVE  ConvInv' /\ Trips
<1>1. 3 \in Widths /\ "ld_sle" \in Loads
  BY DEF Widths, Loads
<1> DEFINE u == C!Joined(buf, 3)
           v == Signed(u)
<1>2. u \in 0 .. C!Power(3) - 1 /\ C!ld_ule(3) = u
  BY <1>1, ConvFacts
<1>3. /\ C!SignedFromComplement(u) = v /\ C!SignedByShift(u) = v
      /\ v \in -C!Sign .. C!Sign - 1 /\ v \in Int
      /\ \E k \in Int : v = u + k * C!Power(3)
  BY <1>2, SignedLoads
<1>4. C!Moved("ld_sle", 3) /\ val' = v /\ buf' = buf
  BY <1>2, <1>3 DEF C!LoadSigned24, C!ld_sle24
<1> HIDE DEF v
<1> QED
  BY <1>1, <1>3, <1>4, LoadStep

LEMMA ConvStore ==
  ASSUME ConvInv, NEW n \in Widths, C!StoreLittle(n)
  PROVE  ConvInv' /\ Trips
<1>1. C!Moved("st_ule", n) /\ val' = val /\ buf' = C!Stored(val, n)
  BY DEF C!StoreLittle
<1>2. val \in Int /\ \E k \in Int : val = val + k * C!Power(n)
  BY ConvFacts, Multiples
<1>3. "st_ule" \in Stores
  BY DEF Stores
<1> QED
  BY <1>1, <1>2, <1>3, StoreStep

LEMMA ConvStoreSigned ==
  ASSUME ConvInv, NEW n \in Widths, C!StoreSigned(n)
  PROVE  ConvInv' /\ Trips
<1> DEFINE w == val % C!Power(n)
<1>1. C!Moved("st_sle", n) /\ val' = val /\ buf' = C!Stored(w, n)
  BY DEF C!StoreSigned
<1>2. w \in Int /\ \E k \in Int : w = val + k * C!Power(n)
  BY ConvFacts, Multiples
<1>3. "st_sle" \in Stores
  BY DEF Stores
<1> QED
  BY <1>1, <1>2, <1>3, StoreStep

LEMMA ConvNext == ConvInv /\ C!Next => ConvInv' /\ Trips
<1> SUFFICES ASSUME ConvInv, C!Next
             PROVE  ConvInv' /\ Trips
  OBVIOUS
<1>1. \A n \in 2 .. 3 : n \in Widths
  BY DEF Widths
<1>2. ASSUME NEW n \in Widths,
             C!LoadLittle(n) \/ C!LoadBig(n) \/ C!StoreLittle(n) \/ C!StoreSigned(n)
      PROVE  ConvInv' /\ Trips
  BY <1>2, ConvLittle, ConvBig, ConvStore, ConvStoreSigned
<1> QED
  BY <1>1, <1>2, ConvSigned DEF C!Next, Widths

LEMMA ConvInit == C!Init => ConvInv
<1> SUFFICES ASSUME C!Init
             PROVE  ConvInv
  OBVIOUS
<1>1. buf \in [1 .. 4 -> Bytes] /\ val = 0 /\ moves = <<>>
  BY DEF C!Init, Bytes
<1>2. <<>> \in Seq(MoveKinds)
  OBVIOUS
<1> QED
  BY <1>1, <1>2 DEF ConvInv, ConvTyped

LEMMA ConvUnchanged == ConvInv /\ UNCHANGED conversion_vars => ConvInv'
<1> SUFFICES ASSUME ConvInv, UNCHANGED conversion_vars
             PROVE  ConvInv'
  OBVIOUS
<1>1. buf' = buf /\ val' = val /\ moves' = moves
  BY DEF conversion_vars
<1>2. ConvTyped'
  BY <1>1 DEF ConvInv, ConvTyped, Bytes, MoveKinds, Loads, Stores, Widths
<1>3. ASSUME moves # <<>>
      PROVE  Done(moves[Len(moves)])'
  <2> DEFINE m == moves[Len(moves)]
  <2>1. Done(m)
    BY <1>3 DEF ConvInv
  <2>2. CASE m.op # "ld_ube"
    <3>1. \E k \in Int : val = C!Joined(buf, m.n) + k * C!Power(m.n)
      BY <2>1, <2>2 DEF Done, Agrees
    <3> QED
      BY <1>1, <2>2, <3>1 DEF Done, Agrees, C!Joined, C!Power
  <2>3. CASE m.op = "ld_ube"
    <3>1. val = C!Joined([i \in 1 .. m.n |-> buf[m.n + 1 - i]], m.n)
      BY <2>1, <2>3 DEF Done, C!ld_ube
    <3> QED
      BY <1>1, <2>3, <3>1 DEF Done, C!ld_ube, C!Joined
  <2> QED
    BY <2>2, <2>3
<1> QED
  BY <1>1, <1>2, <1>3 DEF ConvInv

\* Whatever the even number of values of a byte and however many the moves, the
\* loads and stores of cop_conversions.h undo each other in every build: a number
\* comes back modulo its width or, signed and fitting, as itself, a buffer comes
\* back as it was or backwards, and no store goes beyond its width.  The
\* first byte of a number is the low one, or the last if it was read big-endian.
THEOREM ConversionsRoundTrip == Spec => RoundTrips
<1> DEFINE Inv == client = "conversions" => ConvInv
<1>1. Init => Inv
  BY ConvInit DEF Init
<1>2. Inv /\ [Next]_vars => Inv'
  <2> SUFFICES ASSUME Inv, [Next]_vars, client' = "conversions"
               PROVE  ConvInv'
    OBVIOUS
  <2>1. client = "conversions" /\ (C!Next \/ UNCHANGED conversion_vars)
    BY DEF Next, vars
  <2> QED
    BY <2>1, ConvNext, ConvUnchanged
<1>3. Inv /\ [Next]_vars => [Trips]_conversion_vars
  <2> SUFFICES ASSUME Inv, [Next]_vars
               PROVE  Trips \/ UNCHANGED conversion_vars
    OBVIOUS
  <2>1. (client = "conversions" /\ C!Next) \/ UNCHANGED conversion_vars
    BY DEF Next, vars
  <2> QED
    BY <2>1, ConvNext
<1>4. Spec => Init /\ [][Next]_vars
  BY DEF Spec, vars
<1> HIDE DEF Inv
<1>5. Spec => [][Trips]_conversion_vars
  BY <1>1, <1>2, <1>3, <1>4, PTL
<1>6. [][Trips]_conversion_vars => RoundTrips
  BY DEF RoundTrips, C!RoundTrips, Trips, conversion_vars, C!vars
<1> QED
  BY <1>5, <1>6

-----------------------------------------------------------------------------
(* The lanes of vectors.                                                   *)

VecKind ==
  \/ type \in {"v4f", "v2d", "v8f", "v4d"} /\ implementation \in {"builtin", "intrinsic"}
  \/ type = "v4f" /\ implementation = "neon"

\* A vector with those lanes.
Two(v, p, q) == v \in [0 .. 1 -> Int] /\ v[0] = p /\ v[1] = q

Four(v, p, q, r, s) ==
  v \in [0 .. 3 -> Int] /\ v[0] = p /\ v[1] = q /\ v[2] = r /\ v[3] = s

Eight(v, p, q, r, s, t, u, x, y) ==
  /\ v \in [0 .. 7 -> Int]
  /\ v[0] = p /\ v[1] = q /\ v[2] = r /\ v[3] = s
  /\ v[4] = t /\ v[5] = u /\ v[6] = x /\ v[7] = y

LEMMA Sizes ==
  /\ type = "v2d" => V!W = 2 /\ V!L = 2 /\ V!Lanes = 0 .. 1 /\ V!Registers = 1 .. 4
  /\ type = "v4f" => V!W = 4 /\ V!L = 4 /\ V!Lanes = 0 .. 3 /\ V!Registers = 1 .. 4
  /\ type = "v4d" => V!W = 4 /\ V!L = 2 /\ V!Lanes = 0 .. 3 /\ V!Registers = 1 .. 4
  /\ type = "v8f" => V!W = 8 /\ V!L = 4 /\ V!Lanes = 0 .. 7 /\ V!Registers = 1 .. 8
BY DEF V!W, V!L, V!Lanes, V!Registers

\* The tables of indices, written out.
LEMMA Pick2 ==
  ASSUME V!W = 2, V!Lanes = 0 .. 1, NEW a \in [0 .. 1 -> Int], NEW b \in [0 .. 1 -> Int]
  PROVE  /\ Two(V!Pick(a, b, <<0, 2>>), a[0], b[0])
         /\ Two(V!Pick(a, b, <<1, 3>>), a[1], b[1])
BY DEF V!Pick, Two

LEMMA Pick4 ==
  ASSUME V!W = 4, V!Lanes = 0 .. 3, NEW a \in [0 .. 3 -> Int], NEW b \in [0 .. 3 -> Int]
  PROVE  /\ Four(V!Pick(a, b, <<0, 4, 1, 5>>), a[0], b[0], a[1], b[1])
         /\ Four(V!Pick(a, b, <<2, 6, 3, 7>>), a[2], b[2], a[3], b[3])
         /\ Four(V!Pick(a, b, <<0, 2, 4, 6>>), a[0], a[2], b[0], b[2])
         /\ Four(V!Pick(a, b, <<1, 3, 5, 7>>), a[1], a[3], b[1], b[3])
         /\ Four(V!Pick(a, b, <<0, 4, 2, 6>>), a[0], b[0], a[2], b[2])
         /\ Four(V!Pick(a, b, <<1, 5, 3, 7>>), a[1], b[1], a[3], b[3])
         /\ Four(V!Pick(a, b, <<0, 1, 4, 5>>), a[0], a[1], b[0], b[1])
         /\ Four(V!Pick(a, b, <<2, 3, 6, 7>>), a[2], a[3], b[2], b[3])
BY DEF V!Pick, Four

LEMMA Unpack44 ==
  ASSUME V!W = 4, V!L = 4, V!Lanes = 0 .. 3, NEW a \in [0 .. 3 -> Int], NEW b \in [0 .. 3 -> Int]
  PROVE  /\ Four(V!Unpack(a, b, 0), a[0], b[0], a[1], b[1])
         /\ Four(V!Unpack(a, b, 2), a[2], b[2], a[3], b[3])
         /\ Four(V!Shuffle(a, b, <<0, 2, 0, 2>>), a[0], a[2], b[0], b[2])
         /\ Four(V!Shuffle(a, b, <<1, 3, 1, 3>>), a[1], a[3], b[1], b[3])
BY DEF V!Unpack, V!Shuffle, Four

LEMMA Unpack22 ==
  ASSUME V!W = 2, V!L = 2, V!Lanes = 0 .. 1, NEW a \in [0 .. 1 -> Int], NEW b \in [0 .. 1 -> Int]
  PROVE  /\ Two(V!Unpack(a, b, 0), a[0], b[0])
         /\ Two(V!Unpack(a, b, 1), a[1], b[1])
BY DEF V!Unpack, Two

LEMMA Unpack42 ==
  ASSUME V!W = 4, V!L = 2, V!Lanes = 0 .. 3, NEW a \in [0 .. 3 -> Int], NEW b \in [0 .. 3 -> Int]
  PROVE  /\ Four(V!Unpack(a, b, 0), a[0], b[0], a[2], b[2])
         /\ Four(V!Unpack(a, b, 1), a[1], b[1], a[3], b[3])
         /\ Four(V!Halves(a, b, 0, 2), a[0], a[1], b[0], b[1])
         /\ Four(V!Halves(a, b, 1, 3), a[2], a[3], b[2], b[3])
         /\ Four(V!Halves(a, b, 1, 0), a[2], a[3], a[0], a[1])
         /\ Four(V!Shuffle(a, b, <<1, 0>>), a[1], b[0], a[3], b[2])
BY DEF V!Unpack, V!Halves, V!Shuffle, Four

LEMMA Pick8 ==
  ASSUME V!W = 8, V!Lanes = 0 .. 7, NEW a \in [0 .. 7 -> Int], NEW b \in [0 .. 7 -> Int]
  PROVE  /\ Eight(V!Pick(a, b, <<0, 8, 1, 9, 4, 12, 5, 13>>),
                  a[0], b[0], a[1], b[1], a[4], b[4], a[5], b[5])
         /\ Eight(V!Pick(a, b, <<2, 10, 3, 11, 6, 14, 7, 15>>),
                  a[2], b[2], a[3], b[3], a[6], b[6], a[7], b[7])
         /\ Eight(V!Pick(a, b, <<0, 2, 8, 10, 4, 6, 12, 14>>),
                  a[0], a[2], b[0], b[2], a[4], a[6], b[4], b[6])
         /\ Eight(V!Pick(a, b, <<1, 3, 9, 11, 5, 7, 13, 15>>),
                  a[1], a[3], b[1], b[3], a[5], a[7], b[5], b[7])
         /\ Eight(V!Pick(a, b, <<0, 1, 8, 9, 4, 5, 12, 13>>),
                  a[0], a[1], b[0], b[1], a[4], a[5], b[4], b[5])
         /\ Eight(V!Pick(a, b, <<2, 3, 10, 11, 6, 7, 14, 15>>),
                  a[2], a[3], b[2], b[3], a[6], a[7], b[6], b[7])
         /\ Eight(V!Pick(a, b, <<0, 1, 2, 3, 8, 9, 10, 11>>),
                  a[0], a[1], a[2], a[3], b[0], b[1], b[2], b[3])
         /\ Eight(V!Pick(a, b, <<4, 5, 6, 7, 12, 13, 14, 15>>),
                  a[4], a[5], a[6], a[7], b[4], b[5], b[6], b[7])
BY DEF V!Pick, Eight

LEMMA Unpack84 ==
  ASSUME V!W = 8, V!L = 4, V!Lanes = 0 .. 7, NEW a \in [0 .. 7 -> Int], NEW b \in [0 .. 7 -> Int]
  PROVE  /\ Eight(V!Unpack(a, b, 0), a[0], b[0], a[1], b[1], a[4], b[4], a[5], b[5])
         /\ Eight(V!Unpack(a, b, 2), a[2], b[2], a[3], b[3], a[6], b[6], a[7], b[7])
         /\ Eight(V!Shuffle(a, b, <<0, 2, 0, 2>>), a[0], a[2], b[0], b[2], a[4], a[6], b[4], b[6])
         /\ Eight(V!Shuffle(a, b, <<1, 3, 1, 3>>), a[1], a[3], b[1], b[3], a[5], a[7], b[5], b[7])
         /\ Eight(V!Shuffle(a, b, <<0, 1, 0, 1>>), a[0], a[1], b[0], b[1], a[4], a[5], b[4], b[5])
         /\ Eight(V!Shuffle(a, b, <<2, 3, 2, 3>>), a[2], a[3], b[2], b[3], a[6], a[7], b[6], b[7])
         /\ Eight(V!Halves(a, b, 0, 2), a[0], a[1], a[2], a[3], b[0], b[1], b[2], b[3])
         /\ Eight(V!Halves(a, b, 1, 3), a[4], a[5], a[6], a[7], b[4], b[5], b[6], b[7])
BY DEF V!Unpack, V!Halves, V!Shuffle, Eight

-----------------------------------------------------------------------------
(* What every implementation's building blocks do.                         *)

LEMMA Instr2d ==
  ASSUME VecKind, type = "v2d", NEW a \in [0 .. 1 -> Int], NEW b \in [0 .. 1 -> Int]
  PROVE  /\ Two(V!Instr("lo", a, b), a[0], b[0]) /\ Two(V!Instr("hi", a, b), a[1], b[1])
         /\ Two(V!Instr("even", a, b), a[0], b[0]) /\ Two(V!Instr("odd", a, b), a[1], b[1])
<1>1. V!W = 2 /\ V!L = 2 /\ V!Lanes = 0 .. 1
  BY Sizes
<1>2. CASE implementation = "builtin"
  <2>1. ASSUME NEW f
        PROVE  V!Instr(f, a, b) = V!Pick(a, b, V!Shuf128[type][f])
    BY <1>1, <1>2 DEF V!Instr, V!Builtin
  <2>2. /\ V!Shuf128[type]["lo"] = <<0, 2>> /\ V!Shuf128[type]["hi"] = <<1, 3>>
        /\ V!Shuf128[type]["even"] = <<0, 2>> /\ V!Shuf128[type]["odd"] = <<1, 3>>
    BY DEF V!Shuf128
  <2> QED
    BY <1>1, <2>1, <2>2, Pick2
<1>3. CASE implementation = "intrinsic"
  <2>1. ASSUME NEW f
        PROVE  V!Instr(f, a, b) = V!Sse(f, a, b)
    BY <1>1, <1>3 DEF V!Instr
  <2>2. /\ V!Sse("lo", a, b) = V!Unpack(a, b, 0) /\ V!Sse("hi", a, b) = V!Unpack(a, b, 1)
        /\ V!Sse("even", a, b) = V!Unpack(a, b, 0) /\ V!Sse("odd", a, b) = V!Unpack(a, b, 1)
    BY <1>1 DEF V!Sse
  <2> QED
    BY <1>1, <2>1, <2>2, Unpack22
<1> QED
  BY <1>2, <1>3 DEF VecKind

LEMMA Instr4f ==
  ASSUME VecKind, type = "v4f", NEW a \in [0 .. 3 -> Int], NEW b \in [0 .. 3 -> Int]
  PROVE  /\ Four(V!Instr("lo", a, b), a[0], b[0], a[1], b[1])
         /\ Four(V!Instr("hi", a, b), a[2], b[2], a[3], b[3])
         /\ Four(V!Instr("even", a, b), a[0], a[2], b[0], b[2])
         /\ Four(V!Instr("odd", a, b), a[1], a[3], b[1], b[3])
<1>1. V!W = 4 /\ V!L = 4 /\ V!Lanes = 0 .. 3
  BY Sizes
<1>2. CASE implementation \in {"builtin", "neon"}
  <2>1. ASSUME NEW f
        PROVE  V!Instr(f, a, b) = V!Pick(a, b, V!Shuf128.v4f[f])
    BY <1>1, <1>2 DEF V!Instr, V!Builtin, V!Neon
  <2>2. /\ V!Shuf128.v4f["lo"] = <<0, 4, 1, 5>> /\ V!Shuf128.v4f["hi"] = <<2, 6, 3, 7>>
        /\ V!Shuf128.v4f["even"] = <<0, 2, 4, 6>> /\ V!Shuf128.v4f["odd"] = <<1, 3, 5, 7>>
    BY DEF V!Shuf128
  <2> QED
    BY <1>1, <2>1, <2>2, Pick4
<1>3. CASE implementation = "intrinsic"
  <2>1. ASSUME NEW f
        PROVE  V!Instr(f, a, b) = V!Sse(f, a, b)
    BY <1>1, <1>3 DEF V!Instr
  <2>2. /\ V!Sse("lo", a, b) = V!Unpack(a, b, 0) /\ V!Sse("hi", a, b) = V!Unpack(a, b, 2)
        /\ V!Sse("even", a, b) = V!Shuffle(a, b, <<0, 2, 0, 2>>)
        /\ V!Sse("odd", a, b) = V!Shuffle(a, b, <<1, 3, 1, 3>>)
    BY <1>1 DEF V!Sse
  <2> QED
    BY <1>1, <2>1, <2>2, Unpack44
<1> QED
  BY <1>2, <1>3 DEF VecKind

LEMMA Instr4d ==
  ASSUME VecKind, type = "v4d", NEW a \in [0 .. 3 -> Int], NEW b \in [0 .. 3 -> Int]
  PROVE  /\ Four(V!Instr("lo", a, b), a[0], b[0], a[2], b[2])
         /\ Four(V!Instr("hi", a, b), a[1], b[1], a[3], b[3])
         /\ Four(V!Instr("even", a, b), a[0], b[0], a[2], b[2])
         /\ Four(V!Instr("odd", a, b), a[1], b[1], a[3], b[3])
         /\ Four(V!Instr("low", a, b), a[0], a[1], b[0], b[1])
         /\ Four(V!Instr("high", a, b), a[2], a[3], b[2], b[3])
<1>1. V!W = 4 /\ V!L = 2 /\ V!Lanes = 0 .. 3
  BY Sizes
<1>2. CASE implementation = "builtin"
  <2>1. ASSUME NEW f
        PROVE  V!Instr(f, a, b) = V!Pick(a, b, V!Shuf256[type][f])
    BY <1>1, <1>2 DEF V!Instr, V!Builtin
  <2>2. /\ V!Shuf256[type]["lo"] = <<0, 4, 2, 6>> /\ V!Shuf256[type]["hi"] = <<1, 5, 3, 7>>
        /\ V!Shuf256[type]["even"] = <<0, 4, 2, 6>> /\ V!Shuf256[type]["odd"] = <<1, 5, 3, 7>>
        /\ V!Shuf256[type]["low"] = <<0, 1, 4, 5>> /\ V!Shuf256[type]["high"] = <<2, 3, 6, 7>>
    BY DEF V!Shuf256
  <2> QED
    BY <1>1, <2>1, <2>2, Pick4
<1>3. CASE implementation = "intrinsic"
  <2>1. ASSUME NEW f
        PROVE  V!Instr(f, a, b) = V!Avx(f, a, b)
    BY <1>1, <1>3 DEF V!Instr
  <2>2. /\ V!Avx("lo", a, b) = V!Sse("lo", a, b) /\ V!Avx("hi", a, b) = V!Sse("hi", a, b)
        /\ V!Avx("even", a, b) = V!Sse("even", a, b) /\ V!Avx("odd", a, b) = V!Sse("odd", a, b)
        /\ V!Avx("low", a, b) = V!Halves(a, b, 0, 2)
        /\ V!Avx("high", a, b) = V!Halves(a, b, 1, 3)
    BY DEF V!Avx
  <2>3. /\ V!Sse("lo", a, b) = V!Unpack(a, b, 0) /\ V!Sse("hi", a, b) = V!Unpack(a, b, 1)
        /\ V!Sse("even", a, b) = V!Unpack(a, b, 0) /\ V!Sse("odd", a, b) = V!Unpack(a, b, 1)
    BY <1>1 DEF V!Sse
  <2> QED
    BY <1>1, <2>1, <2>2, <2>3, Unpack42
<1> QED
  BY <1>2, <1>3 DEF VecKind

LEMMA Instr8f ==
  ASSUME VecKind, type = "v8f", NEW a \in [0 .. 7 -> Int], NEW b \in [0 .. 7 -> Int]
  PROVE  /\ Eight(V!Instr("lo", a, b), a[0], b[0], a[1], b[1], a[4], b[4], a[5], b[5])
         /\ Eight(V!Instr("hi", a, b), a[2], b[2], a[3], b[3], a[6], b[6], a[7], b[7])
         /\ Eight(V!Instr("even", a, b), a[0], a[2], b[0], b[2], a[4], a[6], b[4], b[6])
         /\ Eight(V!Instr("odd", a, b), a[1], a[3], b[1], b[3], a[5], a[7], b[5], b[7])
         /\ Eight(V!Instr("lo2", a, b), a[0], a[1], b[0], b[1], a[4], a[5], b[4], b[5])
         /\ Eight(V!Instr("hi2", a, b), a[2], a[3], b[2], b[3], a[6], a[7], b[6], b[7])
         /\ Eight(V!Instr("low", a, b), a[0], a[1], a[2], a[3], b[0], b[1], b[2], b[3])
         /\ Eight(V!Instr("high", a, b), a[4], a[5], a[6], a[7], b[4], b[5], b[6], b[7])
<1>1. V!W = 8 /\ V!L = 4 /\ V!Lanes = 0 .. 7
  BY Sizes
<1>2. CASE implementation = "builtin"
  <2>1. ASSUME NEW f
        PROVE  V!Instr(f, a, b) = V!Pick(a, b, V!Shuf256[type][f])
    BY <1>1, <1>2 DEF V!Instr, V!Builtin
  <2>2. /\ V!Shuf256[type]["lo"] = <<0, 8, 1, 9, 4, 12, 5, 13>>
        /\ V!Shuf256[type]["hi"] = <<2, 10, 3, 11, 6, 14, 7, 15>>
        /\ V!Shuf256[type]["even"] = <<0, 2, 8, 10, 4, 6, 12, 14>>
        /\ V!Shuf256[type]["odd"] = <<1, 3, 9, 11, 5, 7, 13, 15>>
        /\ V!Shuf256[type]["lo2"] = <<0, 1, 8, 9, 4, 5, 12, 13>>
        /\ V!Shuf256[type]["hi2"] = <<2, 3, 10, 11, 6, 7, 14, 15>>
        /\ V!Shuf256[type]["low"] = <<0, 1, 2, 3, 8, 9, 10, 11>>
        /\ V!Shuf256[type]["high"] = <<4, 5, 6, 7, 12, 13, 14, 15>>
    BY DEF V!Shuf256
  <2>3. /\ V!Instr("lo", a, b) = V!Pick(a, b, <<0, 8, 1, 9, 4, 12, 5, 13>>)
        /\ V!Instr("hi", a, b) = V!Pick(a, b, <<2, 10, 3, 11, 6, 14, 7, 15>>)
        /\ V!Instr("even", a, b) = V!Pick(a, b, <<0, 2, 8, 10, 4, 6, 12, 14>>)
        /\ V!Instr("odd", a, b) = V!Pick(a, b, <<1, 3, 9, 11, 5, 7, 13, 15>>)
        /\ V!Instr("lo2", a, b) = V!Pick(a, b, <<0, 1, 8, 9, 4, 5, 12, 13>>)
        /\ V!Instr("hi2", a, b) = V!Pick(a, b, <<2, 3, 10, 11, 6, 7, 14, 15>>)
        /\ V!Instr("low", a, b) = V!Pick(a, b, <<0, 1, 2, 3, 8, 9, 10, 11>>)
        /\ V!Instr("high", a, b) = V!Pick(a, b, <<4, 5, 6, 7, 12, 13, 14, 15>>)
    BY <2>1, <2>2, Zenon
  <2> QED
    BY <1>1, <2>3, Pick8
<1>3. CASE implementation = "intrinsic"
  <2>1. ASSUME NEW f
        PROVE  V!Instr(f, a, b) = V!Avx(f, a, b)
    BY <1>1, <1>3 DEF V!Instr
  <2>2. /\ V!Avx("lo", a, b) = V!Sse("lo", a, b) /\ V!Avx("hi", a, b) = V!Sse("hi", a, b)
        /\ V!Avx("even", a, b) = V!Sse("even", a, b) /\ V!Avx("odd", a, b) = V!Sse("odd", a, b)
        /\ V!Avx("lo2", a, b) = V!Shuffle(a, b, <<0, 1, 0, 1>>)
        /\ V!Avx("hi2", a, b) = V!Shuffle(a, b, <<2, 3, 2, 3>>)
        /\ V!Avx("low", a, b) = V!Halves(a, b, 0, 2)
        /\ V!Avx("high", a, b) = V!Halves(a, b, 1, 3)
    BY DEF V!Avx
  <2>3. /\ V!Sse("lo", a, b) = V!Unpack(a, b, 0) /\ V!Sse("hi", a, b) = V!Unpack(a, b, 2)
        /\ V!Sse("even", a, b) = V!Shuffle(a, b, <<0, 2, 0, 2>>)
        /\ V!Sse("odd", a, b) = V!Shuffle(a, b, <<1, 3, 1, 3>>)
    BY <1>1 DEF V!Sse
  <2> QED
    BY <1>1, <2>1, <2>2, <2>3, Unpack84
<1> QED
  BY <1>2, <1>3 DEF VecKind

-----------------------------------------------------------------------------
(* Interleaving and deinterleaving.                                        *)

LEMMA Interleave2d ==
  ASSUME VecKind, type = "v2d", NEW a \in [0 .. 1 -> Int], NEW b \in [0 .. 1 -> Int]
  PROVE  \E x, y : /\ V!Interleave(a, b) = <<x, y>>
                   /\ Two(x, a[0], b[0]) /\ Two(y, a[1], b[1])
<1>1. V!W = V!L
  BY Sizes
<1>2. V!Interleave(a, b) = <<V!Instr("lo", a, b), V!Instr("hi", a, b)>>
  BY <1>1 DEF V!Interleave, V!Both
<1> QED
  BY <1>2, Instr2d

LEMMA Interleave4 ==
  ASSUME VecKind, type \in {"v4f", "v4d"},
         NEW a \in [0 .. 3 -> Int], NEW b \in [0 .. 3 -> Int]
  PROVE  \E x, y : /\ V!Interleave(a, b) = <<x, y>>
                   /\ Four(x, a[0], b[0], a[1], b[1]) /\ Four(y, a[2], b[2], a[3], b[3])
<1> DEFINE p == V!Instr("lo", a, b)
           q == V!Instr("hi", a, b)
<1>1. CASE type = "v4f"
  <2>1. V!W = V!L
    BY <1>1, Sizes
  <2>2. V!Interleave(a, b) = <<p, q>>
    BY <2>1 DEF V!Interleave, V!Both
  <2> QED
    BY <1>1, <2>2, Instr4f
<1>2. CASE type = "v4d"
  <2>1. V!W # V!L
    BY <1>2, Sizes
  <2>2. V!Interleave(a, b) = <<V!Instr("low", p, q), V!Instr("high", p, q)>>
    BY <2>1 DEF V!Interleave, V!Both
  <2>3. Four(p, a[0], b[0], a[2], b[2]) /\ Four(q, a[1], b[1], a[3], b[3])
    BY <1>2, Instr4d
  <2> HIDE DEF p, q
  <2>4. p \in [0 .. 3 -> Int] /\ q \in [0 .. 3 -> Int]
    BY <2>3 DEF Four
  <2>5. /\ Four(V!Instr("low", p, q), p[0], p[1], q[0], q[1])
        /\ Four(V!Instr("high", p, q), p[2], p[3], q[2], q[3])
    BY <1>2, <2>4, Instr4d
  <2>6. /\ Four(V!Instr("low", p, q), a[0], b[0], a[1], b[1])
        /\ Four(V!Instr("high", p, q), a[2], b[2], a[3], b[3])
    BY <2>3, <2>5 DEF Four
  <2> QED
    BY <2>2, <2>6
<1> QED
  BY <1>1, <1>2

LEMMA Interleave8 ==
  ASSUME VecKind, type = "v8f", NEW a \in [0 .. 7 -> Int], NEW b \in [0 .. 7 -> Int]
  PROVE  \E x, y : /\ V!Interleave(a, b) = <<x, y>>
                   /\ Eight(x, a[0], b[0], a[1], b[1], a[2], b[2], a[3], b[3])
                   /\ Eight(y, a[4], b[4], a[5], b[5], a[6], b[6], a[7], b[7])
<1> DEFINE p == V!Instr("lo", a, b)
           q == V!Instr("hi", a, b)
<1>1. V!W # V!L
  BY Sizes
<1>2. V!Interleave(a, b) = <<V!Instr("low", p, q), V!Instr("high", p, q)>>
  BY <1>1 DEF V!Interleave, V!Both
<1>3. /\ Eight(p, a[0], b[0], a[1], b[1], a[4], b[4], a[5], b[5])
      /\ Eight(q, a[2], b[2], a[3], b[3], a[6], b[6], a[7], b[7])
  BY Instr8f
<1> HIDE DEF p, q
<1>4. p \in [0 .. 7 -> Int] /\ q \in [0 .. 7 -> Int]
  BY <1>3 DEF Eight
<1>5. /\ Eight(V!Instr("low", p, q), p[0], p[1], p[2], p[3], q[0], q[1], q[2], q[3])
      /\ Eight(V!Instr("high", p, q), p[4], p[5], p[6], p[7], q[4], q[5], q[6], q[7])
  BY <1>4, Instr8f
<1>6. /\ Eight(V!Instr("low", p, q), a[0], b[0], a[1], b[1], a[2], b[2], a[3], b[3])
      /\ Eight(V!Instr("high", p, q), a[4], b[4], a[5], b[5], a[6], b[6], a[7], b[7])
  BY <1>3, <1>5 DEF Eight
<1> QED
  BY <1>2, <1>6

LEMMA Deinterleave2d ==
  ASSUME VecKind, type = "v2d", NEW a \in [0 .. 1 -> Int], NEW b \in [0 .. 1 -> Int]
  PROVE  \E x, y : /\ V!Deinterleave(a, b) = <<x, y>>
                   /\ Two(x, a[0], b[0]) /\ Two(y, a[1], b[1])
<1>1. V!W = V!L
  BY Sizes
<1>2. V!Deinterleave(a, b) = <<V!Instr("even", a, b), V!Instr("odd", a, b)>>
  BY <1>1 DEF V!Deinterleave, V!Both
<1> QED
  BY <1>2, Instr2d

LEMMA Deinterleave4 ==
  ASSUME VecKind, type \in {"v4f", "v4d"},
         NEW a \in [0 .. 3 -> Int], NEW b \in [0 .. 3 -> Int]
  PROVE  \E x, y : /\ V!Deinterleave(a, b) = <<x, y>>
                   /\ Four(x, a[0], a[2], b[0], b[2]) /\ Four(y, a[1], a[3], b[1], b[3])
<1>1. CASE type = "v4f"
  <2>1. V!W = V!L
    BY <1>1, Sizes
  <2>2. V!Deinterleave(a, b) = <<V!Instr("even", a, b), V!Instr("odd", a, b)>>
    BY <2>1 DEF V!Deinterleave, V!Both
  <2> QED
    BY <1>1, <2>2, Instr4f
<1>2. CASE type = "v4d"
  <2> DEFINE p == V!Instr("low", a, b)
             q == V!Instr("high", a, b)
  <2>1. V!W # V!L
    BY <1>2, Sizes
  <2>2. V!Deinterleave(a, b) = <<V!Instr("even", p, q), V!Instr("odd", p, q)>>
    BY <2>1 DEF V!Deinterleave, V!Both
  <2>3. Four(p, a[0], a[1], b[0], b[1]) /\ Four(q, a[2], a[3], b[2], b[3])
    BY <1>2, Instr4d
  <2> HIDE DEF p, q
  <2>4. p \in [0 .. 3 -> Int] /\ q \in [0 .. 3 -> Int]
    BY <2>3 DEF Four
  <2>5. /\ Four(V!Instr("even", p, q), p[0], q[0], p[2], q[2])
        /\ Four(V!Instr("odd", p, q), p[1], q[1], p[3], q[3])
    BY <1>2, <2>4, Instr4d
  <2>6. /\ Four(V!Instr("even", p, q), a[0], a[2], b[0], b[2])
        /\ Four(V!Instr("odd", p, q), a[1], a[3], b[1], b[3])
    BY <2>3, <2>5 DEF Four
  <2> QED
    BY <2>2, <2>6
<1> QED
  BY <1>1, <1>2

LEMMA Deinterleave8 ==
  ASSUME VecKind, type = "v8f", NEW a \in [0 .. 7 -> Int], NEW b \in [0 .. 7 -> Int]
  PROVE  \E x, y : /\ V!Deinterleave(a, b) = <<x, y>>
                   /\ Eight(x, a[0], a[2], a[4], a[6], b[0], b[2], b[4], b[6])
                   /\ Eight(y, a[1], a[3], a[5], a[7], b[1], b[3], b[5], b[7])
<1> DEFINE p == V!Instr("low", a, b)
           q == V!Instr("high", a, b)
<1>1. V!W # V!L
  BY Sizes
<1>2. V!Deinterleave(a, b) = <<V!Instr("even", p, q), V!Instr("odd", p, q)>>
  BY <1>1 DEF V!Deinterleave, V!Both
<1>3. /\ Eight(p, a[0], a[1], a[2], a[3], b[0], b[1], b[2], b[3])
      /\ Eight(q, a[4], a[5], a[6], a[7], b[4], b[5], b[6], b[7])
  BY Instr8f
<1> HIDE DEF p, q
<1>4. p \in [0 .. 7 -> Int] /\ q \in [0 .. 7 -> Int]
  BY <1>3 DEF Eight
<1>5. /\ Eight(V!Instr("even", p, q), p[0], p[2], q[0], q[2], p[4], p[6], q[4], q[6])
      /\ Eight(V!Instr("odd", p, q), p[1], p[3], q[1], q[3], p[5], p[7], q[5], q[7])
  BY <1>4, Instr8f
<1>6. /\ Eight(V!Instr("even", p, q), a[0], a[2], a[4], a[6], b[0], b[2], b[4], b[6])
      /\ Eight(V!Instr("odd", p, q), a[1], a[3], a[5], a[7], b[1], b[3], b[5], b[7])
  BY <1>3, <1>5 DEF Eight
<1> QED
  BY <1>2, <1>6

\* The same for any type: a vector is a function on its lanes.
Vec == [V!Lanes -> Int]

LEMMA InterleaveRight ==
  ASSUME VecKind, NEW a \in Vec, NEW b \in Vec
  PROVE  \E x \in Vec, y \in Vec :
           /\ V!Interleave(a, b) = <<x, y>>
           /\ V!Cat(x, y) = V!Zip(a, b)
<1>1. CASE type = "v2d"
  <2>1. V!W = 2 /\ V!Lanes = 0 .. 1
    BY <1>1, Sizes
  <2>2. PICK x, y : /\ V!Interleave(a, b) = <<x, y>>
                    /\ Two(x, a[0], b[0]) /\ Two(y, a[1], b[1])
    BY <1>1, <2>1, Interleave2d DEF Vec
  <2>3. V!Cat(x, y) = V!Zip(a, b)
    BY <2>1, <2>2 DEF V!Cat, V!Zip, Two
  <2> QED
    BY <2>1, <2>2, <2>3 DEF Vec, Two
<1>2. CASE type \in {"v4f", "v4d"}
  <2>1. V!W = 4 /\ V!Lanes = 0 .. 3
    BY <1>2, Sizes
  <2>2. PICK x, y : /\ V!Interleave(a, b) = <<x, y>>
                    /\ Four(x, a[0], b[0], a[1], b[1]) /\ Four(y, a[2], b[2], a[3], b[3])
    BY <1>2, <2>1, Interleave4 DEF Vec
  <2>3. V!Cat(x, y) = V!Zip(a, b)
    BY <2>1, <2>2 DEF V!Cat, V!Zip, Four
  <2> QED
    BY <2>1, <2>2, <2>3 DEF Vec, Four
<1>3. CASE type = "v8f"
  <2>1. V!W = 8 /\ V!Lanes = 0 .. 7
    BY <1>3, Sizes
  <2>2. PICK x, y : /\ V!Interleave(a, b) = <<x, y>>
                    /\ Eight(x, a[0], b[0], a[1], b[1], a[2], b[2], a[3], b[3])
                    /\ Eight(y, a[4], b[4], a[5], b[5], a[6], b[6], a[7], b[7])
    BY <1>3, <2>1, Interleave8 DEF Vec
  <2>3. V!Cat(x, y) = V!Zip(a, b)
    BY <2>1, <2>2 DEF V!Cat, V!Zip, Eight
  <2> QED
    BY <2>1, <2>2, <2>3 DEF Vec, Eight
<1> QED
  BY <1>1, <1>2, <1>3 DEF VecKind

LEMMA DeinterleaveRight ==
  ASSUME VecKind, NEW a \in Vec, NEW b \in Vec
  PROVE  \E x \in Vec, y \in Vec :
           /\ V!Deinterleave(a, b) = <<x, y>>
           /\ V!Zip(x, y) = V!Cat(a, b)
<1>1. CASE type = "v2d"
  <2>1. V!W = 2 /\ V!Lanes = 0 .. 1
    BY <1>1, Sizes
  <2>2. PICK x, y : /\ V!Deinterleave(a, b) = <<x, y>>
                    /\ Two(x, a[0], b[0]) /\ Two(y, a[1], b[1])
    BY <1>1, <2>1, Deinterleave2d DEF Vec
  <2>3. V!Zip(x, y) = V!Cat(a, b)
    BY <2>1, <2>2 DEF V!Cat, V!Zip, Two
  <2> QED
    BY <2>1, <2>2, <2>3 DEF Vec, Two
<1>2. CASE type \in {"v4f", "v4d"}
  <2>1. V!W = 4 /\ V!Lanes = 0 .. 3
    BY <1>2, Sizes
  <2>2. PICK x, y : /\ V!Deinterleave(a, b) = <<x, y>>
                    /\ Four(x, a[0], a[2], b[0], b[2]) /\ Four(y, a[1], a[3], b[1], b[3])
    BY <1>2, <2>1, Deinterleave4 DEF Vec
  <2>3. V!Zip(x, y) = V!Cat(a, b)
    BY <2>1, <2>2 DEF V!Cat, V!Zip, Four
  <2> QED
    BY <2>1, <2>2, <2>3 DEF Vec, Four
<1>3. CASE type = "v8f"
  <2>1. V!W = 8 /\ V!Lanes = 0 .. 7
    BY <1>3, Sizes
  <2>2. PICK x, y : /\ V!Deinterleave(a, b) = <<x, y>>
                    /\ Eight(x, a[0], a[2], a[4], a[6], b[0], b[2], b[4], b[6])
                    /\ Eight(y, a[1], a[3], a[5], a[7], b[1], b[3], b[5], b[7])
    BY <1>3, <2>1, Deinterleave8 DEF Vec
  <2>3. V!Zip(x, y) = V!Cat(a, b)
    BY <2>1, <2>2 DEF V!Cat, V!Zip, Eight
  <2> QED
    BY <2>1, <2>2, <2>3 DEF Vec, Eight
<1> QED
  BY <1>1, <1>2, <1>3 DEF VecKind


-----------------------------------------------------------------------------
(* Rotation and reversal.                                                  *)

\* The elements of a but the first, and the first of b.
LEMMA RotlRight ==
  ASSUME VecKind, NEW a \in Vec, NEW b \in Vec
  PROVE  V!Rotl(a, b) \in Vec /\ \A k \in V!Lanes : V!Rotl(a, b)[k] = V!Cat(a, b)[k + 1]
<1>1. CASE implementation # "intrinsic"
  <2>1. V!Rotl(a, b) = V!Pick(a, b, [k \in 1 .. V!W |-> k])
    BY <1>1 DEF V!Rotl
  <2>2. V!W \in Nat /\ V!W > 1 /\ V!Lanes = 0 .. V!W - 1
    BY Sizes DEF VecKind, V!Lanes
  <2>3. ASSUME NEW k \in V!Lanes
        PROVE  /\ V!Rotl(a, b)[k] = IF k + 1 < V!W THEN a[k + 1] ELSE b[k + 1 - V!W]
               /\ V!Cat(a, b)[k + 1] = IF k + 1 < V!W THEN a[k + 1] ELSE b[k + 1 - V!W]
    <3>1. k + 1 \in 1 .. V!W /\ k + 1 \in 0 .. 2 * V!W - 1
      BY <2>2
    <3>2. V!Cat(a, b)[k + 1] = IF k + 1 < V!W THEN a[k + 1] ELSE b[k + 1 - V!W]
      BY <2>2, <3>1 DEF V!Cat
    <3> DEFINE s == [j \in 1 .. V!W |-> j]
    <3>3. s[k + 1] = k + 1
      BY <3>1
    <3> HIDE DEF s
    <3>4. V!Pick(a, b, s)[k] = IF k + 1 < V!W THEN a[k + 1] ELSE b[k + 1 - V!W]
      BY <2>2, <3>3 DEF V!Pick
    <3> QED
      BY <2>1, <3>2, <3>4 DEF s
  <2>4. ASSUME NEW k \in V!Lanes
        PROVE  V!Rotl(a, b)[k] \in Int
    <3>1. k + 1 < V!W => k + 1 \in V!Lanes
      BY <2>2
    <3>2. ~(k + 1 < V!W) => k + 1 - V!W \in V!Lanes
      BY <2>2
    <3> QED
      BY <2>3, <3>1, <3>2 DEF Vec
  <2>5. V!Rotl(a, b) = [k \in V!Lanes |-> V!Rotl(a, b)[k]]
    BY <2>1 DEF V!Pick
  <2> QED
    BY <2>3, <2>4, <2>5 DEF Vec
<1>2. CASE implementation = "intrinsic" /\ type = "v2d"
  <2>1. V!W = 2 /\ V!L = 2 /\ V!Lanes = 0 .. 1
    BY <1>2, Sizes
  <2>2. V!Rotl(a, b) = V!Shuffle(a, b, <<1, 0>>)
    BY <1>2 DEF V!Rotl, V!Rotl2d
  <2>3. Two(V!Rotl(a, b), a[1], b[0])
    BY <2>1, <2>2 DEF Vec, V!Shuffle, Two
  <2> QED
    BY <2>1, <2>3 DEF Two, Vec, V!Cat
<1>3. CASE implementation = "intrinsic" /\ type = "v4f"
  <2> DEFINE c == V!Blend(a, b, {0})
  <2>1. V!W = 4 /\ V!L = 4 /\ V!Lanes = 0 .. 3
    BY <1>3, Sizes
  <2>2. V!Rotl(a, b) = V!Shuffle(c, c, <<1, 2, 3, 0>>)
    BY <1>3 DEF V!Rotl, V!Rotl4f
  <2>3. Four(c, b[0], a[1], a[2], a[3])
    BY <2>1 DEF Vec, V!Blend, Four
  <2> HIDE DEF c
  <2>4. Four(V!Rotl(a, b), c[1], c[2], c[3], c[0])
    BY <2>1, <2>2, <2>3 DEF V!Shuffle, Four
  <2> QED
    BY <2>1, <2>3, <2>4 DEF Four, Vec, V!Cat
<1>4. CASE implementation = "intrinsic" /\ type = "v4d"
  <2> DEFINE c == V!Blend(a, b, {0})
             d == V!Halves(c, c, 1, 0)
  <2>1. V!W = 4 /\ V!L = 2 /\ V!Lanes = 0 .. 3
    BY <1>4, Sizes
  <2>2. V!Rotl(a, b) = V!Shuffle(a, d, <<1, 0>>)
    BY <1>4 DEF V!Rotl, V!Rotl4d
  <2>3. Four(c, b[0], a[1], a[2], a[3])
    BY <2>1 DEF Vec, V!Blend, Four
  <2> HIDE DEF c
  <2>4. Four(d, c[2], c[3], c[0], c[1])
    BY <2>1, <2>3, Unpack42 DEF Four
  <2> HIDE DEF d
  <2>5. Four(V!Rotl(a, b), a[1], d[0], a[3], d[2])
    BY <2>1, <2>2, <2>4, Unpack42 DEF Four, Vec
  <2> QED
    BY <2>1, <2>3, <2>4, <2>5 DEF Four, Vec, V!Cat
<1>5. CASE implementation = "intrinsic" /\ type = "v8f"
  <2> DEFINE c == V!Blend(a, b, {0})
             h == V!Halves(c, c, 1, 0)
             d == V!Blend(a, h, {0, 4})
  <2>1. V!W = 8 /\ V!L = 4 /\ V!Lanes = 0 .. 7
    BY <1>5, Sizes
  <2>2. V!Rotl(a, b) = V!Shuffle(d, d, <<1, 2, 3, 0>>)
    BY <1>5 DEF V!Rotl, V!Rotl8
  <2>3. Eight(c, b[0], a[1], a[2], a[3], a[4], a[5], a[6], a[7])
    BY <2>1 DEF Vec, V!Blend, Eight
  <2> HIDE DEF c
  <2>4. Eight(h, c[4], c[5], c[6], c[7], c[0], c[1], c[2], c[3])
    BY <2>1, <2>3 DEF V!Halves, Eight
  <2> HIDE DEF h
  <2>5. Eight(d, h[0], a[1], a[2], a[3], h[4], a[5], a[6], a[7])
    BY <2>1, <2>4 DEF Vec, V!Blend, Eight
  <2> HIDE DEF d
  <2>6. Eight(V!Rotl(a, b), d[1], d[2], d[3], d[0], d[5], d[6], d[7], d[4])
    BY <2>1, <2>2, <2>5 DEF V!Shuffle, Eight
  <2>7. Eight(V!Rotl(a, b), a[1], a[2], a[3], a[4], a[5], a[6], a[7], b[0])
    BY <2>3, <2>4, <2>5, <2>6 DEF Eight
  <2> QED
    BY <2>1, <2>7 DEF Eight, Vec, V!Cat
<1> QED
  BY <1>1, <1>2, <1>3, <1>4, <1>5 DEF VecKind

LEMMA ReverseRight ==
  ASSUME VecKind, NEW a \in Vec
  PROVE  V!Reverse(a) \in Vec /\ \A k \in V!Lanes : V!Reverse(a)[k] = a[V!W - 1 - k]
<1>1. CASE implementation = "builtin"
  <2>1. V!Reverse(a) = V!Pick(a, a, [k \in 1 .. V!W |-> V!W - k])
    BY <1>1 DEF V!Reverse
  <2>2. V!W \in Nat /\ V!W > 1 /\ V!Lanes = 0 .. V!W - 1
    BY Sizes DEF VecKind, V!Lanes
  <2>3. ASSUME NEW k \in V!Lanes
        PROVE  V!Reverse(a)[k] = a[V!W - 1 - k] /\ V!W - 1 - k \in V!Lanes
    <3>1. k + 1 \in 1 .. V!W /\ V!W - (k + 1) = V!W - 1 - k /\ V!W - 1 - k < V!W
          /\ V!W - 1 - k \in V!Lanes
      BY <2>2
    <3> QED
      BY <2>1, <3>1 DEF V!Pick
  <2>4. V!Reverse(a) = [k \in V!Lanes |-> V!Reverse(a)[k]]
    BY <2>1 DEF V!Pick
  <2> QED
    BY <2>3, <2>4 DEF Vec
<1>2. CASE implementation = "neon"
  <2> DEFINE d == V!Pick(a, a, <<1, 0, 3, 2>>)
  <2>1. V!W = 4 /\ V!L = 4 /\ V!Lanes = 0 .. 3
    BY <1>2, Sizes DEF VecKind
  <2>2. V!Reverse(a) = [k \in V!Lanes |-> d[(k + 2) % 4]]
    BY <1>2 DEF V!Reverse
  <2>3. Four(d, a[1], a[0], a[3], a[2])
    BY <2>1 DEF Vec, V!Pick, Four
  <2> HIDE DEF d
  <2>4. Four(V!Reverse(a), d[2], d[3], d[0], d[1])
    BY <2>1, <2>2, <2>3 DEF Four
  <2> QED
    BY <2>1, <2>3, <2>4 DEF Four, Vec
<1>3. CASE implementation = "intrinsic" /\ type = "v2d"
  <2>1. V!W = 2 /\ V!L = 2 /\ V!Lanes = 0 .. 1
    BY <1>3, Sizes
  <2>2. V!Reverse(a) = V!Shuffle(a, a, <<1, 0>>)
    BY <1>3, <2>1 DEF V!Reverse
  <2>3. Two(V!Reverse(a), a[1], a[0])
    BY <2>1, <2>2 DEF Vec, V!Shuffle, Two
  <2> QED
    BY <2>1, <2>3 DEF Two, Vec
<1>4. CASE implementation = "intrinsic" /\ type = "v4f"
  <2>1. V!W = 4 /\ V!L = 4 /\ V!Lanes = 0 .. 3
    BY <1>4, Sizes
  <2>2. V!Reverse(a) = V!Shuffle(a, a, <<3, 2, 1, 0>>)
    BY <1>4, <2>1 DEF V!Reverse
  <2>3. Four(V!Reverse(a), a[3], a[2], a[1], a[0])
    BY <2>1, <2>2 DEF Vec, V!Shuffle, Four
  <2> QED
    BY <2>1, <2>3 DEF Four, Vec
<1>5. CASE implementation = "intrinsic" /\ type = "v4d"
  <2> DEFINE c == V!Halves(a, a, 1, 0)
  <2>1. V!W = 4 /\ V!L = 2 /\ V!Lanes = 0 .. 3
    BY <1>5, Sizes
  <2>2. V!Reverse(a) = V!Shuffle(c, c, <<1, 0>>)
    BY <1>5, <2>1 DEF V!Reverse
  <2>3. Four(c, a[2], a[3], a[0], a[1])
    BY <2>1, Unpack42 DEF Vec
  <2> HIDE DEF c
  <2>4. Four(V!Reverse(a), c[1], c[0], c[3], c[2])
    BY <2>1, <2>2, <2>3, Unpack42 DEF Four
  <2> QED
    BY <2>1, <2>3, <2>4 DEF Four, Vec
<1>6. CASE implementation = "intrinsic" /\ type = "v8f"
  <2> DEFINE c == V!Halves(a, a, 1, 0)
  <2>1. V!W = 8 /\ V!L = 4 /\ V!Lanes = 0 .. 7
    BY <1>6, Sizes
  <2>2. V!Reverse(a) = V!Shuffle(c, c, <<3, 2, 1, 0>>)
    BY <1>6, <2>1 DEF V!Reverse
  <2>3. Eight(c, a[4], a[5], a[6], a[7], a[0], a[1], a[2], a[3])
    BY <2>1 DEF Vec, V!Halves, Eight
  <2> HIDE DEF c
  <2>4. Eight(V!Reverse(a), c[3], c[2], c[1], c[0], c[7], c[6], c[5], c[4])
    BY <2>1, <2>2, <2>3 DEF V!Shuffle, Eight
  <2>5. Eight(V!Reverse(a), a[7], a[6], a[5], a[4], a[3], a[2], a[1], a[0])
    BY <2>3, <2>4 DEF Eight
  <2> QED
    BY <2>1, <2>5 DEF Eight, Vec
<1> QED
  BY <1>1, <1>2, <1>3, <1>4, <1>5, <1>6 DEF VecKind

-----------------------------------------------------------------------------
(* The greatest and the least element.                                     *)

\* Whether x is at least, or at most, y.
Beats(op, x, y) == IF op = "max" THEN x >= y ELSE x <= y

LEMMA ExtremeRight ==
  ASSUME NEW op \in {"max", "min"}, NEW x \in Int, NEW y \in Int
  PROVE  /\ V!Extreme(op, x, y) \in Int
         /\ V!Extreme(op, x, y) = x \/ V!Extreme(op, x, y) = y
         /\ Beats(op, V!Extreme(op, x, y), x) /\ Beats(op, V!Extreme(op, x, y), y)
BY DEF V!Extreme, Beats

LEMMA BeatsAll ==
  ASSUME NEW op \in {"max", "min"}, NEW x \in Int, NEW y \in Int, NEW z \in Int,
         Beats(op, x, y), Beats(op, y, z)
  PROVE  Beats(op, x, z)
BY DEF Beats

LEMMA LanewiseRight ==
  ASSUME NEW op \in {"max", "min"}, NEW a \in Vec, NEW b \in Vec
  PROVE  /\ V!Lanewise(op, a, b) \in Vec
         /\ \A k \in V!Lanes : V!Lanewise(op, a, b)[k] = V!Extreme(op, a[k], b[k])
<1>1. \A k \in V!Lanes : V!Extreme(op, a[k], b[k]) \in Int
  BY ExtremeRight DEF Vec
<1> QED
  BY <1>1 DEF V!Lanewise, Vec

\* An element that is in one of two lanes of a vector and beats both.
Best(op, e, x, y) == e \in Int /\ (e = x \/ e = y) /\ Beats(op, e, x) /\ Beats(op, e, y)

LEMMA RoundRight ==
  ASSUME VecKind, NEW op \in {"max", "min"}, NEW v \in Vec
  PROVE  /\ V!Round(op, v) \in Vec
         /\ \A k \in V!Lanes : Best(op, V!Round(op, v)[k], v[k \div 2], v[(V!W + k) \div 2])
<1>1. PICK x \in Vec, y \in Vec : V!Interleave(v, v) = <<x, y>> /\ V!Cat(x, y) = V!Zip(v, v)
  BY InterleaveRight
<1>2. V!Round(op, v) = V!Lanewise(op, x, y)
  BY <1>1 DEF V!Round
<1>3. ASSUME NEW k \in V!Lanes
      PROVE  x[k] = v[k \div 2] /\ y[k] = v[(V!W + k) \div 2]
  <2>1. V!W \in {2, 4, 8} /\ V!Lanes = 0 .. V!W - 1
    BY Sizes DEF VecKind, V!Lanes
  <2>2. k \in 0 .. 2 * V!W - 1 /\ V!W + k \in 0 .. 2 * V!W - 1 /\ k < V!W /\ ~(V!W + k < V!W)
        /\ (V!W + k) - V!W = k
    BY <2>1
  <2>3. V!Cat(x, y)[k] = x[k] /\ V!Cat(x, y)[V!W + k] = y[k]
    BY <2>2 DEF V!Cat
  <2>4. V!Zip(v, v)[k] = v[k \div 2] /\ V!Zip(v, v)[V!W + k] = v[(V!W + k) \div 2]
    BY <2>2 DEF V!Zip
  <2> QED
    BY <1>1, <2>3, <2>4
<1>4. /\ V!Lanewise(op, x, y) \in Vec
      /\ \A k \in V!Lanes : V!Lanewise(op, x, y)[k] = V!Extreme(op, x[k], y[k])
  BY LanewiseRight
<1>5. ASSUME NEW k \in V!Lanes
      PROVE  Best(op, V!Round(op, v)[k], v[k \div 2], v[(V!W + k) \div 2])
  <2>1. x[k] \in Int /\ y[k] \in Int
    BY DEF Vec
  <2>2. Best(op, V!Extreme(op, x[k], y[k]), x[k], y[k])
    BY <2>1, ExtremeRight DEF Best
  <2> QED
    BY <1>2, <1>3, <1>4, <2>2
<1> QED
  BY <1>2, <1>4, <1>5

LEMMA HorizontalRight ==
  ASSUME VecKind, NEW op \in {"max", "min"}, NEW a \in Vec
  PROVE  /\ V!Horizontal(op, a) \in Int
         /\ \E k \in V!Lanes : V!Horizontal(op, a) = a[k]
         /\ \A k \in V!Lanes : Beats(op, V!Horizontal(op, a), a[k])
<1> DEFINE e == V!Horizontal(op, a)
           r == V!Round(op, a)
           s == V!Round(op, r)
           t == V!Round(op, s)
<1>1. \A k \in V!Lanes : a[k] \in Int
  BY DEF Vec
<1>2. r \in Vec /\ \A k \in V!Lanes : Best(op, r[k], a[k \div 2], a[(V!W + k) \div 2])
  BY RoundRight
<1>3. CASE type = "v2d"
  <2>1. V!W = 2 /\ V!Lanes = 0 .. 1
    BY <1>3, Sizes
  <2>2. e = r[0]
    BY <2>1 DEF V!Horizontal
  <2> HIDE DEF e, r
  <2>3. Best(op, e, a[0], a[1])
    <3>1. 0 \div 2 = 0 /\ (2 + 0) \div 2 = 1
      OBVIOUS
    <3> QED
      BY <1>2, <2>1, <2>2, <3>1
  <2>4. e \in Int /\ (e = a[0] \/ e = a[1]) /\ \A k \in V!Lanes : Beats(op, e, a[k])
    BY <2>1, <2>3 DEF Best
  <2> QED
    BY <2>1, <2>4 DEF e
<1>4. CASE type \in {"v4f", "v4d"}
  <2>1. V!W = 4 /\ V!Lanes = 0 .. 3
    BY <1>4, Sizes
  <2>2. e = s[0]
    BY <2>1 DEF V!Horizontal
  <2> HIDE DEF r
  <2>3. \A k \in V!Lanes : Best(op, s[k], r[k \div 2], r[(V!W + k) \div 2])
    BY <1>2, RoundRight
  <2> HIDE DEF e, s
  <2>4. Best(op, e, r[0], r[2])
    <3>1. 0 \div 2 = 0 /\ (4 + 0) \div 2 = 2
      OBVIOUS
    <3> QED
      BY <2>1, <2>2, <2>3, <3>1
  <2>5. Best(op, r[0], a[0], a[2]) /\ Best(op, r[2], a[1], a[3])
    <3>1. 0 \div 2 = 0 /\ (4 + 0) \div 2 = 2 /\ 2 \div 2 = 1 /\ (4 + 2) \div 2 = 3
      OBVIOUS
    <3> QED
      BY <1>2, <2>1, <3>1
  <2>6. /\ e \in Int /\ (e = a[0] \/ e = a[1] \/ e = a[2] \/ e = a[3])
        /\ Beats(op, e, a[0]) /\ Beats(op, e, a[1]) /\ Beats(op, e, a[2]) /\ Beats(op, e, a[3])
    BY <1>1, <2>1, <2>4, <2>5, BeatsAll DEF Best
  <2>7. \A k \in V!Lanes : Beats(op, e, a[k])
    BY <2>1, <2>6
  <2> QED
    BY <2>1, <2>6, <2>7 DEF e
<1>5. CASE type = "v8f"
  <2>1. V!W = 8 /\ V!Lanes = 0 .. 7
    BY <1>5, Sizes
  <2>2. e = t[0]
    BY <2>1 DEF V!Horizontal
  <2> HIDE DEF r
  <2>3. s \in Vec /\ \A k \in V!Lanes : Best(op, s[k], r[k \div 2], r[(V!W + k) \div 2])
    BY <1>2, RoundRight
  <2> HIDE DEF s
  <2>4. \A k \in V!Lanes : Best(op, t[k], s[k \div 2], s[(V!W + k) \div 2])
    BY <2>3, RoundRight
  <2> HIDE DEF e, t
  <2>5. Best(op, e, s[0], s[4])
    <3>1. 0 \div 2 = 0 /\ (8 + 0) \div 2 = 4
      OBVIOUS
    <3> QED
      BY <2>1, <2>2, <2>4, <3>1
  <2>6. Best(op, s[0], r[0], r[4]) /\ Best(op, s[4], r[2], r[6])
    <3>1. 0 \div 2 = 0 /\ (8 + 0) \div 2 = 4 /\ 4 \div 2 = 2 /\ (8 + 4) \div 2 = 6
      OBVIOUS
    <3> QED
      BY <2>1, <2>3, <3>1
  <2>7. /\ Best(op, r[0], a[0], a[4]) /\ Best(op, r[2], a[1], a[5])
        /\ Best(op, r[4], a[2], a[6]) /\ Best(op, r[6], a[3], a[7])
    <3>1. /\ 0 \div 2 = 0 /\ (8 + 0) \div 2 = 4 /\ 2 \div 2 = 1 /\ (8 + 2) \div 2 = 5
          /\ 4 \div 2 = 2 /\ (8 + 4) \div 2 = 6 /\ 6 \div 2 = 3 /\ (8 + 6) \div 2 = 7
      OBVIOUS
    <3> QED
      BY <1>2, <2>1, <3>1
  <2>8. /\ s[0] \in Int /\ (s[0] = a[0] \/ s[0] = a[2] \/ s[0] = a[4] \/ s[0] = a[6])
        /\ Beats(op, s[0], a[0]) /\ Beats(op, s[0], a[2])
        /\ Beats(op, s[0], a[4]) /\ Beats(op, s[0], a[6])
    BY <1>1, <2>1, <2>6, <2>7, BeatsAll DEF Best
  <2>9. /\ s[4] \in Int /\ (s[4] = a[1] \/ s[4] = a[3] \/ s[4] = a[5] \/ s[4] = a[7])
        /\ Beats(op, s[4], a[1]) /\ Beats(op, s[4], a[3])
        /\ Beats(op, s[4], a[5]) /\ Beats(op, s[4], a[7])
    BY <1>1, <2>1, <2>6, <2>7, BeatsAll DEF Best
  <2>10. e \in Int /\ \E k \in V!Lanes : e = a[k]
    BY <2>1, <2>5, <2>8, <2>9 DEF Best
  <2>11. \A k \in {0, 2, 4, 6} : Beats(op, e, a[k])
    BY <1>1, <2>1, <2>5, <2>8, BeatsAll DEF Best
  <2>12. \A k \in {1, 3, 5, 7} : Beats(op, e, a[k])
    BY <1>1, <2>1, <2>5, <2>9, BeatsAll DEF Best
  <2>13. \A k \in V!Lanes : Beats(op, e, a[k])
    BY <2>1, <2>11, <2>12
  <2> QED
    BY <2>10, <2>13 DEF e
<1> QED
  BY <1>3, <1>4, <1>5 DEF VecKind

-----------------------------------------------------------------------------
(* Transposition.                                                          *)

\* Rows that are the columns of others.
Turned(t, r) ==
  \A j \in 1 .. V!W : t[j] \in Vec /\ \A k \in V!Lanes : t[j][k] = r[k + 1][j - 1]

LEMMA PairsJoined ==
  ASSUME NEW w, NEW x, NEW y, NEW z
  PROVE  <<w, x>> \o <<y, z>> = <<w, x, y, z>>
<1> DEFINE T == {w, x, y, z}
           p == <<w, x>>
           q == <<y, z>>
           r == <<w, x, y, z>>
<1>1. p \in Seq(T) /\ q \in Seq(T) /\ r \in Seq(T)
  OBVIOUS
<1>2. /\ Len(p) = 2 /\ p[1] = w /\ p[2] = x /\ Len(q) = 2 /\ q[1] = y /\ q[2] = z
      /\ Len(r) = 4 /\ r[1] = w /\ r[2] = x /\ r[3] = y /\ r[4] = z
  OBVIOUS
<1> HIDE DEF T, p, q, r
<1>3. /\ p \o q \in Seq(T) /\ Len(p \o q) = 4
      /\ \A i \in 1 .. 4 : (p \o q)[i] = IF i <= 2 THEN p[i] ELSE q[i - 2]
  <2>1. /\ p \o q \in Seq(T) /\ Len(p \o q) = Len(p) + Len(q)
        /\ \A i \in 1 .. Len(p) + Len(q) :
             (p \o q)[i] = IF i <= Len(p) THEN p[i] ELSE q[i - Len(p)]
    BY <1>1, ConcatProperties, Zenon
  <2>2. Len(p) = 2 /\ Len(p) + Len(q) = 4
    BY <1>2
  <2> QED
    BY <2>1, <2>2, Zenon
<1>4. \A i \in 1 .. 4 : (p \o q)[i] = r[i]
  BY <1>2, <1>3
<1>5. p \o q = r
  BY <1>1, <1>2, <1>3, <1>4, SeqEqual
<1> QED
  BY <1>5 DEF p, q, r

LEMMA Transpose4Right ==
  ASSUME VecKind, V!W = 4, NEW r, \A k \in 1 .. 4 : r[k] \in Vec
  PROVE  Turned(V!Transpose4(r), r)
<1>1. V!Lanes = 0 .. 3 /\ type \in {"v4f", "v4d"}
  BY Sizes DEF VecKind
<1>2. \A k \in 1 .. 4 : r[k] \in [0 .. 3 -> Int]
  BY <1>1 DEF Vec
<1> DEFINE a == r[1]
           b == r[2]
           c == r[3]
           d == r[4]
<1>3. /\ a \in [0 .. 3 -> Int] /\ b \in [0 .. 3 -> Int]
      /\ c \in [0 .. 3 -> Int] /\ d \in [0 .. 3 -> Int]
  BY <1>2
<1>4. PICK p, q : /\ V!Interleave(a, c) = <<p, q>>
                  /\ Four(p, a[0], c[0], a[1], c[1]) /\ Four(q, a[2], c[2], a[3], c[3])
  BY <1>1, <1>3, Interleave4
<1>5. PICK s, t : /\ V!Interleave(b, d) = <<s, t>>
                  /\ Four(s, b[0], d[0], b[1], d[1]) /\ Four(t, b[2], d[2], b[3], d[3])
  BY <1>1, <1>3, Interleave4
<1>6. V!Transpose4(r) = V!Interleave2(p, s, q, t)
  <2>1. V!Interleave2(a, c, b, d) = <<p, q>> \o <<s, t>>
    BY <1>4, <1>5 DEF V!Interleave2
  <2>2. <<p, q>> \o <<s, t>> = <<p, q, s, t>>
    BY PairsJoined
  <2>3. V!Interleave2(a, c, b, d) = <<p, q, s, t>>
    BY <2>1, <2>2
  <2> QED
    BY <2>3 DEF V!Transpose4
<1> HIDE DEF a, b, c, d
<1>7. /\ p \in [0 .. 3 -> Int] /\ q \in [0 .. 3 -> Int]
      /\ s \in [0 .. 3 -> Int] /\ t \in [0 .. 3 -> Int]
  BY <1>4, <1>5 DEF Four
<1>8. PICK t1, t2 : /\ V!Interleave(p, s) = <<t1, t2>>
                    /\ Four(t1, p[0], s[0], p[1], s[1]) /\ Four(t2, p[2], s[2], p[3], s[3])
  BY <1>1, <1>7, Interleave4
<1>9. PICK t3, t4 : /\ V!Interleave(q, t) = <<t3, t4>>
                    /\ Four(t3, q[0], t[0], q[1], t[1]) /\ Four(t4, q[2], t[2], q[3], t[3])
  BY <1>1, <1>7, Interleave4
<1> DEFINE v == V!Transpose4(r)
<1>10. v = <<t1, t2>> \o <<t3, t4>>
  BY <1>6, <1>8, <1>9 DEF V!Interleave2
<1>11. v[1] = t1 /\ v[2] = t2 /\ v[3] = t3 /\ v[4] = t4
  BY <1>10
<1> HIDE DEF v
<1>12. /\ Four(v[1], a[0], b[0], c[0], d[0]) /\ Four(v[2], a[1], b[1], c[1], d[1])
       /\ Four(v[3], a[2], b[2], c[2], d[2]) /\ Four(v[4], a[3], b[3], c[3], d[3])
  BY <1>4, <1>5, <1>8, <1>9, <1>11 DEF Four
<1>13. Turned(v, <<a, b, c, d>>)
  <2> SUFFICES ASSUME NEW j \in 1 .. 4
               PROVE  v[j] \in Vec /\ \A k \in 0 .. 3 : v[j][k] = <<a, b, c, d>>[k + 1][j - 1]
    BY <1>1 DEF Turned
  <2>1. j = 1 \/ j = 2 \/ j = 3 \/ j = 4
    OBVIOUS
  <2> QED
    BY <1>1, <1>12, <2>1 DEF Four, Vec
<1>14. \A k \in 0 .. 3 : <<a, b, c, d>>[k + 1] = r[k + 1]
  BY DEF a, b, c, d
<1>15. Turned(v, r)
  BY <1>1, <1>13, <1>14 DEF Turned
<1> QED
  BY <1>15 DEF v

LEMMA TransposeHalves4Right ==
  ASSUME VecKind, type = "v4d", NEW r, \A k \in 1 .. 4 : r[k] \in Vec
  PROVE  Turned(V!TransposeHalves4(r), r)
<1>1. V!W = 4 /\ V!Lanes = 0 .. 3
  BY Sizes
<1>2. \A k \in 1 .. 4 : r[k] \in [0 .. 3 -> Int]
  BY <1>1 DEF Vec
<1> DEFINE a == r[1]
           b == r[2]
           c == r[3]
           d == r[4]
           p == V!Instr("low", a, c)
           q == V!Instr("high", a, c)
           s == V!Instr("low", b, d)
           t == V!Instr("high", b, d)
           v == V!TransposeHalves4(r)
<1>3. /\ a \in [0 .. 3 -> Int] /\ b \in [0 .. 3 -> Int]
      /\ c \in [0 .. 3 -> Int] /\ d \in [0 .. 3 -> Int]
  BY <1>2
<1>4. v = V!Both("lo", "hi", p, s) \o V!Both("lo", "hi", q, t)
  BY DEF V!TransposeHalves4, V!Both
<1>5. v = <<V!Instr("lo", p, s), V!Instr("hi", p, s), V!Instr("lo", q, t), V!Instr("hi", q, t)>>
  BY <1>4, PairsJoined DEF V!Both
<1> HIDE DEF a, b, c, d
<1>6. /\ Four(p, a[0], a[1], c[0], c[1]) /\ Four(q, a[2], a[3], c[2], c[3])
      /\ Four(s, b[0], b[1], d[0], d[1]) /\ Four(t, b[2], b[3], d[2], d[3])
  BY <1>3, Instr4d
<1> HIDE DEF p, q, s, t, v
<1>7. /\ p \in [0 .. 3 -> Int] /\ q \in [0 .. 3 -> Int]
      /\ s \in [0 .. 3 -> Int] /\ t \in [0 .. 3 -> Int]
  BY <1>6 DEF Four
<1>8. /\ Four(V!Instr("lo", p, s), p[0], s[0], p[2], s[2])
      /\ Four(V!Instr("hi", p, s), p[1], s[1], p[3], s[3])
      /\ Four(V!Instr("lo", q, t), q[0], t[0], q[2], t[2])
      /\ Four(V!Instr("hi", q, t), q[1], t[1], q[3], t[3])
  BY <1>7, Instr4d
<1>9. /\ Four(V!Instr("lo", p, s), a[0], b[0], c[0], d[0])
      /\ Four(V!Instr("hi", p, s), a[1], b[1], c[1], d[1])
      /\ Four(V!Instr("lo", q, t), a[2], b[2], c[2], d[2])
      /\ Four(V!Instr("hi", q, t), a[3], b[3], c[3], d[3])
  BY <1>6, <1>8 DEF Four
<1>10. /\ Four(v[1], a[0], b[0], c[0], d[0]) /\ Four(v[2], a[1], b[1], c[1], d[1])
       /\ Four(v[3], a[2], b[2], c[2], d[2]) /\ Four(v[4], a[3], b[3], c[3], d[3])
  BY <1>5, <1>9
<1>11. ASSUME NEW j \in 1 .. 4
       PROVE  v[j] \in Vec /\ \A k \in 0 .. 3 : v[j][k] = <<a, b, c, d>>[k + 1][j - 1]
  <2>1. j = 1 \/ j = 2 \/ j = 3 \/ j = 4
    OBVIOUS
  <2> QED
    BY <1>1, <1>10, <2>1 DEF Four, Vec
<1>12. \A k \in 0 .. 3 : <<a, b, c, d>>[k + 1] = r[k + 1]
  BY DEF a, b, c, d
<1> QED
  BY <1>1, <1>11, <1>12 DEF Turned, v

\* Eight vectors put together by fours.
LEMMA FoursJoined ==
  ASSUME NEW a, NEW b, NEW c, NEW d, NEW e, NEW f, NEW g, NEW h
  PROVE  LET p == <<a, b, c, d>> \o <<e, f, g, h>>
         IN  /\ p[1] = a /\ p[2] = b /\ p[3] = c /\ p[4] = d
             /\ p[5] = e /\ p[6] = f /\ p[7] = g /\ p[8] = h
<1> DEFINE T == {a, b, c, d, e, f, g, h}
           p == <<a, b, c, d>>
           q == <<e, f, g, h>>
<1>1. p \in Seq(T) /\ q \in Seq(T)
  OBVIOUS
<1>2. /\ Len(p) = 4 /\ p[1] = a /\ p[2] = b /\ p[3] = c /\ p[4] = d
      /\ Len(q) = 4 /\ q[1] = e /\ q[2] = f /\ q[3] = g /\ q[4] = h
  OBVIOUS
<1> HIDE DEF T, p, q
<1>3. \A i \in 1 .. 8 : (p \o q)[i] = IF i <= 4 THEN p[i] ELSE q[i - 4]
  <2>1. \A i \in 1 .. Len(p) + Len(q) :
          (p \o q)[i] = IF i <= Len(p) THEN p[i] ELSE q[i - Len(p)]
    BY <1>1, ConcatProperties, Zenon
  <2>2. Len(p) = 4 /\ Len(p) + Len(q) = 8
    BY <1>2
  <2> QED
    BY <2>1, <2>2, Zenon
<1>4. /\ (p \o q)[1] = p[1] /\ (p \o q)[2] = p[2] /\ (p \o q)[3] = p[3] /\ (p \o q)[4] = p[4]
      /\ (p \o q)[5] = q[1] /\ (p \o q)[6] = q[2] /\ (p \o q)[7] = q[3] /\ (p \o q)[8] = q[4]
  <2>1. ASSUME NEW i \in 1 .. 4
        PROVE  (p \o q)[i] = p[i] /\ (p \o q)[i + 4] = q[i]
    <3>1. i \in 1 .. 8 /\ i <= 4
      OBVIOUS
    <3>2. PICK n \in 1 .. 8 : n = i + 4 /\ ~(n <= 4) /\ n - 4 = i
      OBVIOUS
    <3>3. (p \o q)[i] = p[i]
      BY <1>3, <3>1, Zenon
    <3>4. (p \o q)[n] = q[n - 4]
      BY <1>3, <3>2, Zenon
    <3> QED
      BY <3>2, <3>3, <3>4, Zenon
  <2>2. 1 + 4 = 5 /\ 2 + 4 = 6 /\ 3 + 4 = 7 /\ 4 + 4 = 8
    OBVIOUS
  <2>3. 1 \in 1 .. 4 /\ 2 \in 1 .. 4 /\ 3 \in 1 .. 4 /\ 4 \in 1 .. 4
    OBVIOUS
  <2>4. (p \o q)[1 + 4] = q[1] /\ (p \o q)[2 + 4] = q[2]
        /\ (p \o q)[3 + 4] = q[3] /\ (p \o q)[4 + 4] = q[4]
    BY <2>1, <2>3, Zenon
  <2> QED
    BY <2>1, <2>2, <2>3, <2>4
<1> QED
  BY <1>2, <1>4 DEF p, q

\* Interleaving moves an element by rotating the bits of its lane and of the
\* vector it is in.
LEMMA Woven ==
  ASSUME VecKind, type = "v8f", NEW a \in [0 .. 7 -> Int], NEW b \in [0 .. 7 -> Int]
  PROVE  \E x \in [0 .. 7 -> Int], y \in [0 .. 7 -> Int] :
           /\ V!Interleave(a, b) = <<x, y>>
           /\ \A i, j, k \in 0 .. 1 :
                /\ x[4 * i + 2 * j + k] = (IF k = 0 THEN a ELSE b)[2 * i + j]
                /\ y[4 * i + 2 * j + k] = (IF k = 0 THEN a ELSE b)[4 + 2 * i + j]
<1>1. PICK x, y : /\ V!Interleave(a, b) = <<x, y>>
                  /\ Eight(x, a[0], b[0], a[1], b[1], a[2], b[2], a[3], b[3])
                  /\ Eight(y, a[4], b[4], a[5], b[5], a[6], b[6], a[7], b[7])
  BY Interleave8
<1>2. ASSUME NEW i \in 0 .. 1, NEW j \in 0 .. 1, NEW k \in 0 .. 1
      PROVE  /\ x[4 * i + 2 * j + k] = (IF k = 0 THEN a ELSE b)[2 * i + j]
             /\ y[4 * i + 2 * j + k] = (IF k = 0 THEN a ELSE b)[4 + 2 * i + j]
  <2>1. (i = 0 \/ i = 1) /\ (j = 0 \/ j = 1) /\ (k = 0 \/ k = 1)
    OBVIOUS
  <2> QED
    BY <1>1, <2>1 DEF Eight
<1> QED
  BY <1>1, <1>2 DEF Eight

\* One pass of the transposition of eight vectors.
Pass(v) ==
  V!Interleave2(v[1], v[5], v[2], v[6]) \o V!Interleave2(v[3], v[7], v[4], v[8])

Row(h, i, j) == 4 * h + 2 * i + j + 1
Lane(h, i, j) == 4 * h + 2 * i + j

Eights(v) == \A j \in 1 .. 8 : v[j] \in [0 .. 7 -> Int]

Rotated(p, v) ==
  \A r, s, t, i, j, k \in 0 .. 1 :
    p[Row(r, s, t)][Lane(i, j, k)] = v[Row(k, r, s)][Lane(t, i, j)]

LEMMA PassLanes ==
  ASSUME VecKind, type = "v8f", NEW v, Eights(v)
  PROVE  Eights(Pass(v)) /\ Rotated(Pass(v), v)
<1> DEFINE Wove(x, y, a, b) ==
             \A i, j, k \in 0 .. 1 :
               /\ x[4 * i + 2 * j + k] = (IF k = 0 THEN a ELSE b)[2 * i + j]
               /\ y[4 * i + 2 * j + k] = (IF k = 0 THEN a ELSE b)[4 + 2 * i + j]
<1>1. /\ v[1] \in [0 .. 7 -> Int] /\ v[2] \in [0 .. 7 -> Int] /\ v[3] \in [0 .. 7 -> Int]
      /\ v[4] \in [0 .. 7 -> Int] /\ v[5] \in [0 .. 7 -> Int] /\ v[6] \in [0 .. 7 -> Int]
      /\ v[7] \in [0 .. 7 -> Int] /\ v[8] \in [0 .. 7 -> Int]
  BY DEF Eights
<1>2. PICK a \in [0 .. 7 -> Int], b \in [0 .. 7 -> Int] :
        V!Interleave(v[1], v[5]) = <<a, b>> /\ Wove(a, b, v[1], v[5])
  BY <1>1, Woven
<1>3. PICK c \in [0 .. 7 -> Int], d \in [0 .. 7 -> Int] :
        V!Interleave(v[2], v[6]) = <<c, d>> /\ Wove(c, d, v[2], v[6])
  BY <1>1, Woven
<1>4. PICK e \in [0 .. 7 -> Int], f \in [0 .. 7 -> Int] :
        V!Interleave(v[3], v[7]) = <<e, f>> /\ Wove(e, f, v[3], v[7])
  BY <1>1, Woven
<1>5. PICK g \in [0 .. 7 -> Int], h \in [0 .. 7 -> Int] :
        V!Interleave(v[4], v[8]) = <<g, h>> /\ Wove(g, h, v[4], v[8])
  BY <1>1, Woven
<1>6. Pass(v) = <<a, b, c, d>> \o <<e, f, g, h>>
  <2>1. V!Interleave2(v[1], v[5], v[2], v[6]) = <<a, b, c, d>>
    BY <1>2, <1>3, PairsJoined DEF V!Interleave2
  <2>2. V!Interleave2(v[3], v[7], v[4], v[8]) = <<e, f, g, h>>
    BY <1>4, <1>5, PairsJoined DEF V!Interleave2
  <2> QED
    BY <2>1, <2>2 DEF Pass
<1> DEFINE p == Pass(v)
<1>7. /\ p[1] = a /\ p[2] = b /\ p[3] = c /\ p[4] = d
      /\ p[5] = e /\ p[6] = f /\ p[7] = g /\ p[8] = h
  BY <1>6, FoursJoined
<1> HIDE DEF p, Wove
<1>8. ASSUME NEW j \in 1 .. 8
      PROVE  p[j] \in [0 .. 7 -> Int]
  <2>1. j = 1 \/ j = 2 \/ j = 3 \/ j = 4 \/ j = 5 \/ j = 6 \/ j = 7 \/ j = 8
    OBVIOUS
  <2> QED
    BY <1>7, <2>1
<1>9. ASSUME NEW x, NEW y, NEW n \in 1 .. 4, Wove(x, y, v[n], v[n + 4]),
             NEW i \in 0 .. 1, NEW j \in 0 .. 1, NEW k \in 0 .. 1
      PROVE  /\ x[Lane(i, j, k)] = v[4 * k + n][Lane(0, i, j)]
             /\ y[Lane(i, j, k)] = v[4 * k + n][Lane(1, i, j)]
  <2>1. /\ x[4 * i + 2 * j + k] = (IF k = 0 THEN v[n] ELSE v[n + 4])[2 * i + j]
        /\ y[4 * i + 2 * j + k] = (IF k = 0 THEN v[n] ELSE v[n + 4])[4 + 2 * i + j]
    BY <1>9 DEF Wove
  <2>2. (IF k = 0 THEN v[n] ELSE v[n + 4]) = v[4 * k + n]
    <3>1. k = 0 \/ k = 1
      OBVIOUS
    <3>2. n + 4 = 4 * 1 + n /\ n = 4 * 0 + n
      OBVIOUS
    <3> QED
      BY <3>1, <3>2
  <2>3. 4 * 0 + 2 * i + j = 2 * i + j /\ 4 * 1 + 2 * i + j = 4 + 2 * i + j
    OBVIOUS
  <2> QED
    BY <2>1, <2>2, <2>3 DEF Lane
<1>10. ASSUME NEW r \in 0 .. 1, NEW s \in 0 .. 1, NEW t \in 0 .. 1,
              NEW i \in 0 .. 1, NEW j \in 0 .. 1, NEW k \in 0 .. 1
       PROVE  p[Row(r, s, t)][Lane(i, j, k)] = v[Row(k, r, s)][Lane(t, i, j)]
  <2>1. Row(k, r, s) = 4 * k + (2 * r + s + 1) /\ Row(r, s, t) = 2 * (2 * r + s) + t + 1
    BY DEF Row
  <2>2. CASE r = 0 /\ s = 0
    <3>1. /\ p[1][Lane(i, j, k)] = v[4 * k + 1][Lane(0, i, j)]
          /\ p[2][Lane(i, j, k)] = v[4 * k + 1][Lane(1, i, j)]
      BY <1>2, <1>7, <1>9
    <3>2. Row(k, r, s) = 4 * k + 1 /\ ((t = 0 /\ Row(r, s, t) = 1) \/ (t = 1 /\ Row(r, s, t) = 2))
      BY <2>2 DEF Row
    <3> QED
      BY <3>1, <3>2
  <2>3. CASE r = 0 /\ s = 1
    <3>1. /\ p[3][Lane(i, j, k)] = v[4 * k + 2][Lane(0, i, j)]
          /\ p[4][Lane(i, j, k)] = v[4 * k + 2][Lane(1, i, j)]
      BY <1>3, <1>7, <1>9
    <3>2. Row(k, r, s) = 4 * k + 2 /\ ((t = 0 /\ Row(r, s, t) = 3) \/ (t = 1 /\ Row(r, s, t) = 4))
      BY <2>3 DEF Row
    <3> QED
      BY <3>1, <3>2
  <2>4. CASE r = 1 /\ s = 0
    <3>1. /\ p[5][Lane(i, j, k)] = v[4 * k + 3][Lane(0, i, j)]
          /\ p[6][Lane(i, j, k)] = v[4 * k + 3][Lane(1, i, j)]
      BY <1>4, <1>7, <1>9
    <3>2. Row(k, r, s) = 4 * k + 3 /\ ((t = 0 /\ Row(r, s, t) = 5) \/ (t = 1 /\ Row(r, s, t) = 6))
      BY <2>4 DEF Row
    <3> QED
      BY <3>1, <3>2
  <2>5. CASE r = 1 /\ s = 1
    <3>1. /\ p[7][Lane(i, j, k)] = v[4 * k + 4][Lane(0, i, j)]
          /\ p[8][Lane(i, j, k)] = v[4 * k + 4][Lane(1, i, j)]
      BY <1>5, <1>7, <1>9
    <3>2. Row(k, r, s) = 4 * k + 4 /\ ((t = 0 /\ Row(r, s, t) = 7) \/ (t = 1 /\ Row(r, s, t) = 8))
      BY <2>5 DEF Row
    <3> QED
      BY <3>1, <3>2
  <2> QED
    BY <2>2, <2>3, <2>4, <2>5
<1> QED
  BY <1>8, <1>10 DEF p, Eights, Rotated

\* Three rotations by one of the six bits exchange row and lane.
LEMMA Transpose8Right ==
  ASSUME VecKind, type = "v8f", NEW r, \A k \in 1 .. 8 : r[k] \in Vec
  PROVE  Turned(V!Transpose8(r), r)
<1>1. V!W = 8 /\ V!Lanes = 0 .. 7
  BY Sizes
<1> DEFINE p == Pass(r)
           q == Pass(p)
           v == Pass(q)
<1>2. V!Transpose8(r) = v
  BY DEF V!Transpose8, Pass
<1>3. Eights(r)
  BY <1>1 DEF Vec, Eights
<1>4. Eights(p) /\ Rotated(p, r)
  BY <1>3, PassLanes
<1> HIDE DEF p
<1>5. Eights(q) /\ Rotated(q, p)
  BY <1>4, PassLanes DEF q
<1> HIDE DEF q
<1>6. Eights(v) /\ Rotated(v, q)
  BY <1>5, PassLanes DEF v
<1> HIDE DEF v
<1>7. ASSUME NEW x \in 0 .. 1, NEW s \in 0 .. 1, NEW t \in 0 .. 1,
             NEW i \in 0 .. 1, NEW j \in 0 .. 1, NEW k \in 0 .. 1
      PROVE  v[Row(x, s, t)][Lane(i, j, k)] = r[Row(i, j, k)][Lane(x, s, t)]
  <2>1. v[Row(x, s, t)][Lane(i, j, k)] = q[Row(k, x, s)][Lane(t, i, j)]
    BY <1>6 DEF Rotated
  <2>2. q[Row(k, x, s)][Lane(t, i, j)] = p[Row(j, k, x)][Lane(s, t, i)]
    BY <1>5 DEF Rotated
  <2>3. p[Row(j, k, x)][Lane(s, t, i)] = r[Row(i, j, k)][Lane(x, s, t)]
    BY <1>4 DEF Rotated
  <2> QED
    BY <2>1, <2>2, <2>3
<1>8. \A l \in 0 .. 7 : \E i, j, k \in 0 .. 1 : l = Lane(i, j, k) /\ l + 1 = Row(i, j, k)
  <2> SUFFICES ASSUME NEW l \in 0 .. 7
               PROVE  \E i, j, k \in 0 .. 1 : l = Lane(i, j, k) /\ l + 1 = Row(i, j, k)
    OBVIOUS
  <2> DEFINE i == l \div 4
             j == (l % 4) \div 2
             k == l % 2
  <2>1. i \in 0 .. 1 /\ j \in 0 .. 1 /\ k \in 0 .. 1 /\ l = 4 * i + 2 * j + k
    OBVIOUS
  <2> QED
    BY <2>1 DEF Lane, Row
<1>9. ASSUME NEW j \in 1 .. 8, NEW k \in 0 .. 7
      PROVE  v[j][k] = r[k + 1][j - 1]
  <2>1. j - 1 \in 0 .. 7 /\ (j - 1) + 1 = j
    OBVIOUS
  <2>2. PICK x \in 0 .. 1, s \in 0 .. 1, t \in 0 .. 1 : j - 1 = Lane(x, s, t) /\ j = Row(x, s, t)
    BY <1>8, <2>1
  <2>3. PICK i \in 0 .. 1, l \in 0 .. 1, m \in 0 .. 1 : k = Lane(i, l, m) /\ k + 1 = Row(i, l, m)
    BY <1>8
  <2> QED
    BY <1>7, <2>2, <2>3
<1> QED
  BY <1>1, <1>2, <1>6, <1>9 DEF Turned, Vec, Eights

LEMMA TransposeHalves8Right ==
  ASSUME VecKind, type = "v8f", NEW r, \A k \in 1 .. 8 : r[k] \in Vec
  PROVE  Turned(V!TransposeHalves8(r), r)
<1>1. V!W = 8 /\ V!Lanes = 0 .. 7
  BY Sizes
<1>2. \A k \in 1 .. 8 : r[k] \in [0 .. 7 -> Int]
  BY <1>1 DEF Vec
<1> DEFINE t(k) == V!Both("lo", "hi", r[2 * k - 1], r[2 * k])
           z(k) == V!Both("lo2", "hi2", t(k)[1], t(k + 1)[1]) \o
                   V!Both("lo2", "hi2", t(k)[2], t(k + 1)[2])
           Join(k) == V!Both("low", "high", z(1)[k], z(3)[k])
           v == V!TransposeHalves8(r)
<1>3. v = [k \in 1 .. 8 |-> IF k <= 4 THEN Join(k)[1] ELSE Join(k - 4)[2]]
  BY DEF V!TransposeHalves8
<1> HIDE DEF v
\* The two vectors that pairs of rows, the second and the third step give.
<1>4. ASSUME NEW n \in 1 .. 4
      PROVE  LET a == r[2 * n - 1]
                 b == r[2 * n]
             IN  /\ Eight(t(n)[1], a[0], b[0], a[1], b[1], a[4], b[4], a[5], b[5])
                 /\ Eight(t(n)[2], a[2], b[2], a[3], b[3], a[6], b[6], a[7], b[7])
  <2>1. 2 * n - 1 \in 1 .. 8 /\ 2 * n \in 1 .. 8
    OBVIOUS
  <2>2. r[2 * n - 1] \in [0 .. 7 -> Int] /\ r[2 * n] \in [0 .. 7 -> Int]
    BY <1>2, <2>1
  <2>3. /\ t(n)[1] = V!Instr("lo", r[2 * n - 1], r[2 * n])
        /\ t(n)[2] = V!Instr("hi", r[2 * n - 1], r[2 * n])
    BY DEF V!Both
  <2> HIDE DEF t
  <2> QED
    BY <2>2, <2>3, Instr8f
<1> DEFINE Quads(n, a, b, c, d) ==
             \A l \in 1 .. 4 :
               Eight(z(n)[l], a[l - 1], b[l - 1], c[l - 1], d[l - 1],
                     a[l + 3], b[l + 3], c[l + 3], d[l + 3])
<1>5. ASSUME NEW n \in {1, 3}
      PROVE  Quads(n, r[2 * n - 1], r[2 * n], r[2 * n + 1], r[2 * n + 2])
  <2> DEFINE a == r[2 * n - 1]
             b == r[2 * n]
             c == r[2 * n + 1]
             d == r[2 * n + 2]
             w == t(n)[1]
             x == t(n)[2]
             y == t(n + 1)[1]
             u == t(n + 1)[2]
  <2>1. n \in 1 .. 4 /\ n + 1 \in 1 .. 4 /\ 2 * (n + 1) - 1 = 2 * n + 1
        /\ 2 * (n + 1) = 2 * n + 2
    OBVIOUS
  <2>2. /\ Eight(w, a[0], b[0], a[1], b[1], a[4], b[4], a[5], b[5])
        /\ Eight(x, a[2], b[2], a[3], b[3], a[6], b[6], a[7], b[7])
    <3> HIDE DEF t
    <3> QED
      BY <1>4, <2>1
  <2>3. /\ Eight(y, c[0], d[0], c[1], d[1], c[4], d[4], c[5], d[5])
        /\ Eight(u, c[2], d[2], c[3], d[3], c[6], d[6], c[7], d[7])
    <3> HIDE DEF t
    <3> QED
      BY <1>4, <2>1
  <2>4. z(n) = <<V!Instr("lo2", w, y), V!Instr("hi2", w, y),
                 V!Instr("lo2", x, u), V!Instr("hi2", x, u)>>
    <3>1. z(n) = V!Both("lo2", "hi2", w, y) \o V!Both("lo2", "hi2", x, u)
      OBVIOUS
    <3> HIDE DEF z, w, x, y, u
    <3> QED
      BY <3>1, PairsJoined DEF V!Both
  <2> HIDE DEF z, t, w, x, y, u, a, b, c, d
  <2>5. /\ w \in [0 .. 7 -> Int] /\ x \in [0 .. 7 -> Int]
        /\ y \in [0 .. 7 -> Int] /\ u \in [0 .. 7 -> Int]
    BY <2>2, <2>3 DEF Eight
  <2>6. /\ Eight(z(n)[1], w[0], w[1], y[0], y[1], w[4], w[5], y[4], y[5])
        /\ Eight(z(n)[2], w[2], w[3], y[2], y[3], w[6], w[7], y[6], y[7])
        /\ Eight(z(n)[3], x[0], x[1], u[0], u[1], x[4], x[5], u[4], u[5])
        /\ Eight(z(n)[4], x[2], x[3], u[2], u[3], x[6], x[7], u[6], u[7])
    BY <2>4, <2>5, Instr8f
  <2>7. /\ Eight(z(n)[1], a[0], b[0], c[0], d[0], a[4], b[4], c[4], d[4])
        /\ Eight(z(n)[2], a[1], b[1], c[1], d[1], a[5], b[5], c[5], d[5])
    BY <2>2, <2>3, <2>6 DEF Eight
  <2>8. /\ Eight(z(n)[3], a[2], b[2], c[2], d[2], a[6], b[6], c[6], d[6])
        /\ Eight(z(n)[4], a[3], b[3], c[3], d[3], a[7], b[7], c[7], d[7])
    BY <2>2, <2>3, <2>6 DEF Eight
  <2>9. ASSUME NEW l \in 1 .. 4
        PROVE  Eight(z(n)[l], a[l - 1], b[l - 1], c[l - 1], d[l - 1],
                     a[l + 3], b[l + 3], c[l + 3], d[l + 3])
    <3>1. l = 1 \/ l = 2 \/ l = 3 \/ l = 4
      OBVIOUS
    <3> QED
      BY <2>7, <2>8, <3>1
  <2> QED
    BY <2>9 DEF a, b, c, d
<1>6. ASSUME NEW l \in 1 .. 4
      PROVE  /\ Eight(Join(l)[1], r[1][l - 1], r[2][l - 1], r[3][l - 1], r[4][l - 1],
                      r[5][l - 1], r[6][l - 1], r[7][l - 1], r[8][l - 1])
             /\ Eight(Join(l)[2], r[1][l + 3], r[2][l + 3], r[3][l + 3], r[4][l + 3],
                      r[5][l + 3], r[6][l + 3], r[7][l + 3], r[8][l + 3])
  <2> DEFINE p == z(1)[l]
             q == z(3)[l]
  <2>1. Join(l)[1] = V!Instr("low", p, q) /\ Join(l)[2] = V!Instr("high", p, q)
    BY DEF V!Both
  <2> HIDE DEF z, Join
  <2>2. /\ 2 * 1 - 1 = 1 /\ 2 * 1 = 2 /\ 2 * 1 + 1 = 3 /\ 2 * 1 + 2 = 4
        /\ 2 * 3 - 1 = 5 /\ 2 * 3 = 6 /\ 2 * 3 + 1 = 7 /\ 2 * 3 + 2 = 8
    OBVIOUS
  <2>3. Quads(1, r[1], r[2], r[3], r[4]) /\ Quads(3, r[5], r[6], r[7], r[8])
    <3> HIDE DEF Quads
    <3>1. /\ Quads(1, r[2 * 1 - 1], r[2 * 1], r[2 * 1 + 1], r[2 * 1 + 2])
          /\ Quads(3, r[2 * 3 - 1], r[2 * 3], r[2 * 3 + 1], r[2 * 3 + 2])
      BY <1>5
    <3> QED
      BY <2>2, <3>1
  <2>4. /\ Eight(p, r[1][l - 1], r[2][l - 1], r[3][l - 1], r[4][l - 1],
                 r[1][l + 3], r[2][l + 3], r[3][l + 3], r[4][l + 3])
        /\ Eight(q, r[5][l - 1], r[6][l - 1], r[7][l - 1], r[8][l - 1],
                 r[5][l + 3], r[6][l + 3], r[7][l + 3], r[8][l + 3])
    BY <2>3
  <2> HIDE DEF p, q
  <2>5. p \in [0 .. 7 -> Int] /\ q \in [0 .. 7 -> Int]
    BY <2>4 DEF Eight
  <2>6. /\ Eight(Join(l)[1], p[0], p[1], p[2], p[3], q[0], q[1], q[2], q[3])
        /\ Eight(Join(l)[2], p[4], p[5], p[6], p[7], q[4], q[5], q[6], q[7])
    BY <2>1, <2>5, Instr8f
  <2> QED
    BY <2>4, <2>6 DEF Eight
<1> HIDE DEF Join, z, t
<1>7. ASSUME NEW j \in 1 .. 8
      PROVE  Eight(v[j], r[1][j - 1], r[2][j - 1], r[3][j - 1], r[4][j - 1],
                   r[5][j - 1], r[6][j - 1], r[7][j - 1], r[8][j - 1])
  <2>1. CASE j <= 4
    <3>1. j \in 1 .. 4 /\ v[j] = Join(j)[1]
      BY <1>3, <2>1
    <3> QED
      BY <1>6, <3>1
  <2>2. CASE ~(j <= 4)
    <3>1. PICK l \in 1 .. 4 : l = j - 4 /\ l + 3 = j - 1
      BY <2>2
    <3>2. v[j] = Join(l)[2]
      BY <1>3, <2>2, <3>1
    <3>3. Eight(Join(l)[2], r[1][l + 3], r[2][l + 3], r[3][l + 3], r[4][l + 3],
                r[5][l + 3], r[6][l + 3], r[7][l + 3], r[8][l + 3])
      BY <1>6
    <3> QED
      BY <3>1, <3>2, <3>3
  <2> QED
    BY <2>1, <2>2
<1>8. ASSUME NEW j \in 1 .. 8, NEW k \in 0 .. 7
      PROVE  v[j] \in [0 .. 7 -> Int] /\ v[j][k] = r[k + 1][j - 1]
  <2>1. k = 0 \/ k = 1 \/ k = 2 \/ k = 3 \/ k = 4 \/ k = 5 \/ k = 6 \/ k = 7
    OBVIOUS
  <2> QED
    BY <1>7, <2>1 DEF Eight
<1>9. Turned(v, r)
  BY <1>1, <1>8 DEF Turned, Vec
<1> QED
  BY <1>9 DEF v

LEMMA TransposedRight ==
  ASSUME VecKind, NEW r, \A k \in 1 .. V!W : r[k] \in Vec, NEW res \in V!Transposed(r)
  PROVE  Turned(res, r)
<1>1. CASE type = "v2d"
  <2>1. V!W = 2 /\ V!Lanes = 0 .. 1
    BY <1>1, Sizes
  <2>2. r[1] \in [0 .. 1 -> Int] /\ r[2] \in [0 .. 1 -> Int]
    BY <2>1 DEF Vec
  <2>3. PICK x, y : /\ V!Interleave(r[1], r[2]) = <<x, y>>
                    /\ Two(x, r[1][0], r[2][0]) /\ Two(y, r[1][1], r[2][1])
    BY <1>1, <2>2, Interleave2d
  <2>4. res = V!Interleave(r[1], r[2]) \o <<r[3], r[4]>>
    BY <1>1 DEF V!Transposed
  <2>5. res = <<x, y, r[3], r[4]>>
    BY <2>3, <2>4, PairsJoined
  <2>6. res[1] = x /\ res[2] = y
    BY <2>5
  <2>7. ASSUME NEW j \in 1 .. 2, NEW k \in 0 .. 1
        PROVE  res[j] \in [0 .. 1 -> Int] /\ res[j][k] = r[k + 1][j - 1]
    <3>1. (j = 1 \/ j = 2) /\ (k = 0 \/ k = 1)
      OBVIOUS
    <3> QED
      BY <2>3, <2>6, <3>1 DEF Two
  <2> QED
    BY <2>1, <2>7 DEF Turned, Vec
<1>2. CASE type = "v4f"
  <2>1. V!W = 4 /\ res = V!Transpose4(r)
    BY <1>2, Sizes DEF V!Transposed
  <2> QED
    BY <2>1, Transpose4Right
<1>3. CASE type = "v4d"
  <2>1. V!W = 4 /\ (res = V!Transpose4(r) \/ res = V!TransposeHalves4(r))
    BY <1>3, Sizes DEF V!Transposed
  <2> QED
    BY <1>3, <2>1, Transpose4Right, TransposeHalves4Right
<1>4. CASE type = "v8f"
  <2>1. V!W = 8 /\ (res = V!Transpose8(r) \/ res = V!TransposeHalves8(r))
    BY <1>4, Sizes DEF V!Transposed
  <2> QED
    BY <1>4, <2>1, Transpose8Right, TransposeHalves8Right
<1> QED
  BY <1>1, <1>2, <1>3, <1>4 DEF VecKind

-----------------------------------------------------------------------------
(* A client of the vectors.                                                *)

VecInv ==
  /\ VecKind /\ steps \in Nat
  /\ regs \in [V!Registers -> Vec] /\ mem \in [0 .. 4 * V!W - 1 -> Int]

\* What a step of the client promises.
Laned ==
  /\ V!Does("interleave") => V!Cat(V!Out(1), V!Out(2)) = V!Zip(V!In(1), V!In(2))
  /\ V!Does("deinterleave") => V!Zip(V!Out(1), V!Out(2)) = V!Cat(V!In(1), V!In(2))
  /\ V!Does("rotl") => \A k \in V!Lanes : V!Out(1)[k] = V!Cat(V!In(1), V!In(2))[k + 1]
  /\ V!Does("reverse") => \A k \in V!Lanes : V!Out(1)[k] = V!In(1)[V!W - 1 - k]
  /\ V!Does("transpose") =>
       \A r \in 1 .. V!W, k \in V!Lanes : regs'[r][k] = regs[k + 1][r - 1]
  /\ V!Does("ld2dint") \/ V!Does("ld2x2dint") => V!Zip(V!Out(1), V!Out(2)) = V!Array(0)
  /\ V!Does("ld2x2dint") => V!Zip(V!Out(3), V!Out(4)) = V!Array(2)
  /\ V!Does("st2int") \/ V!Does("st2x2int") =>
       \A k \in 0 .. 2 * V!W - 1 : mem'[k] = V!Zip(V!In(1), V!In(2))[k]
  /\ V!Does("st2x2int") =>
       \A k \in 0 .. 2 * V!W - 1 : mem'[2 * V!W + k] = V!Zip(V!In(3), V!In(4))[k]
  /\ V!Does("hmax") => /\ V!Out(1)[0] \in V!Range(V!In(1))
                       /\ \A k \in V!Lanes : V!In(1)[k] <= V!Out(1)[0]
  /\ V!Does("hmin") => /\ V!Out(1)[0] \in V!Range(V!In(1))
                       /\ \A k \in V!Lanes : V!Out(1)[0] <= V!In(1)[k]

LEMMA LaneCounts ==
  ASSUME VecKind
  PROVE  /\ V!W \in {2, 4, 8} /\ V!Lanes = 0 .. V!W - 1
         /\ \A k \in 1 .. 4 : k \in V!Registers
         /\ \A k \in 1 .. V!W : k \in V!Registers
<1>1. V!W = 2 \/ V!W = 4 \/ V!W = 8
  BY Sizes DEF VecKind
<1>2. V!Registers = 1 .. IF V!W = 8 THEN 8 ELSE 4
  BY DEF V!Registers
<1>3. V!Lanes = 0 .. V!W - 1
  BY DEF V!Lanes
<1> QED
  BY <1>1, <1>2, <1>3

\* The type does not change, and with it what depends on it.
LEMMA SameType ==
  (VecKind /\ type' = type /\ implementation' = implementation) =>
    VecKind' /\ V!W' = V!W /\ V!Lanes' = V!Lanes /\ V!Registers' = V!Registers /\ Vec' = Vec
<1> SUFFICES ASSUME VecKind, type' = type, implementation' = implementation
             PROVE  /\ VecKind' /\ V!W' = V!W /\ V!Lanes' = V!Lanes
                    /\ V!Registers' = V!Registers /\ Vec' = Vec
  OBVIOUS
<1>1. VecKind'
  BY DEF VecKind
<1>2. V!W' = V!W
  BY DEF V!W
<1>3. V!Lanes' = V!Lanes /\ V!Registers' = V!Registers
  BY <1>2 DEF V!Lanes, V!Registers
<1> QED
  BY <1>1, <1>2, <1>3 DEF Vec

\* An operation gives its results to the registers it names.
LEMMA Applied ==
  ASSUME VecInv, NEW op, NEW out, NEW in, NEW res, V!Apply(op, out, in, res),
         \A k \in DOMAIN out : out[k] \in V!Registers /\ res[k] \in Vec,
         \A j, k \in DOMAIN out : out[j] = out[k] => j = k
  PROVE  /\ VecInv'
         /\ last'.op = op /\ last'.out = out /\ last'.in = in
         /\ \A k \in DOMAIN out : regs'[out[k]] = res[k]
<1>1. /\ type' = type /\ implementation' = implementation /\ mem' = mem /\ steps' = steps + 1
      /\ last' = [op |-> op, out |-> out, in |-> in]
      /\ regs' = [r \in V!Registers |->
                    IF \E k \in DOMAIN out : out[k] = r
                      THEN res[CHOOSE k \in DOMAIN out : out[k] = r] ELSE regs[r]]
  BY DEF V!Apply
<1>2. ASSUME NEW k \in DOMAIN out
      PROVE  regs'[out[k]] = res[k]
  <2>1. out[k] \in V!Registers /\ \E j \in DOMAIN out : out[j] = out[k]
    OBVIOUS
  <2> DEFINE l == CHOOSE j \in DOMAIN out : out[j] = out[k]
  <2>2. l \in DOMAIN out /\ out[l] = out[k]
    BY <2>1, Zenon
  <2>3. l = k
    BY <2>2
  <2>4. regs'[out[k]] = res[l]
    BY <1>1, <2>1
  <2> QED
    BY <2>3, <2>4
<1>3. ASSUME NEW r \in V!Registers
      PROVE  regs'[r] \in Vec
  <2>1. CASE \E k \in DOMAIN out : out[k] = r
    BY <1>2, <2>1
  <2>2. CASE ~\E k \in DOMAIN out : out[k] = r
    <3>1. regs'[r] = regs[r]
      BY <1>1, <2>2
    <3> QED
      BY <3>1 DEF VecInv
  <2> QED
    BY <2>1, <2>2
<1>4. regs' \in [V!Registers -> Vec]
  <2>1. regs' = [r \in V!Registers |-> regs'[r]]
    BY <1>1
  <2> QED
    BY <1>3, <2>1
<1>5. VecInv'
  BY <1>1, <1>4, SameType DEF VecInv
<1> QED
  BY <1>1, <1>2, <1>5

LEMMA StepIsTaken ==
  ASSUME VecInv, NEW op, NEW out, NEW in, NEW res,
         V!Apply(op, out, in, res) \/ V!Store(op, in, res)
  PROVE  steps' # steps
BY DEF VecInv, V!Apply, V!Store

\* Vectors in registers, and two of the operations' outputs.
LEMMA RegsAreVecs ==
  ASSUME VecInv, NEW i \in 1 .. 4
  PROVE  i \in V!Registers /\ regs[i] \in Vec
BY LaneCounts DEF VecInv

LEMMA AppliedTwo ==
  ASSUME VecInv, NEW op, NEW x \in 1 .. 4, NEW y \in 1 .. 4, x # y, NEW in,
         NEW p \in Vec, NEW q \in Vec, V!Apply(op, <<x, y>>, in, <<p, q>>)
  PROVE  /\ VecInv' /\ last'.op = op /\ last'.in = in
         /\ V!Out(1) = p /\ V!Out(2) = q
<1> DEFINE out == <<x, y>>
           res == <<p, q>>
<1>1. DOMAIN out = {1, 2} /\ out[1] = x /\ out[2] = y /\ res[1] = p /\ res[2] = q
  OBVIOUS
<1>2. V!Apply(op, out, in, res)
  OBVIOUS
<1> HIDE DEF out, res
<1>3. /\ \A k \in DOMAIN out : out[k] \in V!Registers /\ res[k] \in Vec
      /\ \A j, k \in DOMAIN out : out[j] = out[k] => j = k
  BY <1>1, RegsAreVecs
<1>4. /\ VecInv' /\ last'.op = op /\ last'.out = out /\ last'.in = in
      /\ \A k \in DOMAIN out : regs'[out[k]] = res[k]
  BY <1>2, <1>3, Applied
<1>5. regs'[x] = p /\ regs'[y] = q
  BY <1>1, <1>4
<1> QED
  BY <1>1, <1>4, <1>5 DEF V!Out

LEMMA AppliedOne ==
  ASSUME VecInv, NEW op, NEW x \in 1 .. 4, NEW in, NEW p \in Vec,
         V!Apply(op, <<x>>, in, <<p>>)
  PROVE  /\ VecInv' /\ last'.op = op /\ last'.in = in /\ V!Out(1) = p
<1> DEFINE out == <<x>>
           res == <<p>>
<1>1. DOMAIN out = {1} /\ out[1] = x /\ res[1] = p
  OBVIOUS
<1>2. V!Apply(op, out, in, res)
  OBVIOUS
<1> HIDE DEF out, res
<1>3. /\ \A k \in DOMAIN out : out[k] \in V!Registers /\ res[k] \in Vec
      /\ \A j, k \in DOMAIN out : out[j] = out[k] => j = k
  BY <1>1, RegsAreVecs
<1>4. /\ VecInv' /\ last'.op = op /\ last'.out = out /\ last'.in = in
      /\ \A k \in DOMAIN out : regs'[out[k]] = res[k]
  BY <1>2, <1>3, Applied
<1>5. regs'[x] = p
  BY <1>1, <1>4
<1> QED
  BY <1>1, <1>4, <1>5 DEF V!Out

LEMMA VecInterleave ==
  ASSUME VecInv, NEW i \in 1 .. 4, NEW j \in 1 .. 4, NEW x \in 1 .. 4, NEW y \in 1 .. 4,
         x # y, V!InterleaveOp(i, j, x, y)
  PROVE  VecInv' /\ Laned
<1>1. PICK p \in Vec, q \in Vec :
        V!Interleave(regs[i], regs[j]) = <<p, q>> /\ V!Cat(p, q) = V!Zip(regs[i], regs[j])
  BY RegsAreVecs, InterleaveRight DEF VecInv
<1>2. V!Apply("interleave", <<x, y>>, <<i, j>>, <<p, q>>)
  BY <1>1 DEF V!InterleaveOp
<1>3. /\ VecInv' /\ last'.op = "interleave" /\ last'.in = <<i, j>>
      /\ V!Out(1) = p /\ V!Out(2) = q
  BY <1>2, AppliedTwo
<1>4. V!In(1) = regs[i] /\ V!In(2) = regs[j]
  BY <1>3 DEF V!In
<1> QED
  BY <1>1, <1>3, <1>4 DEF Laned, V!Does

LEMMA VecDeinterleave ==
  ASSUME VecInv, NEW i \in 1 .. 4, NEW j \in 1 .. 4, NEW x \in 1 .. 4, NEW y \in 1 .. 4,
         x # y, V!DeinterleaveOp(i, j, x, y)
  PROVE  VecInv' /\ Laned
<1>1. PICK p \in Vec, q \in Vec :
        V!Deinterleave(regs[i], regs[j]) = <<p, q>> /\ V!Zip(p, q) = V!Cat(regs[i], regs[j])
  BY RegsAreVecs, DeinterleaveRight DEF VecInv
<1>2. V!Apply("deinterleave", <<x, y>>, <<i, j>>, <<p, q>>)
  BY <1>1 DEF V!DeinterleaveOp
<1>3. /\ VecInv' /\ last'.op = "deinterleave" /\ last'.in = <<i, j>>
      /\ V!Out(1) = p /\ V!Out(2) = q
  BY <1>2, AppliedTwo
<1>4. V!In(1) = regs[i] /\ V!In(2) = regs[j]
  BY <1>3 DEF V!In
<1> QED
  BY <1>1, <1>3, <1>4 DEF Laned, V!Does

LEMMA VecRotl ==
  ASSUME VecInv, NEW i \in 1 .. 4, NEW j \in 1 .. 4, V!RotlOp(i, j, 1)
  PROVE  VecInv' /\ Laned
<1>1. PICK p \in Vec : /\ p = V!Rotl(regs[i], regs[j])
                      /\ \A k \in V!Lanes : p[k] = V!Cat(regs[i], regs[j])[k + 1]
  BY RegsAreVecs, RotlRight DEF VecInv
<1>2. V!Apply("rotl", <<1>>, <<i, j>>, <<p>>) /\ 1 \in 1 .. 4
  BY <1>1 DEF V!RotlOp
<1>3. VecInv' /\ last'.op = "rotl" /\ last'.in = <<i, j>> /\ V!Out(1) = p
  BY <1>1, <1>2, AppliedOne
<1>4. V!In(1) = regs[i] /\ V!In(2) = regs[j]
  BY <1>3 DEF V!In
<1> QED
  BY <1>1, <1>3, <1>4 DEF Laned, V!Does

LEMMA VecReverse ==
  ASSUME VecInv, NEW i \in 1 .. 4, V!ReverseOp(i, 2)
  PROVE  VecInv' /\ Laned
<1>1. PICK p \in Vec : /\ p = V!Reverse(regs[i])
                      /\ \A k \in V!Lanes : p[k] = regs[i][V!W - 1 - k]
  BY RegsAreVecs, ReverseRight DEF VecInv
<1>2. V!Apply("reverse", <<2>>, <<i>>, <<p>>) /\ 2 \in 1 .. 4
  BY <1>1 DEF V!ReverseOp
<1>3. VecInv' /\ last'.op = "reverse" /\ last'.in = <<i>> /\ V!Out(1) = p
  BY <1>1, <1>2, AppliedOne
<1>4. V!In(1) = regs[i]
  BY <1>3 DEF V!In
<1> QED
  BY <1>1, <1>3, <1>4 DEF Laned, V!Does

LEMMA VecLanewise ==
  ASSUME VecInv, NEW i \in 1 .. 4, NEW j \in 1 .. 4, NEW op \in {"min", "max"},
         V!LanewiseOp(op, i, j, 1)
  PROVE  VecInv' /\ Laned
<1>1. PICK p \in Vec : p = V!Lanewise(op, regs[i], regs[j])
  BY RegsAreVecs, LanewiseRight
<1>2. V!Apply(op, <<1>>, <<i, j>>, <<p>>) /\ 1 \in 1 .. 4
  BY <1>1 DEF V!LanewiseOp
<1>3. VecInv' /\ last'.op = op
  BY <1>1, <1>2, AppliedOne
<1> QED
  BY <1>3 DEF Laned, V!Does

\* hmax and hmin of a register, in every lane of the first.
LEMMA VecHorizontal ==
  ASSUME VecInv, NEW i \in V!Registers, V!HmaxOp(i) \/ V!HminOp(i)
  PROVE  VecInv' /\ Laned
<1>1. regs[i] \in Vec
  BY DEF VecInv
<1>2. 0 \in V!Lanes
  BY LaneCounts DEF VecInv
<1>3. ASSUME NEW op \in {"max", "min"}, NEW name,
             V!Apply(name, << 1 >>, <<i>>, <<[k \in V!Lanes |-> V!Horizontal(op, regs[i])]>>)
      PROVE  /\ VecInv' /\ last'.op = name /\ V!In(1) = regs[i]
             /\ V!Out(1)[0] \in V!Range(V!In(1))
             /\ \A k \in V!Lanes : Beats(op, V!Out(1)[0], V!In(1)[k])
  <2>1. PICK e \in Int : /\ e = V!Horizontal(op, regs[i])
                        /\ \E l \in V!Lanes : e = regs[i][l]
                        /\ \A k \in V!Lanes : Beats(op, e, regs[i][k])
    BY <1>1, HorizontalRight DEF VecInv
  <2>2. PICK p \in Vec : p = [k \in V!Lanes |-> e] /\ p[0] = e
    <3> DEFINE f == [k \in V!Lanes |-> e]
    <3>1. f \in Vec /\ f[0] = e
      BY <1>2 DEF Vec
    <3> HIDE DEF f
    <3>2. f = [k \in V!Lanes |-> e]
      BY DEF f
    <3> QED
      BY <3>1, <3>2, Zenon
  <2>3. V!Apply(name, <<1>>, <<i>>, <<p>>) /\ 1 \in 1 .. 4
    BY <1>3, <2>1, <2>2
  <2>4. VecInv' /\ last'.op = name /\ last'.in = <<i>> /\ V!Out(1) = p
    BY <2>3, AppliedOne
  <2>5. V!In(1) = regs[i]
    BY <2>4 DEF V!In
  <2>6. e \in V!Range(regs[i])
    BY <1>1, <2>1 DEF V!Range, Vec
  <2> QED
    BY <2>1, <2>2, <2>4, <2>5, <2>6
<1>4. CASE V!HmaxOp(i)
  <2>1. /\ VecInv' /\ last'.op = "hmax" /\ V!In(1) = regs[i]
        /\ V!Out(1)[0] \in V!Range(V!In(1))
        /\ \A k \in V!Lanes : Beats("max", V!Out(1)[0], V!In(1)[k])
    BY <1>3, <1>4 DEF V!HmaxOp
  <2>2. \A k \in V!Lanes : V!Out(1)[0] >= V!In(1)[k]
    BY <2>1 DEF Beats
  <2>3. V!Range(V!In(1)) \subseteq Int /\ \A k \in V!Lanes : V!In(1)[k] \in Int
    BY <1>1, <2>1 DEF V!Range, Vec
  <2>4. \A k \in V!Lanes : V!In(1)[k] <= V!Out(1)[0]
    BY <2>1, <2>2, <2>3
  <2> QED
    BY <2>1, <2>4 DEF Laned, V!Does
<1>5. CASE V!HminOp(i)
  <2>1. /\ VecInv' /\ last'.op = "hmin" /\ V!In(1) = regs[i]
        /\ V!Out(1)[0] \in V!Range(V!In(1))
        /\ \A k \in V!Lanes : Beats("min", V!Out(1)[0], V!In(1)[k])
    BY <1>3, <1>5 DEF V!HminOp
  <2>2. \A k \in V!Lanes : V!Out(1)[0] <= V!In(1)[k]
    BY <2>1 DEF Beats
  <2> QED
    BY <2>1, <2>2 DEF Laned, V!Does
<1> QED
  BY <1>4, <1>5

LEMMA VecTranspose ==
  ASSUME VecInv, V!TransposeOp
  PROVE  VecInv' /\ Laned
<1> DEFINE r == [k \in 1 .. 8 |-> regs[IF k \in V!Registers THEN k ELSE 1]]
           out == V!Rows
<1>1. PICK res \in V!Transposed(r) : V!Apply("transpose", V!Rows, V!Rows, res)
  BY DEF V!TransposeOp
<1>2. /\ V!W \in {2, 4, 8} /\ V!Lanes = 0 .. V!W - 1
      /\ \A k \in 1 .. V!W : k \in V!Registers /\ k \in 1 .. 8
  BY LaneCounts DEF VecInv
<1>3. \A k \in 1 .. V!W : r[k] = regs[k] /\ r[k] \in Vec
  BY <1>2 DEF VecInv
<1> HIDE DEF r
<1>4. Turned(res, r)
  BY <1>1, <1>3, TransposedRight DEF VecInv
<1>5. DOMAIN out = 1 .. V!W /\ \A k \in 1 .. V!W : out[k] = k
  BY DEF V!Rows
<1> HIDE DEF out
<1>6. V!Apply("transpose", out, out, res)
  BY <1>1 DEF out
<1>7. /\ \A k \in DOMAIN out : out[k] \in V!Registers /\ res[k] \in Vec
      /\ \A j, k \in DOMAIN out : out[j] = out[k] => j = k
  BY <1>2, <1>4, <1>5 DEF Turned
<1>8. /\ VecInv' /\ last'.op = "transpose"
      /\ \A k \in DOMAIN out : regs'[out[k]] = res[k]
  BY <1>6, <1>7, Applied
<1>9. ASSUME NEW j \in 1 .. V!W, NEW k \in V!Lanes
      PROVE  regs'[j][k] = regs[k + 1][j - 1]
  <2>1. regs'[j] = res[j]
    BY <1>5, <1>8
  <2>2. k + 1 \in 1 .. V!W
    BY <1>2
  <2>3. res[j][k] = r[k + 1][j - 1] /\ r[k + 1] = regs[k + 1]
    BY <1>3, <1>4, <2>2 DEF Turned
  <2> QED
    BY <2>1, <2>3
<1> QED
  BY <1>8, <1>9 DEF Laned, V!Does

\* What is stored from vectors lies one after the other.
LEMMA StoredRight ==
  ASSUME VecInv, NEW v, NEW n \in {2, 4}, Len(v) = n, \A j \in 1 .. n : v[j] \in Vec
  PROVE  /\ V!Stored(v) \in [0 .. 4 * V!W - 1 -> Int]
         /\ \A k \in 0 .. 2 * V!W - 1 : V!Stored(v)[k] = V!Cat(v[1], v[2])[k]
         /\ n = 4 => \A k \in 0 .. 2 * V!W - 1 :
                       V!Stored(v)[2 * V!W + k] = V!Cat(v[3], v[4])[k]
<1>1. PICK w \in {2, 4, 8} : w = V!W
  BY LaneCounts DEF VecInv
<1>2. V!Lanes = 0 .. w - 1 /\ mem \in [0 .. 4 * w - 1 -> Int]
  BY <1>1 DEF VecInv, V!Lanes
<1>3. V!Stored(v) = [k \in 0 .. 4 * w - 1 |->
                       IF k \div w < n THEN v[(k \div w) + 1][k % w] ELSE mem[k]]
  BY <1>1 DEF V!Stored
<1>4. ASSUME NEW j \in 0 .. 3, NEW l \in 0 .. w - 1
      PROVE  /\ w * j + l \in 0 .. 4 * w - 1
             /\ (w * j + l) \div w = j /\ (w * j + l) % w = l
  <2>1. (w = 2 \/ w = 4 \/ w = 8) /\ (j = 0 \/ j = 1 \/ j = 2 \/ j = 3)
    OBVIOUS
  <2> QED
    BY <2>1
<1>5. ASSUME NEW j \in 0 .. 3, NEW l \in 0 .. w - 1
      PROVE  V!Stored(v)[w * j + l] = IF j < n THEN v[j + 1][l] ELSE mem[w * j + l]
  BY <1>3, <1>4
<1>6. \A k \in 0 .. 4 * w - 1 : \E j \in 0 .. 3, l \in 0 .. w - 1 : k = w * j + l
  <2> SUFFICES ASSUME NEW k \in 0 .. 4 * w - 1
               PROVE  \E j \in 0 .. 3, l \in 0 .. w - 1 : k = w * j + l
    OBVIOUS
  <2>1. w = 2 \/ w = 4 \/ w = 8
    OBVIOUS
  <2>2. k \div w \in 0 .. 3 /\ k % w \in 0 .. w - 1 /\ k = w * (k \div w) + (k % w)
    BY <2>1
  <2> QED
    BY <2>2
<1>7. ASSUME NEW k \in 0 .. 4 * w - 1
      PROVE  V!Stored(v)[k] \in Int
  <2>1. PICK j \in 0 .. 3, l \in 0 .. w - 1 : k = w * j + l
    BY <1>6
  <2>2. CASE j < n
    <3>1. j + 1 \in 1 .. n
      BY <2>2
    <3>2. v[j + 1][l] \in Int
      BY <1>2, <3>1 DEF Vec
    <3> QED
      BY <1>5, <2>1, <2>2, <3>2
  <2>3. CASE ~(j < n)
    BY <1>2, <1>5, <2>1, <2>3
  <2> QED
    BY <2>2, <2>3
<1>8. V!Stored(v) \in [0 .. 4 * w - 1 -> Int]
  <2>1. V!Stored(v) = [k \in 0 .. 4 * w - 1 |-> V!Stored(v)[k]]
    BY <1>3
  <2> QED
    BY <1>7, <2>1
<1>9. ASSUME NEW k \in 0 .. 2 * w - 1
      PROVE  /\ V!Stored(v)[k] = V!Cat(v[1], v[2])[k]
             /\ n = 4 => V!Stored(v)[2 * w + k] = V!Cat(v[3], v[4])[k]
  <2>1. \A a, b : V!Cat(a, b)[k] = IF k < w THEN a[k] ELSE b[k - w]
    BY <1>1 DEF V!Cat
  <2>2. CASE k < w
    <3>1. k \in 0 .. w - 1 /\ k = w * 0 + k /\ 2 * w + k = w * 2 + k
      BY <2>2
    <3>2. V!Stored(v)[w * 0 + k] = v[0 + 1][k]
      BY <1>5, <3>1
    <3>3. n = 4 => V!Stored(v)[w * 2 + k] = v[2 + 1][k]
      BY <1>5, <3>1
    <3> QED
      BY <2>1, <2>2, <3>1, <3>2, <3>3
  <2>3. CASE ~(k < w)
    <3>1. PICK l \in 0 .. w - 1 : l = k - w /\ k = w * 1 + l /\ 2 * w + k = w * 3 + l
      BY <2>3
    <3>2. V!Stored(v)[w * 1 + l] = v[1 + 1][l]
      BY <1>5
    <3>3. n = 4 => V!Stored(v)[w * 3 + l] = v[3 + 1][l]
      BY <1>5
    <3> QED
      BY <2>1, <2>3, <3>1, <3>2, <3>3
  <2> QED
    BY <2>2, <2>3
<1> QED
  BY <1>1, <1>8, <1>9

LEMMA StoredStep ==
  ASSUME VecInv, NEW op, NEW in, NEW v, NEW n \in {2, 4}, Len(v) = n,
         \A j \in 1 .. n : v[j] \in Vec, V!Store(op, in, v)
  PROVE  /\ VecInv' /\ last'.op = op /\ last'.in = in
         /\ \A k \in 0 .. 2 * V!W - 1 : mem'[k] = V!Cat(v[1], v[2])[k]
         /\ n = 4 => \A k \in 0 .. 2 * V!W - 1 : mem'[2 * V!W + k] = V!Cat(v[3], v[4])[k]
<1>1. /\ type' = type /\ implementation' = implementation /\ regs' = regs
      /\ mem' = V!Stored(v) /\ steps' = steps + 1 /\ last'.op = op /\ last'.in = in
  BY DEF V!Store
<1>2. VecInv'
  <2>1. VecKind' /\ V!W' = V!W /\ V!Registers' = V!Registers /\ Vec' = Vec
    BY <1>1, SameType DEF VecInv
  <2>2. mem' \in [0 .. 4 * V!W - 1 -> Int]
    BY <1>1, StoredRight
  <2>3. steps' \in Nat /\ regs' \in [V!Registers -> Vec]
    BY <1>1 DEF VecInv
  <2> QED
    BY <2>1, <2>2, <2>3 DEF VecInv
<1> QED
  BY <1>1, <1>2, StoredRight

\* LD2DINT and LD2X2DINT.
LEMMA LoadsRight ==
  ASSUME VecInv
  PROVE  /\ V!Load(0) \in Vec /\ V!Load(1) \in Vec /\ V!Load(2) \in Vec /\ V!Load(3) \in Vec
         /\ V!Cat(V!Load(0), V!Load(1)) = V!Array(0)
         /\ V!Cat(V!Load(2), V!Load(3)) = V!Array(2)
<1>1. PICK w \in {2, 4, 8} : w = V!W
  BY LaneCounts DEF VecInv
<1>2. V!Lanes = 0 .. w - 1 /\ mem \in [0 .. 4 * w - 1 -> Int]
  BY <1>1 DEF VecInv, V!Lanes
<1>3. ASSUME NEW n \in 0 .. 3
      PROVE  V!Load(n) = [k \in 0 .. w - 1 |-> mem[n * w + k]] /\ V!Load(n) \in Vec
  <2>1. (w = 2 \/ w = 4 \/ w = 8) /\ (n = 0 \/ n = 1 \/ n = 2 \/ n = 3)
    OBVIOUS
  <2>2. \A k \in 0 .. w - 1 : n * w + k \in 0 .. 4 * w - 1
    BY <2>1
  <2>3. V!Load(n) = [k \in 0 .. w - 1 |-> mem[n * w + k]]
    BY <1>1, <1>2 DEF V!Load
  <2> QED
    BY <1>2, <2>2, <2>3 DEF Vec
<1>4. 0 \in 0 .. 3 /\ 1 \in 0 .. 3 /\ 2 \in 0 .. 3 /\ 3 \in 0 .. 3
  OBVIOUS
<1>5. V!Cat(V!Load(0), V!Load(1)) = V!Array(0)
  <2> DEFINE a == V!Load(0)
             b == V!Load(1)
  <2>1. /\ \A k \in 0 .. w - 1 : a[k] = mem[0 * w + k]
        /\ \A k \in 0 .. w - 1 : b[k] = mem[1 * w + k]
    <3>1. /\ a = [k \in 0 .. w - 1 |-> mem[0 * w + k]]
          /\ b = [k \in 0 .. w - 1 |-> mem[1 * w + k]]
      BY <1>3, <1>4, Zenon
    <3> HIDE DEF a, b
    <3> QED
      BY <3>1
  <2> HIDE DEF a, b
  <2>2. \A k \in 0 .. 2 * w - 1 : (IF k < w THEN a[k] ELSE b[k - w]) = mem[0 * w + k]
    BY <2>1
  <2> QED
    BY <1>1, <2>2 DEF V!Cat, V!Array, a, b
<1>6. V!Cat(V!Load(2), V!Load(3)) = V!Array(2)
  <2> DEFINE a == V!Load(2)
             b == V!Load(3)
  <2>1. /\ \A k \in 0 .. w - 1 : a[k] = mem[2 * w + k]
        /\ \A k \in 0 .. w - 1 : b[k] = mem[3 * w + k]
    <3>1. /\ a = [k \in 0 .. w - 1 |-> mem[2 * w + k]]
          /\ b = [k \in 0 .. w - 1 |-> mem[3 * w + k]]
      BY <1>3, <1>4, Zenon
    <3> HIDE DEF a, b
    <3> QED
      BY <3>1
  <2> HIDE DEF a, b
  <2>2. \A k \in 0 .. 2 * w - 1 : (IF k < w THEN a[k] ELSE b[k - w]) = mem[2 * w + k]
    BY <2>1
  <2> QED
    BY <1>1, <2>2 DEF V!Cat, V!Array, a, b
<1> QED
  BY <1>3, <1>4, <1>5, <1>6

LEMMA VecLoad2 ==
  ASSUME VecInv, V!LD2DINT
  PROVE  VecInv' /\ Laned
<1>1. PICK p \in Vec, q \in Vec :
        V!Deinterleave(V!Load(0), V!Load(1)) = <<p, q>> /\ V!Zip(p, q) = V!Array(0)
  BY LoadsRight, DeinterleaveRight DEF VecInv
<1>2. V!Apply("ld2dint", <<1, 2>>, <<>>, <<p, q>>) /\ 1 \in 1 .. 4 /\ 2 \in 1 .. 4 /\ 1 # 2
  BY <1>1 DEF V!LD2DINT
<1>3. VecInv' /\ last'.op = "ld2dint" /\ V!Out(1) = p /\ V!Out(2) = q
  BY <1>2, AppliedTwo
<1> QED
  BY <1>1, <1>3 DEF Laned, V!Does

LEMMA VecLoad4 ==
  ASSUME VecInv, V!LD2X2DINT
  PROVE  VecInv' /\ Laned
<1>1. PICK p \in Vec, q \in Vec :
        V!Deinterleave(V!Load(0), V!Load(1)) = <<p, q>> /\ V!Zip(p, q) = V!Array(0)
  BY LoadsRight, DeinterleaveRight DEF VecInv
<1>2. PICK s \in Vec, t \in Vec :
        V!Deinterleave(V!Load(2), V!Load(3)) = <<s, t>> /\ V!Zip(s, t) = V!Array(2)
  BY LoadsRight, DeinterleaveRight DEF VecInv
<1> DEFINE out == <<1, 2, 3, 4>>
           res == <<p, q, s, t>>
<1>3. V!Apply("ld2x2dint", out, <<>>, res)
  BY <1>1, <1>2, PairsJoined DEF V!LD2X2DINT, V!Deinterleave2
<1>4. /\ DOMAIN out = 1 .. 4 /\ \A k \in 1 .. 4 : out[k] = k
      /\ res[1] = p /\ res[2] = q /\ res[3] = s /\ res[4] = t
  OBVIOUS
<1> HIDE DEF out, res
<1>5. \A k \in 1 .. 4 : res[k] \in Vec
  <2> SUFFICES ASSUME NEW k \in 1 .. 4
               PROVE  res[k] \in Vec
    OBVIOUS
  <2>1. k = 1 \/ k = 2 \/ k = 3 \/ k = 4
    OBVIOUS
  <2> QED
    BY <1>4, <2>1
<1>6. /\ \A k \in DOMAIN out : out[k] \in V!Registers /\ res[k] \in Vec
      /\ \A j, k \in DOMAIN out : out[j] = out[k] => j = k
  BY <1>4, <1>5, RegsAreVecs
<1>7. /\ VecInv' /\ last'.op = "ld2x2dint" /\ last'.out = out
      /\ \A k \in DOMAIN out : regs'[out[k]] = res[k]
  BY <1>3, <1>6, Applied
<1>8. \A k \in 1 .. 4 : V!Out(k) = res[k]
  BY <1>4, <1>7 DEF V!Out
<1>9. V!Out(1) = p /\ V!Out(2) = q /\ V!Out(3) = s /\ V!Out(4) = t
  BY <1>4, <1>8
<1> QED
  BY <1>1, <1>2, <1>7, <1>9 DEF Laned, V!Does

LEMMA VecStore2 ==
  ASSUME VecInv, V!ST2INT
  PROVE  VecInv' /\ Laned
<1>1. PICK p \in Vec, q \in Vec :
        V!Interleave(regs[1], regs[2]) = <<p, q>> /\ V!Cat(p, q) = V!Zip(regs[1], regs[2])
  BY RegsAreVecs, InterleaveRight DEF VecInv
<1>2. V!Store("st2int", <<1, 2>>, <<p, q>>)
  BY <1>1 DEF V!ST2INT
<1> DEFINE v == <<p, q>>
<1>3. Len(v) = 2 /\ v[1] = p /\ v[2] = q /\ \A j \in 1 .. 2 : v[j] \in Vec
  OBVIOUS
<1> HIDE DEF v
<1>4. /\ VecInv' /\ last'.op = "st2int" /\ last'.in = <<1, 2>>
      /\ \A k \in 0 .. 2 * V!W - 1 : mem'[k] = V!Cat(v[1], v[2])[k]
  BY <1>2, <1>3, StoredStep DEF v
<1>5. V!In(1) = regs[1] /\ V!In(2) = regs[2]
  BY <1>4 DEF V!In
<1> QED
  BY <1>1, <1>3, <1>4, <1>5 DEF Laned, V!Does

LEMMA VecStore4 ==
  ASSUME VecInv, V!ST2X2INT
  PROVE  VecInv' /\ Laned
<1>1. PICK p \in Vec, q \in Vec :
        V!Interleave(regs[1], regs[2]) = <<p, q>> /\ V!Cat(p, q) = V!Zip(regs[1], regs[2])
  BY RegsAreVecs, InterleaveRight DEF VecInv
<1>2. PICK s \in Vec, t \in Vec :
        V!Interleave(regs[3], regs[4]) = <<s, t>> /\ V!Cat(s, t) = V!Zip(regs[3], regs[4])
  BY RegsAreVecs, InterleaveRight DEF VecInv
<1>3. V!Store("st2x2int", <<1, 2, 3, 4>>, <<p, q, s, t>>)
  BY <1>1, <1>2, PairsJoined DEF V!ST2X2INT, V!Interleave2
<1> DEFINE v == <<p, q, s, t>>
<1>4. Len(v) = 4 /\ v[1] = p /\ v[2] = q /\ v[3] = s /\ v[4] = t
  OBVIOUS
<1> HIDE DEF v
<1>5. \A j \in 1 .. 4 : v[j] \in Vec
  <2> SUFFICES ASSUME NEW j \in 1 .. 4
               PROVE  v[j] \in Vec
    OBVIOUS
  <2>1. j = 1 \/ j = 2 \/ j = 3 \/ j = 4
    OBVIOUS
  <2> QED
    BY <1>4, <2>1
<1>6. /\ VecInv' /\ last'.op = "st2x2int" /\ last'.in = <<1, 2, 3, 4>>
      /\ \A k \in 0 .. 2 * V!W - 1 : mem'[k] = V!Cat(v[1], v[2])[k]
      /\ \A k \in 0 .. 2 * V!W - 1 : mem'[2 * V!W + k] = V!Cat(v[3], v[4])[k]
  BY <1>3, <1>4, <1>5, StoredStep DEF v
<1>7. V!In(1) = regs[1] /\ V!In(2) = regs[2] /\ V!In(3) = regs[3] /\ V!In(4) = regs[4]
  BY <1>6 DEF V!In
<1> QED
  BY <1>1, <1>2, <1>4, <1>6, <1>7 DEF Laned, V!Does

LEMMA VecNext == VecInv /\ V!Next => VecInv' /\ Laned
<1> SUFFICES ASSUME VecInv, V!Next
             PROVE  VecInv' /\ Laned
  OBVIOUS
<1>1. CASE \E i, j, x, y \in 1 .. 4 :
             /\ {i, j} \cap {x, y} = {} /\ x # y
             /\ V!InterleaveOp(i, j, x, y) \/ V!DeinterleaveOp(i, j, x, y)
  BY <1>1, VecInterleave, VecDeinterleave
<1>2. CASE \E i, j \in 1 .. 3 :
             V!RotlOp(i, j, 1) \/ \E op \in {"min", "max"} : V!LanewiseOp(op, i, j, 1)
  <2>1. \A k \in 1 .. 3 : k \in 1 .. 4
    OBVIOUS
  <2> QED
    BY <1>2, <2>1, VecRotl, VecLanewise
<1>3. CASE \E i \in 1 .. 3 : V!ReverseOp(i, 2)
  <2>1. \A k \in 1 .. 3 : k \in 1 .. 4
    OBVIOUS
  <2> QED
    BY <1>3, <2>1, VecReverse
<1>4. CASE \E i \in V!Registers : V!HmaxOp(i) \/ V!HminOp(i)
  BY <1>4, VecHorizontal
<1>5. CASE V!TransposeOp \/ V!LD2DINT \/ V!LD2X2DINT \/ V!ST2INT \/ V!ST2X2INT
  BY <1>5, VecTranspose, VecLoad2, VecLoad4, VecStore2, VecStore4
<1> QED
  BY <1>1, <1>2, <1>3, <1>4, <1>5 DEF V!Next

LEMMA VecInit == V!Init => VecInv
<1> SUFFICES ASSUME V!Init
             PROVE  VecInv
  OBVIOUS
<1>1. VecKind
  <2>1. PICK kind \in Kinds : type = kind[1] /\ implementation = kind[2]
    BY DEF V!Init
  <2> QED
    BY <2>1 DEF Kinds, VecKind
<1>2. V!W \in {2, 4, 8} /\ V!Lanes = 0 .. V!W - 1
  BY <1>1, LaneCounts
<1>3. \A k \in Int : V!Scrambled(k) \in Int
  BY DEF V!Scrambled
<1>4. ASSUME NEW r \in V!Registers
      PROVE  [k \in V!Lanes |-> V!Scrambled((r - 1) * V!W + k)] \in Vec
  <2>1. r \in Int
    BY DEF V!Registers
  <2>2. \A k \in V!Lanes : (r - 1) * V!W + k \in Int
    BY <1>2, <2>1
  <2> QED
    BY <1>3, <2>2 DEF Vec
<1>5. regs \in [V!Registers -> Vec]
  BY <1>4 DEF V!Init
<1>6. mem \in [0 .. 4 * V!W - 1 -> Int]
  <2>1. \A k \in 0 .. 4 * V!W - 1 : k \in Int
    BY <1>2
  <2> QED
    BY <1>3, <2>1 DEF V!Init
<1>7. steps \in Nat
  BY DEF V!Init
<1> QED
  BY <1>1, <1>5, <1>6, <1>7 DEF VecInv

LEMMA VecUnchanged == VecInv /\ UNCHANGED vec_vars => VecInv'
<1> SUFFICES ASSUME VecInv, UNCHANGED vec_vars
             PROVE  VecInv'
  OBVIOUS
<1>1. type' = type /\ implementation' = implementation /\ regs' = regs /\ mem' = mem
      /\ steps' = steps
  BY DEF vec_vars
<1> QED
  BY <1>1, SameType DEF VecInv

\* In each implementation of every vector type, whatever the elements and however
\* many operations came before, interleaving, rotation, reversal and transposition
\* of cop_vec.h put each element where they say, the loads and stores agree with
\* the array, and hmax and hmin give the greatest and the least element.
THEOREM LanesGoRight == Spec => LanesRight
<1> DEFINE Inv == client = "vectors" => VecInv
<1>1. Init => Inv
  BY VecInit DEF Init
<1>2. Inv /\ [Next]_vars => Inv'
  <2> SUFFICES ASSUME Inv, [Next]_vars, client' = "vectors"
               PROVE  VecInv'
    OBVIOUS
  <2>1. client = "vectors" /\ (V!Next \/ UNCHANGED vec_vars)
    BY DEF Next, vars
  <2> QED
    BY <2>1, VecNext, VecUnchanged
<1>3. Inv /\ [Next]_vars => [Laned]_vec_vars
  <2> SUFFICES ASSUME Inv, [Next]_vars
               PROVE  Laned \/ UNCHANGED vec_vars
    OBVIOUS
  <2>1. (client = "vectors" /\ V!Next) \/ UNCHANGED vec_vars
    BY DEF Next, vars
  <2> QED
    BY <2>1, VecNext
<1>4. Spec => Init /\ [][Next]_vars
  BY DEF Spec, vars
<1> HIDE DEF Inv
<1>5. Spec => [][Laned]_vec_vars
  BY <1>1, <1>2, <1>3, <1>4, PTL
<1>6. [][Laned]_vec_vars => LanesRight
  BY DEF LanesRight, V!LanesRight, Laned, vec_vars, V!vars
<1> QED
  BY <1>5, <1>6

=============================================================================
