---------------------------- MODULE ThreadProofs ----------------------------
(***************************************************************************)
(* Proofs about Thread, for any threads, objects, arguments and values:    *)
(* what makes the calls safe to interleave is inductive, every thread runs *)
(* as it was created, nothing is left behind and answers are true.         *)
(***************************************************************************)
EXTENDS Thread, TLAPS

USE ConstantsOK DEF ConstantsOK

Codes == {"ok", "RANGE", "UNKNOWN", "PERMISSIONS", "RESOURCE", "DEADLOCK"}
Replies == [rc : Codes, val : Values \cup {NULL}]

\* What tells a creation that its thread started, after the thread is gone:
\* the value it left.
Started ==
  /\ \A t \in Threads : /\ status[t] = "asked" => result[t] = NULL
                        /\ status[t] = "ended" => result[t] # NULL
  /\ \A c \in Callers : call[c].op = "attr_destroy" /\ call[c].err = "ok" =>
       LET t == call[c].t
       IN  /\ kept[t] = 1 \/ asked[t].detached
           /\ status[t] \in {"ready", "running", "ended"} \/ result[t] # NULL

\* IInv with what follows from one step to the next with its help.
StrongInv == IInv /\ RunsAsCreated /\ NothingKept /\ Started

LEMMA InitInv == Init => StrongInv
<1> SUFFICES ASSUME Init PROVE StrongInv
  OBVIOUS
<1>1. \A c \in Callers : call[c] = Idle /\ call[c].op = "idle"
  BY DEF Init, Idle
<1>2. TypeOK
  <2>1. call = [c \in Callers |-> call[c]] /\ \A c \in Callers : CallOK(call[c])
    BY <1>1 DEF Init, CallOK
  <2>2. answer \in [Callers -> Replies]
    BY DEF Init, None, Replies, Codes
  <2>3. asked \in [Threads -> [arg : Args \cup {NULL}, detached : BOOLEAN]]
    BY DEF Init
  <2>4. obj \in [Objects -> [arg : Args \cup {NULL}, ret : Values \cup {NULL}]]
    BY DEF Init
  <2> QED
    BY <2>1, <2>2, <2>3, <2>4 DEF Init, TypeOK, Replies, Codes
<1>3. CallsInPhase /\ ObjectsOwned /\ ReferencesMatch
  BY <1>1 DEF Init, CallsInPhase, ObjectsOwned, ReferencesMatch
<1>4. RunsAsCreated /\ NothingKept /\ Started
  BY <1>1 DEF Init, RunsAsCreated, NothingKept, Started
<1> QED
  BY <1>2, <1>3, <1>4 DEF StrongInv, IInv

-----------------------------------------------------------------------------
(* How a call goes on and how it ends. *)

\* A call that is in progress is not "idle", and is about a thread.
LEMMA InCall ==
  ASSUME TypeOK, NEW c \in Callers
  PROVE  /\ call[c].op = "idle" <=> call[c] = Idle
         /\ call[c] # Idle => call[c].t \in Threads
         /\ call[c].op \in {"idle", "attr_init", "spawn", "attr_destroy", "close", "join"}
BY DEF TypeOK, CallOK, Idle

LEMMA KeptOrNot ==
  ASSUME TypeOK
  PROVE  (\A t \in Threads : kept[t] \in {0, 1}) /\ attrs \subseteq Callers
BY DEF TypeOK

LEMMA GotoFacts ==
  ASSUME TypeOK, NEW c \in Callers, NEW x, CallOK(x), Goto(c, x)
  PROVE  /\ call'[c] = x /\ \A b \in Callers \ {c} : call'[b] = call[b]
         /\ call' = [b \in Callers |-> call'[b]] /\ \A b \in Callers : CallOK(call'[b])
         /\ answer' \in [Callers -> Replies]
<1>1. call' = [b \in Callers |-> IF b = c THEN x ELSE call[b]]
  BY DEF TypeOK, Goto
<1> QED
  BY <1>1 DEF TypeOK, Goto, Replies, Codes

LEMMA AnswerFacts ==
  ASSUME TypeOK, NEW c \in Callers, NEW rc \in Codes, NEW v \in Values \cup {NULL},
         Answer(c, rc, v)
  PROVE  /\ call'[c] = Idle /\ call'[c].op = "idle"
         /\ \A b \in Callers \ {c} : call'[b] = call[b]
         /\ call' = [b \in Callers |-> call'[b]] /\ \A b \in Callers : CallOK(call'[b])
         /\ answer' \in [Callers -> Replies]
         /\ answer'[c] = [rc |-> rc, val |-> v]
<1>1. call' = [b \in Callers |-> IF b = c THEN Idle ELSE call[b]]
  BY DEF TypeOK, Answer
<1>2. CallOK(Idle) /\ Idle.op = "idle"
  BY DEF CallOK, Idle
<1>3. [rc |-> rc, val |-> v] \in Replies
  BY DEF Replies
<1>4. answer \in [Callers -> Replies]
  BY DEF TypeOK, Replies, Codes
<1> QED
  BY <1>1, <1>2, <1>3, <1>4 DEF TypeOK, Answer

-----------------------------------------------------------------------------
(* The steps of a creation. *)

\* A creation fails, with or without attributes to give back.
LEMMA CreateFails ==
  ASSUME StrongInv, NEW c \in Callers, NEW rc \in Codes \ {"ok"},
         call[c].op \in {"attr_init", "spawn", "attr_destroy"},
         status[call[c].t] = "asked",
         CreateFailed(c, rc), attrs' = attrs \ {c},
         UNCHANGED <<platform, kept, result, took, client_vars, obj>>
  PROVE  StrongInv'
<1> DEFINE t == call[c].t
<1> USE DEF StrongInv, IInv
<1>1. call[c] # Idle /\ t \in Threads
  BY InCall
<1>2. Answer(c, rc, NULL) /\ status' = [status EXCEPT ![t] = "none"]
  BY DEF CreateFailed
<1>3. /\ call'[c] = Idle /\ call'[c].op = "idle"
      /\ \A b \in Callers \ {c} : call'[b] = call[b]
      /\ call' = [b \in Callers |-> call'[b]] /\ \A b \in Callers : CallOK(call'[b])
      /\ answer' \in [Callers -> Replies]
  BY <1>2, AnswerFacts
<1>4. /\ status'[t] = "none" /\ \A u \in Threads \ {t} : status'[u] = status[u]
      /\ status' \in [Threads -> {"none", "asked", "ready", "running", "ended"}]
  BY <1>1, <1>2 DEF TypeOK
<1>5. kept[t] = 0
  BY <1>1, KeptOrNot DEF ReferencesMatch
<1> HIDE DEF t
<1>6. TypeOK'
  BY <1>3, <1>4 DEF TypeOK, client_vars, Replies, Codes
<1>7. CallsInPhase'
  BY <1>1, <1>3, <1>4, InCall DEF CallsInPhase, client_vars, Windows, Callers, t
<1>8. ObjectsOwned'
  BY <1>1, <1>4 DEF ObjectsOwned, client_vars, Windows
<1>9. ReferencesMatch'
  BY <1>1, <1>3, <1>4, <1>5 DEF ReferencesMatch, client_vars, Windows, t, CallsInPhase
<1>10. RunsAsCreated'
  BY <1>4 DEF RunsAsCreated, client_vars
<1>11. NothingKept'
  BY <1>1, <1>3, <1>4, <1>5, KeptOrNot DEF NothingKept, client_vars, t
<1>12. Started'
  BY <1>1, <1>3, <1>4, InCall DEF Started, client_vars, t, CallsInPhase
<1> QED
  BY <1>6, <1>7, <1>8, <1>9, <1>10, <1>11, <1>12

\* A thread is asked for, in an object that is not in use.
LEMMA CreateBeginStep ==
  ASSUME StrongInv, NEW c \in Callers, NEW t \in Threads, NEW o \in Objects,
         NEW a \in Args, NEW d \in BOOLEAN, CreateBegin(c, t, o, a, d)
  PROVE  StrongInv'
<1> DEFINE x == [op |-> IF Windows THEN "spawn" ELSE "attr_init", t |-> t]
<1> USE DEF StrongInv, IInv
<1>1. /\ call[c] = Idle /\ (c # Main => status[c] = "running")
      /\ status[t] = "none" /\ \A b \in Callers : call[b] # Idle => call[b].t # t
      /\ \A u \in Threads : status[u] # "none" => at[u] # o
  BY DEF CreateBegin, Free, Unused, InUse
<1>2. /\ x.op = (IF Windows THEN "spawn" ELSE "attr_init") /\ x.t = t
      /\ x # Idle /\ CallOK(x)
  BY DEF CallOK, Idle
<1> HIDE DEF x
<1>3. /\ call'[c] = x /\ \A b \in Callers \ {c} : call'[b] = call[b]
      /\ call' = [b \in Callers |-> call'[b]] /\ \A b \in Callers : CallOK(call'[b])
      /\ answer' \in [Callers -> Replies]
  BY <1>2, GotoFacts DEF CreateBegin, x
<1>4. /\ status'[t] = "asked" /\ \A u \in Threads \ {t} : status'[u] = status[u]
      /\ status' \in [Threads -> {"none", "asked", "ready", "running", "ended"}]
  BY DEF CreateBegin, TypeOK
<1>5. /\ took' \in [Threads -> Args \cup {NULL}]
      /\ \A u \in Threads \ {t} : took'[u] = took[u]
  BY DEF CreateBegin, TypeOK
<1>6. /\ result'[t] = NULL /\ \A u \in Threads \ {t} : result'[u] = result[u]
      /\ result' \in [Threads -> Values \cup {NULL}]
  BY DEF CreateBegin, TypeOK
<1>7. /\ at'[t] = o /\ \A u \in Threads \ {t} : at'[u] = at[u]
      /\ at' \in [Threads -> Objects \cup {NULL}]
  BY DEF CreateBegin, TypeOK
<1>8. /\ asked'[t] = [arg |-> a, detached |-> d]
      /\ \A u \in Threads \ {t} : asked'[u] = asked[u]
      /\ asked' \in [Threads -> [arg : Args \cup {NULL}, detached : BOOLEAN]]
  BY DEF CreateBegin, TypeOK
<1>9. /\ Windows => obj'[o].arg = a
      /\ \A p \in Objects \ {o} : obj'[p] = obj[p]
      /\ obj' \in [Objects -> [arg : Args \cup {NULL}, ret : Values \cup {NULL}]]
  <2>1. CASE Windows
    <3>1. obj' = [obj EXCEPT ![o].arg = a]
      BY <2>1 DEF CreateBegin
    <3>2. obj[o] \in [arg : Args \cup {NULL}, ret : Values \cup {NULL}]
      BY DEF TypeOK
    <3>3. /\ [obj[o] EXCEPT !.arg = a] \in [arg : Args \cup {NULL}, ret : Values \cup {NULL}]
          /\ [obj[o] EXCEPT !.arg = a].arg = a
      BY <3>2
    <3>4. obj \in [Objects -> [arg : Args \cup {NULL}, ret : Values \cup {NULL}]]
      BY DEF TypeOK
    <3> QED
      BY ONLY <3>1, <3>3, <3>4
  <2>2. CASE ~Windows
    BY <2>2 DEF CreateBegin, TypeOK
  <2> QED
    BY <2>1, <2>2
<1>10. UNCHANGED <<platform, kept, attrs>>
  BY DEF CreateBegin
<1>11. kept[t] = 0
  BY <1>1, KeptOrNot DEF ReferencesMatch
<1>12. TypeOK'
  BY <1>3, <1>4, <1>5, <1>6, <1>7, <1>8, <1>9, <1>10 DEF TypeOK, Replies, Codes
<1>13. CallsInPhase'
  BY <1>1, <1>2, <1>3, <1>4, <1>8, <1>10, InCall DEF CallsInPhase, Windows, Callers
<1>14. ObjectsOwned'
  <2>1. \A u \in Threads : status[u] # "none" => at[u] \in Objects
    BY DEF ObjectsOwned, TypeOK
  <2>2. \A u, w \in Threads : status'[u] # "none" /\ status'[w] # "none" /\ u # w
          => at'[u] # at'[w]
    BY <1>1, <1>4, <1>7, <2>1 DEF ObjectsOwned
  <2>3. \A u \in Threads : status'[u] # "none" => at'[u] # NULL
    BY <1>4, <1>7, <2>1
  <2>4. ASSUME Windows', NEW u \in Threads, status'[u] \in {"asked", "ready"}
        PROVE  obj'[at'[u]].arg = asked'[u].arg
    <3>1. CASE u = t
      BY <1>7, <1>8, <1>9, <1>10, <2>4, <3>1 DEF Windows
    <3>2. CASE u # t
      <4>1. status[u] \in {"asked", "ready"} /\ at'[u] = at[u] /\ asked'[u] = asked[u]
        BY <1>4, <1>7, <1>8, <2>4, <3>2
      <4>2. obj[at[u]].arg = asked[u].arg /\ at[u] \in Objects \ {o}
        BY <1>1, <1>10, <2>1, <2>4, <4>1 DEF ObjectsOwned, Windows
      <4> QED
        BY <1>9, <4>1, <4>2
    <3> QED
      BY <3>1, <3>2
  <2> QED
    BY <2>2, <2>3, <2>4 DEF ObjectsOwned, Windows
<1>15. ReferencesMatch'
  BY <1>1, <1>2, <1>3, <1>4, <1>10, <1>11 DEF ReferencesMatch, Windows, Idle
<1>16. RunsAsCreated'
  BY <1>4, <1>5, <1>8 DEF RunsAsCreated
<1>17. NothingKept'
  BY <1>1, <1>2, <1>3, <1>4, <1>8, <1>10, <1>11, KeptOrNot, InCall DEF NothingKept, Idle
<1>18. Started'
  <2>1. \A b \in Callers : call'[b].op = "attr_destroy" =>
          b # c /\ call'[b] = call[b] /\ call[b].t \in Threads \ {t}
    BY <1>1, <1>2, <1>3, InCall
  <2> QED
    BY <1>4, <1>6, <1>8, <1>10, <2>1 DEF Started
<1> QED
  BY <1>12, <1>13, <1>14, <1>15, <1>16, <1>17, <1>18

\* pthread_attr_init gives the attributes, or the creation fails.
LEMMA AttrInitStep ==
  ASSUME StrongInv, NEW c \in Callers, AttrInit(c)
  PROVE  StrongInv'
<1> DEFINE t == call[c].t
           x == [op |-> "spawn", t |-> t]
<1> USE DEF StrongInv, IInv
<1>1. /\ call[c] # Idle /\ t \in Threads /\ ~Windows /\ status[t] = "asked"
      /\ c \notin attrs
  BY InCall DEF AttrInit, CallsInPhase, ReferencesMatch
<1>2. CASE CreateFailed(c, "RESOURCE") /\ UNCHANGED attrs
  BY <1>1, <1>2, CreateFails DEF AttrInit, Codes
<1>3. CASE attrs' = attrs \cup {c} /\ Goto(c, x) /\ UNCHANGED status
  <2>1. x.op = "spawn" /\ x.t = t /\ x # Idle /\ CallOK(x)
    BY <1>1 DEF CallOK, Idle
  <2> HIDE DEF t, x
  <2>2. /\ call'[c] = x /\ \A b \in Callers \ {c} : call'[b] = call[b]
        /\ call' = [b \in Callers |-> call'[b]] /\ \A b \in Callers : CallOK(call'[b])
        /\ answer' \in [Callers -> Replies]
    BY <1>3, <2>1, GotoFacts
  <2>3. UNCHANGED <<platform, kernel_vars, client_vars, obj>>
    BY <1>3 DEF AttrInit, kernel_vars
  <2> USE DEF kernel_vars, client_vars
  <2>4. TypeOK'
    BY <1>3, <2>2, <2>3 DEF TypeOK, Replies, Codes
  <2>5. CallsInPhase'
    BY <1>1, <2>1, <2>2, <2>3, InCall DEF CallsInPhase, Windows, Callers, t
  <2>6. ObjectsOwned'
    BY <2>3 DEF ObjectsOwned, Windows
  <2>7. ReferencesMatch'
    BY <1>1, <1>3, <2>1, <2>2, <2>3 DEF ReferencesMatch, Windows, t
  <2>8. RunsAsCreated'
    BY <2>3 DEF RunsAsCreated
  <2>9. NothingKept'
    BY <1>1, <1>3, <2>1, <2>2, <2>3, KeptOrNot DEF NothingKept, AttrInit
  <2>10. Started'
    BY <2>1, <2>2, <2>3 DEF Started
  <2> QED
    BY <2>4, <2>5, <2>6, <2>7, <2>8, <2>9, <2>10
<1> QED
  BY <1>2, <1>3 DEF AttrInit

\* One of the calls that set up or make a thread is refused: err is set.
LEMMA PosixRefusedStep ==
  ASSUME StrongInv, NEW c \in Callers, PosixRefused(c)
  PROVE  StrongInv'
<1> USE DEF StrongInv, IInv, kernel_vars, client_vars
<1>1. PICK e \in {"RANGE", "UNKNOWN", "PERMISSIONS", "RESOURCE"} :
        Goto(c, [op |-> "attr_destroy", t |-> call[c].t, err |-> e])
  BY DEF PosixRefused
<1> DEFINE t == call[c].t
           x == [op |-> "attr_destroy", t |-> t, err |-> e]
<1>2. /\ call[c].op = "spawn" /\ call[c] # Idle /\ t \in Threads /\ ~Windows
      /\ status[t] = "asked"
  BY InCall DEF PosixRefused, CallsInPhase
<1>3. /\ x.op = "attr_destroy" /\ x.t = t /\ x.err # "ok" /\ x # Idle /\ CallOK(x)
  BY <1>2 DEF CallOK, Idle
<1> HIDE DEF t, x
<1>4. /\ call'[c] = x /\ \A b \in Callers \ {c} : call'[b] = call[b]
      /\ call' = [b \in Callers |-> call'[b]] /\ \A b \in Callers : CallOK(call'[b])
      /\ answer' \in [Callers -> Replies]
  BY <1>1, <1>3, GotoFacts DEF t, x
<1>5. UNCHANGED <<platform, kernel_vars, client_vars, obj, attrs>>
  BY DEF PosixRefused
<1>6. TypeOK'
  BY <1>4, <1>5 DEF TypeOK, Replies, Codes
<1>7. CallsInPhase'
  BY <1>2, <1>3, <1>4, <1>5, InCall DEF CallsInPhase, Windows, Callers, t
<1>8. ObjectsOwned'
  BY <1>5 DEF ObjectsOwned, Windows
<1>9. ReferencesMatch'
  BY <1>2, <1>3, <1>4, <1>5 DEF ReferencesMatch, Windows, t
<1>10. RunsAsCreated'
  BY <1>5 DEF RunsAsCreated
<1>11. NothingKept'
  BY <1>2, <1>3, <1>4, <1>5, KeptOrNot DEF NothingKept
<1>12. Started'
  BY <1>3, <1>4, <1>5 DEF Started
<1> QED
  BY <1>6, <1>7, <1>8, <1>9, <1>10, <1>11, <1>12

\* A thread is made; its creator goes on to y, with k references to it.
LEMMA Spawns ==
  ASSUME StrongInv, NEW c \in Callers, NEW t, NEW k \in {0, 1}, NEW y,
         call[c].op = "spawn", t = call[c].t,
         status' = [status EXCEPT ![t] = "ready"],
         kept' = [kept EXCEPT ![t] = k],
         UNCHANGED <<platform, result, took, client_vars, obj, attrs>>,
         call'[c] = y, \A b \in Callers \ {c} : call'[b] = call[b],
         call' = [b \in Callers |-> call'[b]], \A b \in Callers : CallOK(call'[b]),
         answer' \in [Callers -> Replies],
         \/ ~Windows /\ y.op = "attr_destroy" /\ y.err = "ok" /\ y.t = t
              /\ (k = 1 <=> ~asked[t].detached)
         \/ Windows /\ asked[t].detached /\ y = [op |-> "close", t |-> t] /\ k = 1
         \/ Windows /\ ~asked[t].detached /\ y = Idle
  PROVE  StrongInv'
<1> USE DEF StrongInv, IInv, client_vars
<1>1. call[c] # Idle /\ t \in Threads /\ status[t] = "asked"
  BY InCall DEF CallsInPhase
<1>2. /\ status'[t] = "ready" /\ \A u \in Threads \ {t} : status'[u] = status[u]
      /\ status' \in [Threads -> {"none", "asked", "ready", "running", "ended"}]
  BY <1>1 DEF TypeOK
<1>3. /\ kept'[t] = k /\ \A u \in Threads \ {t} : kept'[u] = kept[u]
      /\ kept' \in [Threads -> {0, 1}]
  BY <1>1 DEF TypeOK
<1>4. /\ y.op \in {"idle", "close", "attr_destroy"} /\ (y.op = "idle" <=> y = Idle)
      /\ y.op # "idle" => y.t = t
      /\ y.op = "attr_destroy" <=> ~Windows
      /\ y.op = "attr_destroy" => y.err = "ok"
      /\ y.op = "close" => Windows /\ asked[t].detached /\ k = 1
  BY DEF Idle
<1>5. k = 1 /\ asked[t].detached => call'[c] = [op |-> "close", t |-> t]
  OBVIOUS
<1>6. TypeOK'
  BY <1>2, <1>3 DEF TypeOK, Replies, Codes
<1>7. CallsInPhase'
  BY <1>1, <1>2, <1>3, <1>4, InCall DEF CallsInPhase, Windows, Callers
<1>8. ObjectsOwned'
  BY <1>1, <1>2 DEF ObjectsOwned, Windows
<1>9. ReferencesMatch'
  BY <1>1, <1>2, <1>3, <1>4 DEF ReferencesMatch, Windows
<1>10. RunsAsCreated'
  BY <1>2 DEF RunsAsCreated
<1>11. NothingKept'
  <2>1. \A b \in attrs : call'[b].op \in {"spawn", "attr_destroy"}
    BY <1>4, KeptOrNot DEF NothingKept, ReferencesMatch
  <2>2. ASSUME NEW u \in Threads \ {t}
        PROVE  kept'[u] = 0 \/ /\ status'[u] \notin {"none", "asked"}
                               /\ \/ ~asked[u].detached
                                  \/ \E b \in Callers : call'[b] = [op |-> "close", t |-> u]
    <3>1. \A b \in Callers : call[b] = [op |-> "close", t |-> u] => b # c
      OBVIOUS
    <3> QED
      BY <1>2, <1>3, <3>1 DEF NothingKept
  <2> QED
    BY <1>1, <1>2, <1>3, <1>5, <2>1, <2>2 DEF NothingKept
<1>12. Started'
  <2>1. \A b \in Callers \ {c} : call'[b].op = "attr_destroy" =>
          call[b].t \in Threads \ {t}
    BY <1>1, InCall DEF CallsInPhase
  <2> QED
    BY <1>1, <1>2, <1>3, <1>4, <2>1 DEF Started
<1> QED
  BY <1>6, <1>7, <1>8, <1>9, <1>10, <1>11, <1>12

LEMMA PosixSpawnStep ==
  ASSUME StrongInv, NEW c \in Callers, PosixSpawn(c)
  PROVE  StrongInv'
<1> DEFINE t == call[c].t
           k == IF asked[t].detached THEN 0 ELSE 1
           y == [op |-> "attr_destroy", t |-> t, err |-> "ok"]
<1>1. t \in Threads
  BY InCall DEF PosixSpawn, StrongInv, IInv
<1>2. k \in {0, 1} /\ (k = 1 <=> ~asked[t].detached)
  OBVIOUS
<1>3. CallOK(y) /\ y.op = "attr_destroy" /\ y.err = "ok" /\ y.t = t
  BY <1>1 DEF CallOK
<1>4. /\ call[c].op = "spawn" /\ ~Windows
      /\ status' = [status EXCEPT ![t] = "ready"] /\ kept' = [kept EXCEPT ![t] = k]
      /\ Goto(c, y)
      /\ UNCHANGED <<platform, result, took, client_vars, obj, attrs>>
  BY DEF PosixSpawn
<1> HIDE DEF k, y
<1> QED
  BY <1>2, <1>3, <1>4, GotoFacts, Spawns DEF StrongInv, IInv

LEMMA WindowsSpawnStep ==
  ASSUME StrongInv, NEW c \in Callers, WindowsSpawn(c)
  PROVE  StrongInv'
<1> DEFINE t == call[c].t
           y == [op |-> "close", t |-> t]
<1>1. t \in Threads
  BY InCall DEF WindowsSpawn, StrongInv, IInv
<1>2. /\ call[c].op = "spawn" /\ Windows
      /\ status' = [status EXCEPT ![t] = "ready"] /\ kept' = [kept EXCEPT ![t] = 1]
      /\ UNCHANGED <<platform, result, took, client_vars, obj, attrs>>
  BY DEF WindowsSpawn
<1>3. CASE asked[t].detached /\ Goto(c, y)
  <2>1. CallOK(y)
    BY <1>1 DEF CallOK
  <2> QED
    BY <1>2, <1>3, <2>1, GotoFacts, Spawns DEF StrongInv, IInv
<1>4. CASE ~asked[t].detached /\ Answer(c, "ok", NULL)
  BY <1>2, <1>4, AnswerFacts, Spawns DEF StrongInv, IInv, Codes
<1> QED
  BY <1>3, <1>4 DEF WindowsSpawn

\* pthread_attr_destroy, and the creation returns what err says.
LEMMA AttrDestroyStep ==
  ASSUME StrongInv, NEW c \in Callers, AttrDestroy(c)
  PROVE  StrongInv'
<1> DEFINE t == call[c].t
<1> USE DEF StrongInv, IInv
<1>1. /\ call[c].op = "attr_destroy" /\ attrs' = attrs \ {c}
      /\ UNCHANGED <<platform, kept, result, took, client_vars, obj>>
  BY DEF AttrDestroy
<1>2. /\ call[c] # Idle /\ t \in Threads /\ ~Windows
      /\ call[c].err # "ok" <=> status[t] = "asked"
  BY <1>1, InCall DEF CallsInPhase
<1>3. CASE call[c].err # "ok"
  <2>1. call[c].err \in Codes \ {"ok"}
    BY <1>1, <1>3 DEF TypeOK, CallOK, Codes, Idle
  <2> QED
    BY <1>1, <1>2, <1>3, <2>1, CreateFails DEF AttrDestroy
<1>4. CASE call[c].err = "ok"
  <2> HIDE DEF t
  <2>1. Answer(c, "ok", NULL) /\ UNCHANGED status
    BY <1>4 DEF AttrDestroy
  <2>2. /\ call'[c] = Idle /\ call'[c].op = "idle"
        /\ \A b \in Callers \ {c} : call'[b] = call[b]
        /\ call' = [b \in Callers |-> call'[b]] /\ \A b \in Callers : CallOK(call'[b])
        /\ answer' \in [Callers -> Replies]
    BY <2>1, AnswerFacts DEF Codes
  <2> USE DEF client_vars
  <2>3. TypeOK'
    BY <1>1, <2>1, <2>2 DEF TypeOK, Replies, Codes
  <2>4. CallsInPhase'
    BY <1>1, <2>1, <2>2 DEF CallsInPhase, Windows
  <2>5. ObjectsOwned'
    BY <1>1, <2>1 DEF ObjectsOwned, Windows
  <2>6. ReferencesMatch'
    BY <1>1, <1>2, <1>4, <2>1, <2>2 DEF ReferencesMatch, Windows, t
  <2>7. RunsAsCreated'
    BY <1>1, <2>1 DEF RunsAsCreated
  <2>8. NothingKept'
    BY <1>1, <2>1, <2>2, KeptOrNot DEF NothingKept
  <2>9. Started'
    BY <1>1, <2>1, <2>2 DEF Started
  <2> QED
    BY <2>3, <2>4, <2>5, <2>6, <2>7, <2>8, <2>9
<1> QED
  BY <1>3, <1>4

LEMMA WindowsRefusedStep ==
  ASSUME StrongInv, NEW c \in Callers, WindowsRefused(c)
  PROVE  StrongInv'
<1>1. call[c] # Idle /\ status[call[c].t] = "asked" /\ c \notin attrs
  BY InCall DEF StrongInv, IInv, WindowsRefused, CallsInPhase, ReferencesMatch
<1> QED
  BY <1>1, CreateFails DEF WindowsRefused, Codes

-----------------------------------------------------------------------------
(* The life of a thread, and joining it. *)

LEMMA ThreadStartStep ==
  ASSUME StrongInv, NEW t \in Threads, ThreadStart(t)
  PROVE  StrongInv'
<1> USE DEF StrongInv, IInv, client_vars
<1>1. /\ status[t] = "ready"
      /\ status'[t] = "running" /\ \A u \in Threads \ {t} : status'[u] = status[u]
      /\ status' \in [Threads -> {"none", "asked", "ready", "running", "ended"}]
  BY DEF ThreadStart, TypeOK
<1>2. UNCHANGED <<platform, kept, result, client_vars, obj, attrs, call, answer>>
  BY DEF ThreadStart
<1>3. took'[t] = asked[t].arg /\ \A u \in Threads \ {t} : took'[u] = took[u]
  BY DEF ThreadStart, TypeOK, ObjectsOwned
<1>4. took' \in [Threads -> Args \cup {NULL}]
  <2>1. asked[t].arg \in Args \cup {NULL}
    BY DEF TypeOK
  <2>2. took' = [took EXCEPT ![t] = took'[t]]
    BY DEF ThreadStart, TypeOK
  <2> QED
    BY <1>3, <2>1, <2>2 DEF TypeOK
<1>5. TypeOK'
  BY <1>1, <1>2, <1>4 DEF TypeOK
<1>6. CallsInPhase'
  BY <1>1, <1>2, InCall DEF CallsInPhase, Windows, Callers
<1>7. ObjectsOwned'
  BY <1>1, <1>2 DEF ObjectsOwned, Windows
<1>8. ReferencesMatch'
  BY <1>1, <1>2 DEF ReferencesMatch, Windows
<1>9. RunsAsCreated'
  BY <1>1, <1>2, <1>3 DEF RunsAsCreated
<1>10. NothingKept'
  BY <1>1, <1>2 DEF NothingKept
<1>11. Started'
  <2>1. \A b \in Callers : call[b].op = "attr_destroy" => call[b].t \in Threads
    BY InCall
  <2> QED
    BY <1>1, <1>2, <2>1 DEF Started
<1> QED
  BY <1>5, <1>6, <1>7, <1>8, <1>9, <1>10, <1>11

\* A thread nobody refers to is gone when it ends; the others wait to be joined.
LEMMA ThreadEndStep ==
  ASSUME StrongInv, NEW t \in Threads, NEW v \in Values, ThreadEnd(t, v)
  PROVE  StrongInv'
<1> USE DEF StrongInv, IInv, client_vars
<1>1. /\ status[t] = "running" /\ call[t] = Idle
      /\ status'[t] = IF kept[t] = 0 THEN "none" ELSE "ended"
      /\ \A u \in Threads \ {t} : status'[u] = status[u]
      /\ status' \in [Threads -> {"none", "asked", "ready", "running", "ended"}]
  BY DEF ThreadEnd, TypeOK
<1>2. UNCHANGED <<platform, kept, took, client_vars, attrs, call, answer>>
  BY DEF ThreadEnd
<1>3. /\ result'[t] = v /\ v # NULL /\ \A u \in Threads \ {t} : result'[u] = result[u]
      /\ result' \in [Threads -> Values \cup {NULL}]
  BY DEF ThreadEnd, TypeOK
<1>4. at[t] \in Objects
  BY <1>1 DEF ObjectsOwned, TypeOK
<1>5. /\ \A p \in Objects : obj'[p].arg = obj[p].arg
      /\ obj' \in [Objects -> [arg : Args \cup {NULL}, ret : Values \cup {NULL}]]
  <2>1. CASE Windows
    <3>1. obj' = [obj EXCEPT ![at[t]].ret = v]
      BY <2>1 DEF ThreadEnd
    <3>2. obj \in [Objects -> [arg : Args \cup {NULL}, ret : Values \cup {NULL}]]
      BY DEF TypeOK
    <3>3. /\ [obj[at[t]] EXCEPT !.ret = v] \in [arg : Args \cup {NULL}, ret : Values \cup {NULL}]
          /\ [obj[at[t]] EXCEPT !.ret = v].arg = obj[at[t]].arg
      BY <1>4, <3>2
    <3> QED
      BY ONLY <1>4, <3>1, <3>2, <3>3
  <2>2. CASE ~Windows
    BY <2>2 DEF ThreadEnd, TypeOK
  <2> QED
    BY <2>1, <2>2
<1>6. TypeOK'
  BY <1>1, <1>2, <1>3, <1>5 DEF TypeOK
<1>7. CallsInPhase'
  BY <1>1, <1>2, InCall DEF CallsInPhase, Windows, Callers
<1>8. ObjectsOwned'
  <2>1. \A u \in Threads : status[u] # "none" => at[u] \in Objects
    BY DEF ObjectsOwned, TypeOK
  <2> QED
    BY <1>1, <1>2, <1>5, <2>1 DEF ObjectsOwned, Windows
<1>9. ReferencesMatch'
  BY <1>1, <1>2, KeptOrNot DEF ReferencesMatch, Windows
<1>10. RunsAsCreated'
  BY <1>1, <1>2 DEF RunsAsCreated
<1>11. NothingKept'
  BY <1>1, <1>2, KeptOrNot DEF NothingKept
<1>12. Started'
  <2>1. \A b \in Callers : call[b].op = "attr_destroy" => call[b].t \in Threads
    BY InCall
  <2> QED
    BY <1>1, <1>2, <1>3, <2>1, KeptOrNot DEF Started
<1> QED
  BY <1>6, <1>7, <1>8, <1>9, <1>10, <1>11, <1>12

LEMMA JoinBeginStep ==
  ASSUME StrongInv, NEW c \in Callers, NEW t \in Threads, JoinBegin(c, t)
  PROVE  StrongInv'
<1> DEFINE x == [op |-> "join", t |-> t, copy |-> obj[at[t]].ret]
<1> USE DEF StrongInv, IInv, kernel_vars, client_vars
<1>1. /\ call[c] = Idle /\ (c # Main => status[c] = "running")
      /\ status[t] \in {"ready", "running", "ended"} /\ ~asked[t].detached /\ kept[t] = 1
      /\ \A b \in Callers : call[b] # Idle => call[b].t # t
  BY KeptOrNot DEF JoinBegin, Free
<1>2. x.op = "join" /\ x.t = t /\ x # Idle /\ CallOK(x)
  <2>1. at[t] \in Objects
    BY <1>1 DEF ObjectsOwned, TypeOK
  <2>2. obj[at[t]].ret \in Values \cup {NULL}
    BY <2>1 DEF TypeOK
  <2> QED
    BY <2>2 DEF CallOK, Idle
<1> HIDE DEF x
<1>3. /\ call'[c] = x /\ \A b \in Callers \ {c} : call'[b] = call[b]
      /\ call' = [b \in Callers |-> call'[b]] /\ \A b \in Callers : CallOK(call'[b])
      /\ answer' \in [Callers -> Replies]
  BY <1>2, GotoFacts DEF JoinBegin, x
<1>4. UNCHANGED <<platform, kernel_vars, client_vars, obj, attrs>>
  BY DEF JoinBegin
<1>5. TypeOK'
  BY <1>3, <1>4 DEF TypeOK, Replies, Codes
<1>6. CallsInPhase'
  BY <1>1, <1>2, <1>3, <1>4 DEF CallsInPhase, Windows
<1>7. ObjectsOwned'
  BY <1>4 DEF ObjectsOwned, Windows
<1>8. ReferencesMatch'
  BY <1>1, <1>2, <1>3, <1>4, InCall DEF ReferencesMatch, Windows
<1>9. RunsAsCreated'
  BY <1>4 DEF RunsAsCreated
<1>10. NothingKept'
  BY <1>1, <1>2, <1>3, <1>4, KeptOrNot, InCall DEF NothingKept
<1>11. Started'
  BY <1>2, <1>3, <1>4 DEF Started
<1> QED
  BY <1>5, <1>6, <1>7, <1>8, <1>9, <1>10, <1>11

\* A reference is given back at the end of a call: a thread that had ended is
\* no more.
LEMMA Releases ==
  ASSUME StrongInv, NEW c \in Callers, NEW rc \in Codes, NEW v \in Values \cup {NULL},
         call[c].op \in {"close", "join"}, Answer(c, rc, v),
         Release(call[c].t, status[call[c].t]),
         UNCHANGED <<platform, result, took, client_vars, obj, attrs>>
  PROVE  StrongInv'
<1> DEFINE t == call[c].t
<1> USE DEF StrongInv, IInv, client_vars
<1>1. call[c] # Idle /\ t \in Threads
  BY InCall
<1>2. /\ call'[c] = Idle /\ call'[c].op = "idle"
      /\ \A b \in Callers \ {c} : call'[b] = call[b]
      /\ call' = [b \in Callers |-> call'[b]] /\ \A b \in Callers : CallOK(call'[b])
      /\ answer' \in [Callers -> Replies]
  BY AnswerFacts
<1>3. /\ status'[t] = (IF status[t] = "ended" THEN "none" ELSE status[t])
      /\ \A u \in Threads \ {t} : status'[u] = status[u]
      /\ status' \in [Threads -> {"none", "asked", "ready", "running", "ended"}]
  BY <1>1 DEF Release, TypeOK
<1>4. /\ kept'[t] = 0 /\ \A u \in Threads \ {t} : kept'[u] = kept[u]
      /\ kept' \in [Threads -> {0, 1}]
  BY <1>1 DEF Release, TypeOK
<1>5. kept[t] = 1 /\ status[t] \in {"ready", "running", "ended"}
  BY <1>1 DEF CallsInPhase, ReferencesMatch
<1>6. \A b \in Callers \ {c} : call[b] # Idle => call[b].t \in Threads \ {t}
  BY <1>1, InCall DEF CallsInPhase
<1> HIDE DEF t
<1>7. TypeOK'
  BY <1>2, <1>3, <1>4 DEF TypeOK, Replies, Codes
<1>8. CallsInPhase'
  BY <1>1, <1>2, <1>3, <1>4, <1>6 DEF CallsInPhase, Windows, Callers
<1>9. ObjectsOwned'
  BY <1>1, <1>3 DEF ObjectsOwned, Windows
<1>10. ReferencesMatch'
  BY <1>1, <1>2, <1>3, <1>4, <1>5, InCall DEF ReferencesMatch, Windows, t
<1>11. RunsAsCreated'
  BY <1>1, <1>3 DEF RunsAsCreated
<1>12. NothingKept'
  <2>1. \A b \in attrs : call'[b].op \in {"spawn", "attr_destroy"}
    BY <1>2, KeptOrNot DEF NothingKept
  <2>2. ASSUME NEW u \in Threads \ {t}
        PROVE  kept'[u] = 0 \/ /\ status'[u] \notin {"none", "asked"}
                               /\ \/ ~asked[u].detached
                                  \/ \E b \in Callers : call'[b] = [op |-> "close", t |-> u]
    <3>1. \A b \in Callers : call[b] = [op |-> "close", t |-> u] => b # c
      BY DEF t
    <3> QED
      BY <1>2, <1>3, <1>4, <3>1 DEF NothingKept
  <2> QED
    BY <1>1, <1>4, <2>1, <2>2 DEF NothingKept
<1>13. Started'
  <2>1. \A b \in Callers : call'[b].op = "attr_destroy" =>
          call'[b] = call[b] /\ call[b].t \in Threads \ {t}
    BY <1>2, <1>6, InCall
  <2> QED
    BY <1>1, <1>3, <1>4, <2>1 DEF Started
<1> QED
  BY <1>7, <1>8, <1>9, <1>10, <1>11, <1>12, <1>13

LEMMA CloseDetachedStep ==
  ASSUME StrongInv, NEW c \in Callers, CloseDetached(c)
  PROVE  StrongInv'
BY Releases DEF CloseDetached, Codes

LEMMA JoinEndStep ==
  ASSUME StrongInv, NEW c \in Callers, JoinEnd(c)
  PROVE  StrongInv'
<1> DEFINE v == IF Windows THEN call[c].copy ELSE result[call[c].t]
<1>1. v \in Values \cup {NULL}
  BY DEF JoinEnd, StrongInv, IInv, TypeOK, CallOK, Idle
<1> QED
  BY <1>1, Releases DEF JoinEnd, Codes

LEMMA JoinFailedStep ==
  ASSUME StrongInv, NEW c \in Callers, JoinFailed(c)
  PROVE  StrongInv'
BY Releases DEF JoinFailed, Codes

\* The thread is not joined: it is as it was.
LEMMA JoinDeadlockStep ==
  ASSUME StrongInv, NEW c \in Callers, JoinDeadlock(c)
  PROVE  StrongInv'
<1> USE DEF StrongInv, IInv, kernel_vars, client_vars
<1>1. /\ call'[c] = Idle /\ call'[c].op = "idle"
      /\ \A b \in Callers \ {c} : call'[b] = call[b]
      /\ call' = [b \in Callers |-> call'[b]] /\ \A b \in Callers : CallOK(call'[b])
      /\ answer' \in [Callers -> Replies]
  BY AnswerFacts DEF JoinDeadlock, Codes
<1>2. UNCHANGED <<platform, kernel_vars, client_vars, obj, attrs>>
  BY DEF JoinDeadlock
<1>3. call[c].op = "join" /\ call[c] # Idle /\ call[c].t \in Threads /\ kept[call[c].t] = 1
  BY InCall DEF JoinDeadlock, CallsInPhase
<1>4. TypeOK'
  BY <1>1, <1>2 DEF TypeOK, Replies, Codes
<1>5. CallsInPhase'
  BY <1>1, <1>2 DEF CallsInPhase, Windows
<1>6. ObjectsOwned'
  BY <1>2 DEF ObjectsOwned, Windows
<1>7. ReferencesMatch'
  BY <1>1, <1>2, <1>3 DEF ReferencesMatch, Windows
<1>8. RunsAsCreated'
  BY <1>2 DEF RunsAsCreated
<1>9. NothingKept'
  BY <1>1, <1>2, <1>3, KeptOrNot DEF NothingKept
<1>10. Started'
  BY <1>1, <1>2 DEF Started
<1> QED
  BY <1>4, <1>5, <1>6, <1>7, <1>8, <1>9, <1>10

-----------------------------------------------------------------------------
LEMMA NextInv == StrongInv /\ [Next]_vars => StrongInv'
<1> SUFFICES ASSUME StrongInv, [Next]_vars PROVE StrongInv'
  OBVIOUS
<1>1. ASSUME NEW c \in Callers, Creating(c) PROVE StrongInv'
  BY <1>1, AttrInitStep, PosixRefusedStep, PosixSpawnStep, AttrDestroyStep,
     WindowsRefusedStep, WindowsSpawnStep, CloseDetachedStep DEF Creating
<1>2. ASSUME NEW c \in Callers, Joined(c) PROVE StrongInv'
  BY <1>2, JoinEndStep, JoinFailedStep, JoinDeadlockStep DEF Joined
<1>3. CASE UNCHANGED vars
  <2> USE <1>3 DEF vars, kernel_vars, client_vars, StrongInv, IInv, Windows
  <2>1. TypeOK'
    BY DEF TypeOK
  <2>2. CallsInPhase' /\ ObjectsOwned'
    BY DEF CallsInPhase, ObjectsOwned
  <2>3. ReferencesMatch' /\ RunsAsCreated'
    BY DEF ReferencesMatch, RunsAsCreated
  <2>4. NothingKept' /\ Started'
    BY DEF NothingKept, Started
  <2> QED
    BY <2>1, <2>2, <2>3, <2>4
<1> QED
  BY <1>1, <1>2, <1>3, CreateBeginStep, JoinBeginStep, ThreadStartStep, ThreadEndStep DEF Next

\* What makes the calls safe to interleave holds at every point of each of them,
\* for any number of threads and of objects, on both systems: no two callers are
\* in calls about one thread, an object serves one thread at a time, and every
\* reference and every set of attributes is accounted for.
THEOREM Inductive == Spec => []IInv
<1>1. Init => StrongInv
  BY InitInv
<1>2. StrongInv /\ [Next]_vars => StrongInv'
  BY NextInv
<1>3. StrongInv => IInv
  BY DEF StrongInv
<1> QED
  BY <1>1, <1>2, <1>3, PTL DEF Spec

LEMMA Strong == Spec => []StrongInv
<1>1. Init => StrongInv
  BY InitInv
<1>2. StrongInv /\ [Next]_vars => StrongInv'
  BY NextInv
<1> QED
  BY <1>1, <1>2, PTL DEF Spec

\* Every thread runs with the argument it was created with: on Windows it finds
\* it in its object, whenever it gets to read it (cop_thread.h:193-196).
THEOREM Arguments == Spec => []RunsAsCreated
<1>1. StrongInv => RunsAsCreated
  BY DEF StrongInv
<1> QED
  BY <1>1, Strong, PTL

\* Whichever call of a creation fails, its attributes are released, and nobody
\* keeps a handle of a detached thread, of a joined one or of none.
THEOREM NoReferenceLeaks == Spec => []NothingKept
<1>1. StrongInv => NothingKept
  BY DEF StrongInv
<1> QED
  BY <1>1, Strong, PTL

-----------------------------------------------------------------------------
(* The answers of calls. *)

\* A caller that is told of a failed creation has no thread.
LEMMA FailureTold ==
  ASSUME StrongInv, NEW c \in Callers, NEW rc \in Codes \ {"ok"},
         call[c].op \in {"attr_init", "spawn", "attr_destroy"},
         status[call[c].t] = "asked", CreateFailed(c, rc), UNCHANGED result
  PROVE  /\ answer'[c].rc # "ok" /\ status'[call[c].t] = "none"
         /\ result[call[c].t] = NULL
<1>1. call[c].t \in Threads
  BY InCall DEF StrongInv, IInv
<1>2. Answer(c, rc, NULL) /\ status' = [status EXCEPT ![call[c].t] = "none"]
  BY DEF CreateFailed
<1>3. answer'[c] = [rc |-> rc, val |-> NULL]
  BY <1>2, AnswerFacts DEF StrongInv, IInv
<1> QED
  BY <1>1, <1>2, <1>3 DEF StrongInv, IInv, TypeOK, Started

LEMMA CodeTold ==
  ASSUME TypeOK, NEW c \in Callers, NEW rc \in Codes, Answer(c, rc, NULL)
  PROVE  answer'[c].rc = rc
<1>1. answer'[c] = [rc |-> rc, val |-> NULL]
  BY AnswerFacts
<1> QED
  BY <1>1

\* Only its own steps end a caller's call.
LEMMA OwnSteps ==
  ASSUME StrongInv, [Next]_vars, NEW c \in Callers, call[c] # Idle, call'[c] = Idle
  PROVE  Creating(c) \/ Joined(c)
<1> USE DEF StrongInv, IInv
<1>1. ASSUME NEW b \in Callers, Creating(b) \/ Joined(b), b # c
      PROVE  call'[c] = call[c]
  <2>1. CASE AttrInit(b) \/ AttrDestroy(b) \/ WindowsRefused(b)
    BY <1>1, <2>1 DEF AttrInit, AttrDestroy, WindowsRefused, CreateFailed, Goto, Answer, TypeOK
  <2>2. CASE PosixRefused(b) \/ PosixSpawn(b) \/ WindowsSpawn(b)
    BY <1>1, <2>2 DEF PosixRefused, PosixSpawn, WindowsSpawn, Goto, Answer, TypeOK
  <2>3. CASE CloseDetached(b) \/ Joined(b)
    BY <1>1, <2>3 DEF CloseDetached, Joined, JoinEnd, JoinFailed, JoinDeadlock, Answer, TypeOK
  <2> QED
    BY <1>1, <2>1, <2>2, <2>3 DEF Creating
<1>2. ASSUME NEW b \in Callers, NEW t \in Threads, NEW o \in Objects, NEW a \in Args,
             NEW d \in BOOLEAN, CreateBegin(b, t, o, a, d)
      PROVE  call'[c] = call[c]
  BY <1>2 DEF CreateBegin, Goto, Free, TypeOK, Idle
<1>3. ASSUME NEW b \in Callers, NEW t \in Threads, JoinBegin(b, t)
      PROVE  call'[c] = call[c]
  BY <1>3 DEF JoinBegin, Goto, Free, TypeOK, Idle
<1>4. CASE UNCHANGED vars
  BY <1>4 DEF vars
<1> SUFFICES ASSUME ~(Creating(c) \/ Joined(c)) PROVE call'[c] = call[c]
  OBVIOUS
<1>5. CASE \E b \in Callers : Creating(b) \/ Joined(b)
  BY <1>1, <1>5
<1>6. CASE \E b \in Callers, t \in Threads : JoinBegin(b, t)
  BY <1>3, <1>6
<1>7. CASE \E b \in Callers, t \in Threads, o \in Objects, a \in Args, d \in BOOLEAN :
             CreateBegin(b, t, o, a, d)
  BY <1>2, <1>7
<1>8. CASE \E t \in Threads : ThreadStart(t) \/ \E v \in Values : ThreadEnd(t, v)
  <2>1. PICK t \in Threads : ThreadStart(t) \/ \E v \in Values : ThreadEnd(t, v)
    BY <1>8
  <2> QED
    BY <2>1 DEF ThreadStart, ThreadEnd
<1> QED
  BY <1>4, <1>5, <1>6, <1>7, <1>8 DEF Next

\* What each of those steps answers.
LEMMA AnswerStep ==
  ASSUME StrongInv, [Next]_vars, NEW c \in Callers, call[c] # Idle, call'[c] = Idle
  PROVE  IF call[c].op = "join"
           THEN answer'[c].rc = "ok" => status[call[c].t] = "ended"
           ELSE (answer'[c].rc = "ok") <=>
                  \/ status'[call[c].t] \in {"ready", "running", "ended"}
                  \/ asked[call[c].t].detached /\ result[call[c].t] # NULL
<1> DEFINE t == call[c].t
<1> USE DEF StrongInv, IInv
<1>1. t \in Threads /\ (Creating(c) \/ Joined(c))
  BY InCall, OwnSteps
<1>2. \A x : Goto(c, x) => call'[c] = x
  BY DEF Goto, TypeOK
<1>3. CASE AttrInit(c)
  <2>1. CreateFailed(c, "RESOURCE") /\ UNCHANGED result /\ call[c].op = "attr_init"
    BY <1>2, <1>3 DEF AttrInit, Idle
  <2>2. status[t] = "asked"
    BY <2>1 DEF CallsInPhase
  <2> QED
    BY <2>1, <2>2, FailureTold DEF Codes
<1>4. ~PosixRefused(c) /\ ~PosixSpawn(c)
  BY <1>2 DEF PosixRefused, PosixSpawn, Idle
<1>5. CASE AttrDestroy(c)
  <2>1. call[c].op = "attr_destroy" /\ (call[c].err # "ok" <=> status[t] = "asked")
        /\ UNCHANGED result
    BY <1>5 DEF AttrDestroy, CallsInPhase
  <2>2. CASE call[c].err # "ok"
    <3>1. call[c].err \in Codes \ {"ok"}
      BY <2>1, <2>2 DEF TypeOK, CallOK, Codes, Idle
    <3>2. CreateFailed(c, call[c].err)
      BY <1>5, <2>2 DEF AttrDestroy
    <3> QED
      BY <2>1, <2>2, <3>1, <3>2, FailureTold
  <2>3. CASE call[c].err = "ok"
    <3>1. Answer(c, "ok", NULL) /\ UNCHANGED status
      BY <1>5, <2>3 DEF AttrDestroy
    <3>2. answer'[c].rc = "ok"
      BY <3>1, CodeTold DEF Codes
    <3>3. \/ status[t] \in {"ready", "running", "ended"}
          \/ asked[t].detached /\ result[t] # NULL
      <4>1. /\ kept[t] = 1 \/ asked[t].detached
            /\ status[t] \in {"ready", "running", "ended"} \/ result[t] # NULL
        BY <2>1, <2>3 DEF Started
      <4>2. kept[t] = 1 => status[t] \in {"ready", "running", "ended"}
        BY <1>1 DEF ReferencesMatch
      <4> QED
        BY <4>1, <4>2
    <3> QED
      BY <2>1, <3>1, <3>2, <3>3
  <2> QED
    BY <2>2, <2>3
<1>6. CASE WindowsRefused(c)
  <2>1. CreateFailed(c, "UNKNOWN") /\ UNCHANGED result /\ call[c].op = "spawn"
    BY <1>6 DEF WindowsRefused
  <2>2. status[t] = "asked"
    BY <2>1 DEF CallsInPhase
  <2> QED
    BY <2>1, <2>2, FailureTold DEF Codes
<1>7. CASE WindowsSpawn(c)
  <2>1. Answer(c, "ok", NULL) /\ call[c].op = "spawn"
    BY <1>2, <1>7 DEF WindowsSpawn, Idle
  <2>2. answer'[c].rc = "ok"
    BY <2>1, CodeTold DEF Codes
  <2>3. status'[t] = "ready"
    BY <1>1, <1>7 DEF WindowsSpawn, TypeOK
  <2> QED
    BY <2>1, <2>2, <2>3
<1>8. CASE CloseDetached(c)
  <2>1. Answer(c, "ok", NULL) /\ call[c].op = "close" /\ Release(t, status[t])
    BY <1>8 DEF CloseDetached
  <2>2. answer'[c].rc = "ok"
    BY <2>1, CodeTold DEF Codes
  <2>3. asked[t].detached /\ status[t] \in {"ready", "running", "ended"}
    BY <1>1, <2>1 DEF CallsInPhase, ReferencesMatch
  <2>4. status'[t] = IF status[t] = "ended" THEN "none" ELSE status[t]
    BY <1>1, <2>1 DEF Release, TypeOK
  <2>5. status[t] = "ended" => result[t] # NULL
    BY <1>1 DEF Started
  <2> QED
    BY <2>1, <2>2, <2>3, <2>4, <2>5
<1>9. CASE JoinEnd(c)
  BY <1>9 DEF JoinEnd
<1>10. CASE JoinFailed(c) \/ JoinDeadlock(c)
  <2>1. PICK rc \in Codes \ {"ok"} : Answer(c, rc, NULL) /\ call[c].op = "join"
    BY <1>10 DEF JoinFailed, JoinDeadlock, Codes
  <2> QED
    BY <2>1, CodeTold
<1> QED
  BY <1>1, <1>3, <1>4, <1>5, <1>6, <1>7, <1>8, <1>9, <1>10 DEF Creating, Joined

\* A creation reports success if and only if it started the thread, although
\* the thread may have ended before cop_thread_create returns, and a join
\* reports it only for a thread that has ended.
THEOREM TrueAnswers == Spec => AnswersTrue
<1>1. StrongInv /\ [Next]_vars =>
        \A c \in Callers : call[c] # Idle /\ call'[c] = Idle =>
          IF call[c].op = "join"
            THEN answer'[c].rc = "ok" => status[call[c].t] = "ended"
            ELSE (answer'[c].rc = "ok") <=>
                   \/ status'[call[c].t] \in {"ready", "running", "ended"}
                   \/ asked[call[c].t].detached /\ result[call[c].t] # NULL
  BY AnswerStep
<1> QED
  BY <1>1, Strong, PTL DEF Spec, AnswersTrue

=============================================================================
