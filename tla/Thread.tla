------------------------------- MODULE Thread -------------------------------
(***************************************************************************)
(* Creation, result and end of threads through cop_thread.h, over pthreads *)
(* or over Win32.  Any thread may create and join others while they start, *)
(* run and end.  A cop_thread is an object of the caller's memory: on      *)
(* Windows the new thread takes its argument from it and leaves its result *)
(* there.                                                                  *)
(***************************************************************************)
EXTENDS Naturals

CONSTANTS
  Main,       \* The thread the program starts with.
  Threads,    \* Those it may create.
  Objects,    \* cop_thread objects.
  Args,       \* Arguments of a thread.
  Values,     \* What its function may return.
  NULL

Callers == Threads \cup {Main}

ASSUME ConstantsOK ==
  Main \notin Threads /\ NULL \notin Args \cup Values \cup Threads \cup Objects

VARIABLES
  platform,   \* "posix" or "windows".
  status,     \* Of every thread: "none", "asked", "ready", "running", "ended".
  kept,       \* References to it not given back: a HANDLE, a joinable pthread_t.
  result,     \* What its function returned.
  at,         \* The cop_thread object it was created in.
  asked,      \* History: the argument it was created with, if it is detached,
  took,       \* ... and the argument its function was called with.
  obj,        \* Of every object: its arg and its ret, on Windows.
  attrs,      \* The callers that have a pthread_attr_t initialised.
  call,       \* What every caller is doing.
  answer      \* What its last call returned: an error code and a result.

client_vars == <<at, asked>>
kernel_vars == <<status, kept, result, took>>
vars == <<platform, kernel_vars, client_vars, obj, attrs, call, answer>>

Windows == platform = "windows"
Idle == [op |-> "idle"]
None == [rc |-> "ok", val |-> NULL]

Init ==
  /\ platform \in {"posix", "windows"}
  /\ status = [t \in Threads |-> "none"] /\ kept = [t \in Threads |-> 0]
  /\ result = [t \in Threads |-> NULL] /\ took = [t \in Threads |-> NULL]
  /\ at = [t \in Threads |-> NULL]
  /\ asked = [t \in Threads |-> [arg |-> NULL, detached |-> FALSE]]
  /\ obj = [o \in Objects |-> [arg |-> NULL, ret |-> NULL]]
  /\ attrs = {}
  /\ call = [c \in Callers |-> Idle]
  /\ answer = [c \in Callers |-> None]

\* A thread that exists and is in no call may make one.
Free(c) == call[c] = Idle /\ (c # Main => status[c] = "running")

Goto(c, x) == call' = [call EXCEPT ![c] = x] /\ UNCHANGED answer
Answer(c, rc, val) ==
  /\ call' = [call EXCEPT ![c] = Idle]
  /\ answer' = [answer EXCEPT ![c] = [rc |-> rc, val |-> val]]

\* A thread that has ended and that nobody refers to is no more.
Release(t, now) ==
  /\ kept' = [kept EXCEPT ![t] = 0]
  /\ status' = [status EXCEPT ![t] = IF now = "ended" THEN "none" ELSE now]

-----------------------------------------------------------------------------
(* cop_thread_create *)

\* A thread that does not exist and that no call is about.
Unused(t) == status[t] = "none" /\ \A b \in Callers : call[b] # Idle => call[b].t # t
InUse(o) == \E t \in Threads : ~Unused(t) /\ at[t] = o

\* Slip: the object is not filled in.
CreateBeginEmpty(c, t, o, a, d) ==
  /\ Free(c) /\ Unused(t) /\ ~InUse(o)
  /\ status' = [status EXCEPT ![t] = "asked"]
  /\ took' = [took EXCEPT ![t] = NULL] /\ result' = [result EXCEPT ![t] = NULL]
  /\ at' = [at EXCEPT ![t] = o]
  /\ asked' = [asked EXCEPT ![t] = [arg |-> a, detached |-> d]]
  /\ Goto(c, [op |-> IF Windows THEN "spawn" ELSE "attr_init", t |-> t])
  /\ UNCHANGED <<platform, kept, attrs, obj>>

\* A caller keeps an object for one thread until that thread has ended and, if
\* it is to be joined, was joined.  On Windows the object is filled in first.
CreateBegin(c, t, o, a, d) ==
  /\ Free(c) /\ Unused(t) /\ ~InUse(o)
  /\ status' = [status EXCEPT ![t] = "asked"]
  /\ took' = [took EXCEPT ![t] = NULL] /\ result' = [result EXCEPT ![t] = NULL]
  /\ at' = [at EXCEPT ![t] = o]
  /\ asked' = [asked EXCEPT ![t] = [arg |-> a, detached |-> d]]
  /\ obj' = IF Windows THEN [obj EXCEPT ![o].arg = a] ELSE obj
  /\ Goto(c, [op |-> IF Windows THEN "spawn" ELSE "attr_init", t |-> t])
  /\ UNCHANGED <<platform, kept, attrs>>

\* The end of a creation that failed: the thread does not exist.
CreateFailed(c, rc) ==
  /\ Answer(c, rc, NULL)
  /\ status' = [status EXCEPT ![call[c].t] = "none"]

AttrInit(c) ==
  /\ call[c].op = "attr_init"
  /\ \/ /\ attrs' = attrs \cup {c}
        /\ Goto(c, [op |-> "spawn", t |-> call[c].t])
        /\ UNCHANGED status
     \/ CreateFailed(c, "RESOURCE") /\ UNCHANGED attrs
  /\ UNCHANGED <<platform, kept, result, took, client_vars, obj>>

\* Slip: a refusal returns at once.
PosixRefusedReturns(c) ==
  /\ call[c].op = "spawn" /\ ~Windows
  /\ \E e \in {"RANGE", "UNKNOWN", "PERMISSIONS", "RESOURCE"} : CreateFailed(c, e)
  /\ UNCHANGED <<platform, kept, result, took, client_vars, obj, attrs>>

\* The stack size is out of range, the detach state is refused, or
\* pthread_create fails: err is set and the calls that depend on it are skipped.
PosixRefused(c) ==
  /\ call[c].op = "spawn" /\ ~Windows
  /\ \E e \in {"RANGE", "UNKNOWN", "PERMISSIONS", "RESOURCE"} :
       Goto(c, [op |-> "attr_destroy", t |-> call[c].t, err |-> e])
  /\ UNCHANGED <<platform, kernel_vars, client_vars, obj, attrs>>

PosixSpawn(c) ==
  LET t == call[c].t
  IN  /\ call[c].op = "spawn" /\ ~Windows
      /\ status' = [status EXCEPT ![t] = "ready"]
      /\ kept' = [kept EXCEPT ![t] = IF asked[t].detached THEN 0 ELSE 1]
      /\ Goto(c, [op |-> "attr_destroy", t |-> t, err |-> "ok"])
      /\ UNCHANGED <<platform, result, took, client_vars, obj, attrs>>

\* Slip: the error of pthread_create is lost to that of pthread_attr_destroy.
AttrDestroyForgets(c) ==
  /\ call[c].op = "attr_destroy"
  /\ attrs' = attrs \ {c}
  /\ IF call[c].err = "ok" THEN Answer(c, "ok", NULL) /\ UNCHANGED status
                           ELSE CreateFailed(c, "ok")
  /\ UNCHANGED <<platform, kept, result, took, client_vars, obj>>

AttrDestroy(c) ==
  /\ call[c].op = "attr_destroy"
  /\ attrs' = attrs \ {c}
  /\ IF call[c].err = "ok" THEN Answer(c, "ok", NULL) /\ UNCHANGED status
                           ELSE CreateFailed(c, call[c].err)
  /\ UNCHANGED <<platform, kept, result, took, client_vars, obj>>

WindowsRefused(c) ==
  /\ call[c].op = "spawn" /\ Windows
  /\ CreateFailed(c, "UNKNOWN")
  /\ UNCHANGED <<platform, kept, result, took, client_vars, obj, attrs>>

WindowsSpawn(c) ==
  LET t == call[c].t
  IN  /\ call[c].op = "spawn" /\ Windows
      /\ status' = [status EXCEPT ![t] = "ready"]
      /\ kept' = [kept EXCEPT ![t] = 1]
      /\ IF asked[t].detached THEN Goto(c, [op |-> "close", t |-> t])
                              ELSE Answer(c, "ok", NULL)
      /\ UNCHANGED <<platform, result, took, client_vars, obj, attrs>>

\* A detached thread may have ended before its creator closes the handle.
CloseDetached(c) ==
  LET t == call[c].t
  IN  /\ call[c].op = "close"
      /\ Release(t, status[t])
      /\ Answer(c, "ok", NULL)
      /\ UNCHANGED <<platform, result, took, client_vars, obj, attrs>>

-----------------------------------------------------------------------------
(* The life of a thread. *)

\* On Windows cop_win_thread_proc reads the object it was given the address of.
ThreadStart(t) ==
  /\ status[t] = "ready"
  /\ status' = [status EXCEPT ![t] = "running"]
  /\ took' = [took EXCEPT ![t] = IF Windows THEN obj[at[t]].arg ELSE asked[t].arg]
  /\ UNCHANGED <<platform, kept, result, client_vars, obj, attrs, call, answer>>

\* ... and writes there what the function returned.
ThreadEnd(t, v) ==
  /\ status[t] = "running" /\ call[t] = Idle
  /\ status' = [status EXCEPT ![t] = IF kept[t] = 0 THEN "none" ELSE "ended"]
  /\ result' = [result EXCEPT ![t] = v]
  /\ obj' = IF Windows THEN [obj EXCEPT ![at[t]].ret = v] ELSE obj
  /\ UNCHANGED <<platform, kept, took, client_vars, attrs, call, answer>>

-----------------------------------------------------------------------------
(* cop_thread_join *)

\* A thread may be joined when its creation has returned, by one thread, if it
\* is not detached.  The object is passed by value: on Windows with its ret.
JoinBegin(c, t) ==
  /\ Free(c)
  /\ status[t] \in {"ready", "running", "ended"} /\ ~asked[t].detached
  /\ kept[t] > 0
  /\ \A b \in Callers : call[b] # Idle => call[b].t # t
  /\ Goto(c, [op |-> "join", t |-> t, copy |-> obj[at[t]].ret])
  /\ UNCHANGED <<platform, kernel_vars, client_vars, obj, attrs>>

\* Slip: on Windows the handle is not closed.
JoinEndKeepHandle(c) ==
  LET t == call[c].t
  IN  /\ call[c].op = "join" /\ status[t] = "ended"
      /\ Answer(c, "ok", IF Windows THEN call[c].copy ELSE result[t])
      /\ status' = [status EXCEPT ![t] = "none"]
      /\ kept' = IF Windows THEN kept ELSE [kept EXCEPT ![t] = 0]
      /\ UNCHANGED <<platform, result, took, client_vars, obj, attrs>>

JoinEnd(c) ==
  LET t == call[c].t
  IN  /\ call[c].op = "join" /\ status[t] = "ended"
      /\ Answer(c, "ok", IF Windows THEN call[c].copy ELSE result[t])
      /\ Release(t, status[t])
      /\ UNCHANGED <<platform, result, took, client_vars, obj, attrs>>

\* WaitForSingleObject fails: the handle is closed all the same.
JoinFailed(c) ==
  LET t == call[c].t
  IN  /\ call[c].op = "join" /\ Windows
      /\ Answer(c, "UNKNOWN", NULL)
      /\ Release(t, status[t])
      /\ UNCHANGED <<platform, result, took, client_vars, obj, attrs>>

\* pthread_join finds that the other thread, or this one, is waiting for this one.
JoinDeadlock(c) ==
  /\ call[c].op = "join" /\ ~Windows
  /\ call[call[c].t].op = "join" /\ call[call[c].t].t = c
  /\ Answer(c, "DEADLOCK", NULL)
  /\ UNCHANGED <<platform, kernel_vars, client_vars, obj, attrs>>

-----------------------------------------------------------------------------
Creating(c) ==
  \/ AttrInit(c) \/ PosixRefused(c) \/ PosixSpawn(c) \/ AttrDestroy(c)
  \/ WindowsRefused(c) \/ WindowsSpawn(c) \/ CloseDetached(c)

Joined(c) == JoinEnd(c) \/ JoinFailed(c) \/ JoinDeadlock(c)

Next ==
  \/ \E c \in Callers, t \in Threads, o \in Objects, a \in Args, d \in BOOLEAN :
       CreateBegin(c, t, o, a, d)
  \/ \E c \in Callers : Creating(c) \/ Joined(c)
  \/ \E c \in Callers, t \in Threads : JoinBegin(c, t)
  \/ \E t \in Threads : ThreadStart(t) \/ \E v \in Values : ThreadEnd(t, v)

Spec == Init /\ [][Next]_vars

-----------------------------------------------------------------------------
(* What threads, handles and answers may be. *)

CallOK(x) ==
  \/ x = Idle
  \/ x.op \in {"attr_init", "spawn", "close"} /\ x.t \in Threads
  \/ /\ x.op = "attr_destroy" /\ x.t \in Threads
     /\ x.err \in {"ok", "RANGE", "UNKNOWN", "PERMISSIONS", "RESOURCE"}
  \/ x.op = "join" /\ x.t \in Threads /\ x.copy \in Values \cup {NULL}

TypeOK ==
  /\ platform \in {"posix", "windows"}
  /\ status \in [Threads -> {"none", "asked", "ready", "running", "ended"}]
  /\ kept \in [Threads -> {0, 1}]
  /\ result \in [Threads -> Values \cup {NULL}]
  /\ took \in [Threads -> Args \cup {NULL}]
  /\ at \in [Threads -> Objects \cup {NULL}]
  /\ asked \in [Threads -> [arg : Args \cup {NULL}, detached : BOOLEAN]]
  /\ obj \in [Objects -> [arg : Args \cup {NULL}, ret : Values \cup {NULL}]]
  /\ attrs \subseteq Callers
  /\ call = [c \in Callers |-> call[c]] /\ \A c \in Callers : CallOK(call[c])
  /\ answer \in [Callers -> [rc : {"ok", "RANGE", "UNKNOWN", "PERMISSIONS",
                                   "RESOURCE", "DEADLOCK"},
                             val : Values \cup {NULL}]]

\* What each of its calls finds: creation and join are about threads in
\* different phases, and no two callers are in calls about one thread.
CallsInPhase ==
  \A c \in Callers : call[c] # Idle =>
    LET t == call[c].t
    IN  /\ c # Main => status[c] = "running"
        /\ \A b \in Callers \ {c} : call[b] # Idle => call[b].t # t
        /\ call[c].op = "attr_init" => ~Windows /\ status[t] = "asked"
        /\ call[c].op = "spawn" => status[t] = "asked"
        /\ call[c].op = "attr_destroy" =>
             ~Windows /\ (call[c].err # "ok" <=> status[t] = "asked")
        /\ call[c].op = "close" => Windows /\ asked[t].detached /\ kept[t] = 1
        /\ call[c].op = "join" => ~asked[t].detached /\ kept[t] = 1

\* Every thread that has begun to be created has an object of its own, which
\* on Windows holds its argument until it has started, however long ago
\* cop_thread_create returned.
ObjectsOwned ==
  LET used == {t \in Threads : status[t] # "none"}
  IN  /\ \A t, u \in used : t # u => at[t] # at[u]
      /\ \A t \in used : at[t] # NULL
      /\ Windows => \A t \in Threads :
           status[t] \in {"asked", "ready"} => obj[at[t]].arg = asked[t].arg

\* A creation in progress has its attributes, and they are nobody else's; a
\* thread that ended stays while it is referred to.
ReferencesMatch ==
  /\ attrs = {c \in Callers : ~Windows /\ call[c].op \in {"spawn", "attr_destroy"}}
  /\ \A t \in Threads :
       /\ kept[t] = 1 => status[t] \in {"ready", "running", "ended"}
       /\ status[t] = "ended" => kept[t] = 1
       /\ status[t] = "asked" =>
            \E c \in Callers : call[c] # Idle /\ call[c].t = t

\* What makes the calls safe to interleave, at every point of each of them.
IInv == TypeOK /\ CallsInPhase /\ ObjectsOwned /\ ReferencesMatch

\* A thread runs with the argument it was created with, although on Windows it
\* reads it some time after cop_thread_create has returned, from an object its
\* creator owns and has used for other threads before.
RunsAsCreated ==
  \A t \in Threads : status[t] \in {"running", "ended"} => took[t] = asked[t].arg

\* Nothing is left behind: a creation releases its attributes on each of its
\* paths; a detached thread has no handle once its creator was told so, and a
\* thread that was joined or was never created has none (cop_thread.h:111-120).
NothingKept ==
  /\ \A c \in attrs : call[c].op \in {"spawn", "attr_destroy"}
  /\ \A t \in Threads :
       kept[t] = 0 \/ /\ status[t] \notin {"none", "asked"}
                      /\ \/ ~asked[t].detached
                         \/ \E c \in Callers : call[c] = [op |-> "close", t |-> t]

\* A creation reports success if and only if it started the thread, whichever
\* of its calls failed; a join does so only when the thread has ended
\* (cop_thread.h:118).
AnswersTrue ==
  [][\A c \in Callers : call[c] # Idle /\ call'[c] = Idle =>
       IF call[c].op = "join"
         THEN answer'[c].rc = "ok" => status[call[c].t] = "ended"
         ELSE (answer'[c].rc = "ok") <=>
                \/ status'[call[c].t] \in {"ready", "running", "ended"}
                \/ asked[call[c].t].detached /\ result[call[c].t] # NULL]_vars

\* A join that succeeds gives the value the thread's function returned.
JoinGivesResult ==
  [][\A c \in Callers : call[c].op = "join" /\ call'[c] = Idle /\ answer'[c].rc = "ok"
       => answer'[c].val = result[call[c].t]]_vars
=============================================================================
