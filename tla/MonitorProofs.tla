---------------------------- MODULE MonitorProofs ----------------------------
(***************************************************************************)
(* Proofs about Monitor, for any threads, turns and capacity: the          *)
(* invariant is inductive, and the store changes as that of Buffer does.   *)
(* That everyone is served rests on fairness and is left to TLC.           *)
(***************************************************************************)
EXTENDS Monitor, TLAPS

USE MonitorConstants DEF MonitorConstants

\* At the start nothing has been created and nobody runs.
LEMMA InitInv == Init => IInv
<1> SUFFICES ASSUME Init PROVE IInv
  OBVIOUS
<1>1. TypeOK
  <2>1. mutex \in [live : BOOLEAN, owner : Threads \cup {NULL}, depth : Nat]
    BY DEF Init
  <2>2. cond \in [Conds -> [live : BOOLEAN, asleep : SUBSET Threads]]
    BY DEF Init
  <2>3. level \in 0 .. Capacity /\ saw \in [Threads -> 0 .. Capacity]
    BY DEF Init
  <2>4. spurious \in 0 .. MaxSpurious
    BY DEF Init
  <2>5. pc \in [Threads -> {"idle", "locking", "trying", "test", "act", "helper",
                         "nested", "notify", "unlock", "unlocked", "asleep", "woken"}]
    BY DEF Init
  <2> QED
    BY <2>1, <2>2, <2>3, <2>4, <2>5 DEF Init, TypeOK
<1>2. LockInv
  BY DEF Init, LockInv, Inside
<1>3. WaitInv
  BY DEF Init, WaitInv
<1>4. LifeInv
  BY DEF Init, LifeInv
<1> QED
  BY <1>1, <1>2, <1>3, <1>4 DEF Init, IInv

\* While nobody runs, nobody is inside, asleep or about to unlock.
LEMMA NobodyRuns ==
  ASSUME IInv, phase # "run"
  PROVE  /\ \A t \in Threads : pc[t] = "idle"
         /\ mutex.owner = NULL /\ mutex.depth = 0
         /\ late = {}
         /\ \A c \in Conds : cond[c].asleep = {}
<1>1. \A t \in Threads : pc[t] = "idle"
  BY DEF IInv, LifeInv
<1>2. mutex.owner = NULL /\ mutex.depth = 0
  BY <1>1 DEF IInv, LockInv, TypeOK, Inside
<1>3. late = {}
  BY <1>1 DEF IInv, LifeInv, TypeOK
<1>4. \A c \in Conds : cond[c].asleep = {}
  BY <1>1 DEF IInv, WaitInv
<1> QED
  BY <1>1, <1>2, <1>3, <1>4

\* Each step of the main thread leaves the threads as they are.
LEMMA MutexCreateStep ==
  ASSUME IInv, MutexCreate
  PROVE  IInv'
<1> USE DEF MutexCreate, Answers, TranslateErr, IInv, store_vars
<1>1. TypeOK'
  <2>1. PICK err \in Answers : mutex' = [mutex EXCEPT !.live = (err = "ok")]
    OBVIOUS
  <2>2. mutex' = [mutex EXCEPT !.live = TRUE] \/ mutex' = [mutex EXCEPT !.live = FALSE]
    BY <2>1
  <2>3. mutex' \in [live : BOOLEAN, owner : Threads \cup {NULL}, depth : Nat]
    BY <2>2 DEF TypeOK
  <2> QED
    BY <2>3 DEF TypeOK
<1>2. LockInv'
  BY NobodyRuns DEF TypeOK, LockInv, Inside, B!Ready
<1>3. WaitInv'
  BY NobodyRuns DEF TypeOK, WaitInv, WaitsOn, Used, Conds
<1>4. LifeInv'
  BY NobodyRuns DEF TypeOK, LifeInv, LockInv, WaitInv, Used, Conds
<1>5. ~misused'
  BY NobodyRuns DEF TypeOK, LifeInv, Used, Conds
<1> QED
  BY <1>1, <1>2, <1>3, <1>4, <1>5

LEMMA JoinedStep ==
  ASSUME IInv, Joined
  PROVE  IInv'
<1> USE DEF Joined, Idle, IInv, store_vars
<1>1. TypeOK'
  BY NobodyRuns DEF TypeOK, Used, Conds
<1>2. LockInv'
  BY NobodyRuns DEF TypeOK, LockInv, Inside, B!Ready
<1>3. WaitInv'
  BY NobodyRuns DEF TypeOK, WaitInv, WaitsOn, Used, Conds
<1>4. LifeInv'
  BY NobodyRuns DEF TypeOK, LifeInv, LockInv, WaitInv, Used, Conds
<1>5. ~misused'
  BY NobodyRuns DEF TypeOK, LifeInv, Used, Conds
<1> QED
  BY <1>1, <1>2, <1>3, <1>4, <1>5

LEMMA MutexDestroyStep ==
  ASSUME IInv, MutexDestroy
  PROVE  IInv'
<1> USE DEF MutexDestroy, Legal, IInv, store_vars
<1>1. TypeOK'
  BY NobodyRuns DEF TypeOK, Used, Conds
<1>2. LockInv'
  BY NobodyRuns DEF TypeOK, LockInv, Inside, B!Ready
<1>3. WaitInv'
  BY NobodyRuns DEF TypeOK, WaitInv, WaitsOn, Used, Conds
<1>4. LifeInv'
  BY NobodyRuns DEF TypeOK, LifeInv, LockInv, WaitInv, Used, Conds
<1>5. ~misused'
  BY NobodyRuns DEF TypeOK, LifeInv, Used, Conds
<1> QED
  BY <1>1, <1>2, <1>3, <1>4, <1>5

LEMMA CondCreateStep ==
  ASSUME IInv, NEW c \in Used, CondCreate(c)
  PROVE  IInv'
<1> USE DEF CondCreate, Legal, Answers, IInv, store_vars
<1>1. TypeOK'
  BY NobodyRuns DEF TypeOK, Used, Conds
<1>2. LockInv'
  BY NobodyRuns DEF TypeOK, LockInv, Inside, B!Ready
<1>3. WaitInv'
  BY NobodyRuns DEF TypeOK, WaitInv, WaitsOn, Used, Conds
<1>4. LifeInv'
  BY NobodyRuns DEF TypeOK, LifeInv, LockInv, WaitInv, Used, Conds
<1>5. ~misused'
  BY NobodyRuns DEF TypeOK, LifeInv, Used, Conds
<1> QED
  BY <1>1, <1>2, <1>3, <1>4, <1>5

LEMMA CondDestroyStep ==
  ASSUME IInv, NEW c \in Used, CondDestroy(c)
  PROVE  IInv'
<1> USE DEF CondDestroy, Legal, main_vars, IInv, store_vars
<1>1. TypeOK'
  <2>1. c \in Conds
    BY DEF Used, Conds
  <2>2. cond' \in [Conds -> [live : BOOLEAN, asleep : SUBSET Threads]]
    <3>1. cond[c] \in [live : BOOLEAN, asleep : SUBSET Threads]
      BY <2>1 DEF TypeOK
    <3>2. [cond[c] EXCEPT !.live = FALSE] \in [live : BOOLEAN, asleep : SUBSET Threads]
      BY ONLY <3>1
    <3>3. cond' = [cond EXCEPT ![c] = [cond[c] EXCEPT !.live = FALSE]]
      OBVIOUS
    <3>4. cond \in [Conds -> [live : BOOLEAN, asleep : SUBSET Threads]]
      BY DEF TypeOK
    <3> QED
      BY <2>1, <3>2, <3>3, <3>4
  <2>3. misused' \in BOOLEAN
    BY DEF TypeOK
  <2> QED
    BY <2>2, <2>3 DEF TypeOK
<1>2. LockInv'
  BY NobodyRuns DEF TypeOK, LockInv, Inside, B!Ready
<1>3. WaitInv'
  BY NobodyRuns DEF TypeOK, WaitInv, WaitsOn, Used, Conds
<1>4. LifeInv'
  BY NobodyRuns DEF TypeOK, LifeInv, LockInv, WaitInv, Used, Conds
<1>5. ~misused'
  BY NobodyRuns DEF TypeOK, LifeInv, Used, Conds
<1> QED
  BY <1>1, <1>2, <1>3, <1>4, <1>5

\* Whoever is in the middle of a turn has been let run, and everything he uses
\* exists.
LEMMA RunningFacts ==
  ASSUME IInv, NEW t \in Threads, pc[t] # "idle"
  PROVE  /\ phase = "run" /\ mutex.live
         /\ cond[WaitsOn(t)].live /\ cond[Wakes(t)].live
         /\ WaitsOn(t) \in Conds /\ Wakes(t) \in Conds
<1>1. phase = "run" /\ mutex.live /\ \A c \in Used : cond[c].live
  BY DEF IInv, LifeInv
<1>2. WaitsOn(t) \in Used /\ Wakes(t) \in Used
  BY DEF WaitsOn, Wakes, Used
<1>3. Used \subseteq Conds
  BY DEF Used, Conds
<1> QED
  BY <1>1, <1>2, <1>3

\* A mutex stays one when it is locked and unlocked.
LEMMA MutexTyped ==
  ASSUME TypeOK, NEW t \in Threads
  PROVE  /\ Entered(t) \in [live : BOOLEAN, owner : Threads \cup {NULL}, depth : Nat]
         /\ Left \in [live : BOOLEAN, owner : Threads \cup {NULL}, depth : Nat]
<1>1. mutex.depth \in Nat /\ mutex \in [live : BOOLEAN, owner : Threads \cup {NULL}, depth : Nat]
  BY DEF TypeOK
<1>2. [mutex EXCEPT !.owner = t, !.depth = @ + 1]
        \in [live : BOOLEAN, owner : Threads \cup {NULL}, depth : Nat]
  <2>1. mutex.depth + 1 \in Nat
    BY <1>1
  <2> QED
    BY <1>1, <2>1
<1>3. [mutex EXCEPT !.owner = NULL, !.depth = 0]
        \in [live : BOOLEAN, owner : Threads \cup {NULL}, depth : Nat]
  BY <1>1
<1>4. ASSUME mutex.depth > 1
      PROVE  [mutex EXCEPT !.depth = @ - 1]
               \in [live : BOOLEAN, owner : Threads \cup {NULL}, depth : Nat]
  <2>1. mutex.depth - 1 \in Nat
    BY <1>1, <1>4
  <2> QED
    BY <1>1, <2>1
<1> QED
  BY <1>1, <1>2, <1>3, <1>4 DEF Entered, Left

\* Each step of a turn.

LEMMA BeginStep ==
  ASSUME IInv, NEW t \in Threads, Begin(t)
  PROVE  IInv'
<1> USE DEF Begin, At, IInv, store_vars, main_vars
<1>1. TypeOK'
  BY RunningFacts DEF TypeOK
<1>2. LockInv'
  BY RunningFacts DEF TypeOK, LockInv, LifeInv, Inside, B!Ready
<1>3. WaitInv'
  BY RunningFacts DEF TypeOK, WaitInv, WaitsOn
<1>4. LifeInv'
  BY RunningFacts DEF TypeOK, LifeInv, LockInv, Inside, Used
<1>5. ~misused'
  BY RunningFacts DEF TypeOK, LifeInv, LockInv, Inside
<1> QED
  BY <1>1, <1>2, <1>3, <1>4, <1>5

LEMMA MutexLockStep ==
  ASSUME IInv, NEW t \in Threads, MutexLock(t)
  PROVE  IInv'
<1> USE DEF MutexLock, At, MayEnter, Legal, IInv, store_vars, main_vars
<1>1. TypeOK'
  <2>1. mutex' \in [live : BOOLEAN, owner : Threads \cup {NULL}, depth : Nat]
    BY MutexTyped DEF TypeOK
  <2>2. misused' \in BOOLEAN
    BY DEF TypeOK
  <2> QED
    BY <2>1, <2>2 DEF TypeOK
<1>2. LockInv'
  BY RunningFacts DEF TypeOK, LockInv, LifeInv, Inside, B!Ready, Entered
<1>3. WaitInv'
  BY RunningFacts DEF TypeOK, WaitInv, WaitsOn
<1>4. LifeInv'
  BY RunningFacts DEF TypeOK, LifeInv, LockInv, Inside, Used, Entered
<1>5. ~misused'
  BY RunningFacts DEF TypeOK, LifeInv, LockInv, Inside
<1> QED
  BY <1>1, <1>2, <1>3, <1>4, <1>5

LEMMA MutexTrylockStep ==
  ASSUME IInv, NEW t \in Threads, MutexTrylock(t)
  PROVE  IInv'
<1> USE DEF MutexTrylock, At, MayEnter, Legal, TrylockResult, IInv, store_vars, main_vars
<1>1. TypeOK'
  <2>1. mutex' \in [live : BOOLEAN, owner : Threads \cup {NULL}, depth : Nat]
    BY MutexTyped DEF TypeOK
  <2>2. misused' \in BOOLEAN
    BY DEF TypeOK
  <2> QED
    BY <2>1, <2>2 DEF TypeOK
<1>2. LockInv'
  BY RunningFacts DEF TypeOK, LockInv, LifeInv, Inside, B!Ready, Entered
<1>3. WaitInv'
  BY RunningFacts DEF TypeOK, WaitInv, WaitsOn
<1>4. LifeInv'
  BY RunningFacts DEF TypeOK, LifeInv, LockInv, Inside, Used, Entered
<1>5. ~misused'
  BY RunningFacts DEF TypeOK, LifeInv, LockInv, Inside
<1> QED
  BY <1>1, <1>2, <1>3, <1>4, <1>5

LEMMA TestStep ==
  ASSUME IInv, NEW t \in Threads, Test(t)
  PROVE  IInv'
<1> USE DEF Test, At, IInv, store_vars, main_vars
<1>1. TypeOK'
  BY RunningFacts DEF TypeOK
<1>2. LockInv'
  BY RunningFacts DEF TypeOK, LockInv, LifeInv, Inside, B!Ready
<1>3. WaitInv'
  BY RunningFacts DEF TypeOK, WaitInv, WaitsOn
<1>4. LifeInv'
  BY RunningFacts DEF TypeOK, LifeInv, LockInv, Inside, Used
<1>5. ~misused'
  BY RunningFacts DEF TypeOK, LifeInv, LockInv, Inside
<1> QED
  BY <1>1, <1>2, <1>3, <1>4, <1>5

LEMMA ActStep ==
  ASSUME IInv, NEW t \in Threads, Act(t)
  PROVE  IInv'
<1> USE DEF Act, At, IInv, store_vars, main_vars
<1>1. TypeOK'
  <2>1. saw[t] = level /\ B!Ready(t, level) /\ left[t] > 0
    BY DEF LockInv, LifeInv
  <2>2. level' \in 0 .. Capacity
    BY <2>1 DEF TypeOK, B!Ready, B!Changed
  <2>3. saw' \in [Threads -> 0 .. Capacity]
    BY DEF TypeOK
  <2>4. left' \in [Threads -> Nat]
    BY <2>1 DEF TypeOK
  <2> QED
    BY <2>2, <2>3, <2>4 DEF TypeOK
<1>2. LockInv'
  BY RunningFacts DEF TypeOK, LockInv, LifeInv, Inside, B!Ready
<1>3. WaitInv'
  BY RunningFacts DEF TypeOK, WaitInv, WaitsOn
<1>4. LifeInv'
  BY RunningFacts DEF TypeOK, LifeInv, LockInv, Inside, Used
<1>5. ~misused'
  BY RunningFacts DEF TypeOK, LifeInv, LockInv, Inside
<1> QED
  BY <1>1, <1>2, <1>3, <1>4, <1>5

LEMMA CondWaitStep ==
  ASSUME IInv, NEW t \in Threads, CondWait(t)
  PROVE  IInv'
<1> USE DEF CondWait, At, Legal, IInv, store_vars, main_vars
<1>1. TypeOK'
  <2>1. mutex' \in [live : BOOLEAN, owner : Threads \cup {NULL}, depth : Nat]
    BY MutexTyped DEF TypeOK
  <2>2. misused' \in BOOLEAN
    BY DEF TypeOK
  <2>3. cond' \in [Conds -> [live : BOOLEAN, asleep : SUBSET Threads]]
    BY RunningFacts DEF TypeOK
  <2> QED
    BY <2>1, <2>2, <2>3 DEF TypeOK
<1>2. LockInv'
  BY RunningFacts DEF TypeOK, LockInv, LifeInv, Inside, B!Ready, Left
<1>3. WaitInv'
  BY RunningFacts DEF TypeOK, WaitInv, WaitsOn
<1>4. LifeInv'
  BY RunningFacts DEF TypeOK, LifeInv, LockInv, Inside, Used, Left
<1>5. ~misused'
  BY RunningFacts DEF TypeOK, LifeInv, LockInv, Inside
<1> QED
  BY <1>1, <1>2, <1>3, <1>4, <1>5

LEMMA WakeUpStep ==
  ASSUME IInv, NEW t \in Threads, WakeUp(t)
  PROVE  IInv'
<1> USE DEF WakeUp, At, IInv, store_vars, main_vars
<1>1. TypeOK'
  BY RunningFacts DEF TypeOK
<1>2. LockInv'
  BY RunningFacts DEF TypeOK, LockInv, LifeInv, Inside, B!Ready
<1>3. WaitInv'
  BY RunningFacts DEF TypeOK, WaitInv, WaitsOn
<1>4. LifeInv'
  BY RunningFacts DEF TypeOK, LifeInv, LockInv, Inside, Used
<1>5. ~misused'
  BY RunningFacts DEF TypeOK, LifeInv, LockInv, Inside
<1> QED
  BY <1>1, <1>2, <1>3, <1>4, <1>5

LEMMA CondWaitReturnsStep ==
  ASSUME IInv, NEW t \in Threads, CondWaitReturns(t)
  PROVE  IInv'
<1> USE DEF CondWaitReturns, At, MayEnter, IInv, store_vars, main_vars
<1>1. TypeOK'
  <2>1. mutex' \in [live : BOOLEAN, owner : Threads \cup {NULL}, depth : Nat]
    BY MutexTyped DEF TypeOK
  <2>2. misused' \in BOOLEAN
    BY DEF TypeOK
  <2> QED
    BY <2>1, <2>2 DEF TypeOK
<1>2. LockInv'
  BY RunningFacts DEF TypeOK, LockInv, LifeInv, Inside, B!Ready, Entered
<1>3. WaitInv'
  BY RunningFacts DEF TypeOK, WaitInv, WaitsOn
<1>4. LifeInv'
  BY RunningFacts DEF TypeOK, LifeInv, LockInv, Inside, Used, Entered
<1>5. ~misused'
  BY RunningFacts DEF TypeOK, LifeInv, LockInv, Inside
<1> QED
  BY <1>1, <1>2, <1>3, <1>4, <1>5

LEMMA CondSignalStep ==
  ASSUME IInv, NEW t \in Threads, CondSignal(t)
  PROVE  IInv'
<1> USE DEF CondSignal, Notifying, Legal, IInv, store_vars, main_vars
<1>0. /\ pc' \in [Threads -> {pc[u] : u \in Threads} \cup {"idle", "unlock", "woken"}]
      /\ pc'[t] = IF t \in late THEN "idle" ELSE "unlock"
      /\ \A u \in Threads \ {t} : pc'[u] = pc[u] \/ (pc[u] = "asleep" /\ pc'[u] = "woken")
  <2>1. PICK woken : woken \subseteq cond[Wakes(t)].asleep /\ pc' = AfterNotify(t, woken)
    OBVIOUS
  <2>2. \A u \in woken : u \in Threads /\ pc[u] = "asleep"
    BY <2>1, RunningFacts DEF WaitInv
  <2> QED
    BY <2>1, <2>2 DEF AfterNotify
<1>1. TypeOK'
  BY RunningFacts DEF TypeOK, AfterNotify
<1>2. LockInv'
  BY <1>0 DEF TypeOK, LockInv, LifeInv, Inside, B!Ready
<1>3. WaitInv'
  BY RunningFacts DEF TypeOK, WaitInv, WaitsOn, AfterNotify
<1>4. LifeInv'
  BY <1>0, RunningFacts DEF TypeOK, LifeInv, LockInv, Inside, Used
<1>5. ~misused'
  BY RunningFacts DEF TypeOK, LifeInv, LockInv, Inside
<1> QED
  BY <1>1, <1>2, <1>3, <1>4, <1>5

LEMMA CondBroadcastStep ==
  ASSUME IInv, NEW t \in Threads, CondBroadcast(t)
  PROVE  IInv'
<1> USE DEF CondBroadcast, Notifying, Legal, IInv, store_vars, main_vars
<1>0. /\ pc' \in [Threads -> {pc[u] : u \in Threads} \cup {"idle", "unlock", "woken"}]
      /\ pc'[t] = IF t \in late THEN "idle" ELSE "unlock"
      /\ \A u \in Threads \ {t} : pc'[u] = pc[u] \/ (pc[u] = "asleep" /\ pc'[u] = "woken")
  <2>1. PICK woken : woken \subseteq cond[Wakes(t)].asleep /\ pc' = AfterNotify(t, woken)
    OBVIOUS
  <2>2. \A u \in woken : u \in Threads /\ pc[u] = "asleep"
    BY <2>1, RunningFacts DEF WaitInv
  <2> QED
    BY <2>1, <2>2 DEF AfterNotify
<1>1. TypeOK'
  BY RunningFacts DEF TypeOK, AfterNotify
<1>2. LockInv'
  BY <1>0 DEF TypeOK, LockInv, LifeInv, Inside, B!Ready
<1>3. WaitInv'
  BY RunningFacts DEF TypeOK, WaitInv, WaitsOn, AfterNotify
<1>4. LifeInv'
  BY <1>0, RunningFacts DEF TypeOK, LifeInv, LockInv, Inside, Used
<1>5. ~misused'
  BY RunningFacts DEF TypeOK, LifeInv, LockInv, Inside
<1> QED
  BY <1>1, <1>2, <1>3, <1>4, <1>5

LEMMA MutexUnlockStep ==
  ASSUME IInv, NEW t \in Threads, MutexUnlock(t)
  PROVE  IInv'
<1> USE DEF MutexUnlock, At, Legal, IInv, store_vars, main_vars
<1>1. TypeOK'
  <2>1. mutex' \in [live : BOOLEAN, owner : Threads \cup {NULL}, depth : Nat]
    BY MutexTyped DEF TypeOK
  <2>2. misused' \in BOOLEAN
    BY DEF TypeOK
  <2> QED
    BY <2>1, <2>2 DEF TypeOK
<1>2. LockInv'
  BY RunningFacts DEF TypeOK, LockInv, LifeInv, Inside, B!Ready, Left
<1>3. WaitInv'
  BY RunningFacts DEF TypeOK, WaitInv, WaitsOn
<1>4. LifeInv'
  BY RunningFacts DEF TypeOK, LifeInv, LockInv, Inside, Used, Left
<1>5. ~misused'
  BY RunningFacts DEF TypeOK, LifeInv, LockInv, Inside
<1> QED
  BY <1>1, <1>2, <1>3, <1>4, <1>5

-----------------------------------------------------------------------------
LEMMA NextInv == IInv /\ [Next]_vars => IInv'
<1> SUFFICES ASSUME IInv, [Next]_vars PROVE IInv'
  OBVIOUS
<1>1. CASE MutexCreate
  BY <1>1, MutexCreateStep
<1>2. CASE Joined
  BY <1>2, JoinedStep
<1>3. CASE MutexDestroy
  BY <1>3, MutexDestroyStep
<1>4. CASE \E c \in Used : CondCreate(c) \/ CondDestroy(c)
  BY <1>4, CondCreateStep, CondDestroyStep
<1>5. ASSUME NEW t \in Threads, Turn(t) \/ WakeUp(t)
      PROVE  IInv'
  BY <1>5, BeginStep, MutexLockStep, MutexTrylockStep, TestStep, ActStep, CondWaitStep,
     CondWaitReturnsStep, CondSignalStep, CondBroadcastStep, MutexUnlockStep, WakeUpStep
     DEF Turn
<1>6. CASE UNCHANGED vars
  BY <1>6 DEF vars, main_vars, store_vars, IInv, TypeOK, LockInv, WaitInv, LifeInv, Inside,
              WaitsOn, Used, B!Ready
<1> QED
  BY <1>1, <1>2, <1>3, <1>4, <1>5, <1>6 DEF Next, Main

\* The lock is held by the thread that believes to hold it and as often as it
\* believes, a condition knows its sleepers, and no abort and no assertion of the
\* functions of cop_thread.h is reached, for any number of threads and turns,
\* any capacity and any number of spurious wake-ups, on both systems.
THEOREM Inductive == Spec => []IInv
<1>1. Init => IInv
  BY InitInv
<1>2. IInv /\ [Next]_vars => IInv'
  BY NextInv
<1> QED
  BY <1>1, <1>2, PTL DEF Spec

\* No two threads are inside at once, whichever way each got there.
THEOREM MutualExclusion ==
  Spec => [](\A t, u \in Threads : Inside(t) /\ Inside(u) => t = u)
<1>1. IInv => \A t, u \in Threads : Inside(t) /\ Inside(u) => t = u
  BY DEF IInv, LockInv
<1> QED
  BY <1>1, Inductive, PTL

-----------------------------------------------------------------------------
LEMMA NextRefines == IInv /\ [Next]_vars => [B!Next]_<<level, left>>
<1> SUFFICES ASSUME IInv, [Next]_vars PROVE [B!Next]_<<level, left>>
  OBVIOUS
<1>1. CASE Main
  BY <1>1 DEF Main, MutexCreate, Joined, MutexDestroy, CondCreate, CondDestroy, store_vars
<1>2. ASSUME NEW t \in Threads, Act(t)
      PROVE  B!Next
  <2>1. saw[t] = level /\ B!Ready(t, level) /\ left[t] > 0
    BY <1>2 DEF Act, At, IInv, LockInv, LifeInv
  <2>2. B!Serve(t)
    BY <1>2, <2>1 DEF Act, B!Serve
  <2> QED
    BY <2>2 DEF B!Next
<1>3. ASSUME NEW t \in Threads, Turn(t) \/ WakeUp(t), ~Act(t)
      PROVE  UNCHANGED <<level, left>>
  BY <1>3 DEF Turn, Begin, MutexLock, MutexTrylock, Test, CondWait, CondWaitReturns,
              CondSignal, CondBroadcast, MutexUnlock, WakeUp, store_vars
<1>4. CASE UNCHANGED vars
  BY <1>4 DEF vars, store_vars
<1> QED
  BY <1>1, <1>2, <1>3, <1>4 DEF Next

\* The store changes as a bounded buffer does, one turn at a time: no update is
\* lost, although a turn reads and writes in two steps and a wait gives up the lock.
THEOREM Refinement == Spec => Implements
<1>1. Init => B!Init
  BY DEF Init, B!Init
<1>2. IInv /\ [Next]_vars => [B!Next]_<<level, left>>
  BY NextRefines
<1> QED
  BY <1>1, <1>2, Inductive, PTL DEF Spec, Implements, B!Spec
=============================================================================
