------------------------------- MODULE Monitor -------------------------------
(***************************************************************************)
(* The mutexes and condition variables of cop_thread.h, under threads that *)
(* share a store of bounded size.  The functions are one system call each  *)
(* and what is made of its result; the objects behind the calls and the    *)
(* threads that make them are external.  A thread either uses one          *)
(* condition and cop_cond_broadcast or one per role and cop_cond_signal,   *)
(* and waits in a loop, since a wait may end without either.               *)
(***************************************************************************)
EXTENDS Naturals, FiniteSets

CONSTANTS
  Threads,       \* The threads that use the store.
  Role,          \* Whether a thread puts or takes.
  Rounds,        \* How often each does so.
  Capacity,      \* How much the store holds.
  MaxSpurious,   \* Bound: how many waits end without a call that ends them.
  NULL

ASSUME MonitorConstants ==
  /\ Role \in [Threads -> {"put", "take"}]
  /\ Rounds \in [Threads -> Nat]
  /\ Capacity \in Nat \ {0} /\ MaxSpurious \in Nat
  /\ NULL \notin Threads

VARIABLES
  platform,    \* The branch of the header that was compiled.
  conditions,  \* How many conditions the threads use.
  phase,       \* What the main thread does: create, let them run, destroy.
  mutex,       \* The mutex: initialised, its owner and how often it owns it.
  cond,        \* Each condition: initialised, and the threads asleep on it.
  pc,          \* Where each thread is.
  late,        \* The threads that unlock before they signal.
  level,       \* How much is in the store.
  saw,         \* The level a thread has read and not yet written back.
  left,        \* How often each thread has still to put or take.
  spurious,    \* How many waits ended by themselves.
  misused      \* A call was made for which abort or an assertion is in the code.

store_vars == <<level, saw, left>>
main_vars == <<platform, conditions, phase>>
vars == <<main_vars, mutex, cond, pc, late, store_vars, spurious, misused>>

Conds == {"put", "take", "both"}
Used == IF conditions = "one" THEN {"both"} ELSE {"put", "take"}

\* The condition a thread waits on and the one it wakes others by.
WaitsOn(t) == IF conditions = "one" THEN "both" ELSE Role[t]
Wakes(t) ==
  CASE conditions = "one" -> "both"
    [] conditions = "two" /\ Role[t] = "put" -> "take"
    [] OTHER -> "put"

B == INSTANCE Buffer

Init ==
  /\ platform \in {"posix", "windows"} /\ conditions \in {"one", "two"}
  /\ phase = "create"
  /\ mutex = [live |-> FALSE, owner |-> NULL, depth |-> 0]
  /\ cond = [c \in Conds |-> [live |-> FALSE, asleep |-> {}]]
  /\ pc = [t \in Threads |-> "idle"] /\ late = {}
  /\ level = 0 /\ saw = [t \in Threads |-> 0] /\ left = Rounds
  /\ spurious = 0 /\ misused = FALSE

-----------------------------------------------------------------------------
(* The objects behind the calls. *)

\* A critical section may be entered again by its owner, a default pthread
\* mutex may not.
MayEnter(t) == mutex.owner = NULL \/ (platform = "windows" /\ mutex.owner = t)

Entered(t) == [mutex EXCEPT !.owner = t, !.depth = @ + 1]

Left ==
  IF mutex.depth > 1 THEN [mutex EXCEPT !.depth = @ - 1]
  ELSE [mutex EXCEPT !.owner = NULL, !.depth = 0]

\* The call that is made is one the system defines.
Legal(b) == misused' = (misused \/ ~b)

At(t, here, next) == pc[t] = here /\ pc' = [pc EXCEPT ![t] = next]

Idle == \A t \in Threads : pc[t] = "idle" /\ left[t] = 0

-----------------------------------------------------------------------------
(* Creation and destruction, by the main thread. *)

\* What the system's initialisers may answer an object that is not in use.  A
\* critical section and a condition variable of Windows cannot fail.
Answers ==
  IF platform = "windows" THEN {"ok"} ELSE {"ok", "EPERM", "EAGAIN", "ENOMEM", "other"}

\* cop_translate_err.
TranslateErr(err) ==
  CASE err = "ok" -> "success" [] err = "EPERM" -> "permissions"
    [] err = "EAGAIN" -> "resource" [] err = "ENOMEM" -> "out_of_memory"
    [] OTHER -> "unknown"

\* cop_mutex_create.  The main thread gives up when it is told of an error.
MutexCreate ==
  /\ phase = "create" /\ ~mutex.live
  /\ \E err \in Answers :
       /\ mutex' = [mutex EXCEPT !.live = (err = "ok")]
       /\ phase' = IF TranslateErr(err) = "success" THEN "create" ELSE "over"
  /\ UNCHANGED <<platform, conditions, cond, pc, late, store_vars, spurious, misused>>

\* cop_cond_create.  After an error the main thread destroys what it has.
CondCreate(c) ==
  /\ phase = "create" /\ mutex.live /\ ~cond[c].live
  /\ Legal(cond[c].asleep = {})
  /\ \E err \in Answers \ {"EPERM"} :
       /\ cond' = [cond EXCEPT ![c].live = (err = "ok")]
       /\ phase' = CASE err # "ok" -> "destroy"
                      [] err = "ok" /\ \A d \in Used \ {c} : cond[d].live -> "run"
                      [] OTHER -> "create"
  /\ UNCHANGED <<platform, conditions, mutex, pc, late, store_vars, spurious>>

\* The main thread has joined the others.
Joined ==
  /\ phase = "run" /\ Idle
  /\ phase' = "destroy"
  /\ UNCHANGED <<platform, conditions, mutex, cond, pc, late, store_vars, spurious, misused>>

\* cop_cond_destroy: abort when the system says that a thread still waits.
CondDestroy(c) ==
  /\ phase = "destroy" /\ cond[c].live
  /\ Legal(cond[c].asleep = {})
  /\ cond' = [cond EXCEPT ![c].live = FALSE]
  /\ UNCHANGED <<main_vars, mutex, pc, late, store_vars, spurious>>

\* cop_mutex_destroy: an assertion that it was not locked.
MutexDestroy ==
  /\ phase = "destroy" /\ \A c \in Used : ~cond[c].live
  /\ Legal(mutex.live /\ mutex.owner = NULL)
  /\ mutex' = [mutex EXCEPT !.live = FALSE]
  /\ phase' = "over"
  /\ UNCHANGED <<platform, conditions, cond, pc, late, store_vars, spurious>>

-----------------------------------------------------------------------------
(* A thread's turn at the store: it locks, or tries to until it can.  *)

Begin(t) ==
  /\ phase = "run" /\ left[t] > 0
  /\ At(t, "idle", "locking") \/ At(t, "idle", "trying")
  /\ UNCHANGED <<main_vars, mutex, cond, late, store_vars, spurious, misused>>

\* cop_mutex_lock.
MutexLock(t) ==
  /\ At(t, "locking", "test") /\ MayEnter(t)
  /\ Legal(mutex.live)
  /\ mutex' = Entered(t)
  /\ UNCHANGED <<main_vars, cond, late, store_vars, spurious>>

\* Slip: returns the error, as the other functions do.
TrylockError(t) == ~MayEnter(t)

\* Slip: EBUSY is taken for success.
TrylockAlways(t) == TRUE

\* What cop_mutex_trylock returns: whether the lock was obtained.
TrylockResult(t) == MayEnter(t)

\* cop_mutex_trylock, to get in or, from inside, as a helper does that is called
\* with the lock held or without it.
MutexTrylock(t) ==
  /\ \/ At(t, "trying", IF TrylockResult(t) THEN "test" ELSE "trying")
     \/ At(t, "helper", IF TrylockResult(t) THEN "nested" ELSE "notify")
  /\ Legal(mutex.live)
  /\ mutex' = IF MayEnter(t) THEN Entered(t) ELSE mutex
  /\ UNCHANGED <<main_vars, cond, late, store_vars, spurious>>

\* The thread sees that it may go on, and does so, in two steps of its own.
Test(t) ==
  /\ At(t, "test", "act") /\ B!Ready(t, level)
  /\ saw' = [saw EXCEPT ![t] = level]
  /\ UNCHANGED <<main_vars, mutex, cond, late, level, left, spurious, misused>>

Act(t) ==
  /\ At(t, "act", "helper")
  /\ level' = B!Changed(t, saw[t])
  /\ saw' = [saw EXCEPT ![t] = 0]
  /\ left' = [left EXCEPT ![t] = @ - 1]
  /\ late' \in {late, late \cup {t}}
  /\ UNCHANGED <<main_vars, mutex, cond, spurious, misused>>

\* cop_cond_wait: the lock is released and the thread asleep in one step.
CondWait(t) ==
  /\ At(t, "test", "asleep") /\ ~B!Ready(t, level)
  /\ Legal(mutex.owner = t /\ cond[WaitsOn(t)].live)
  /\ mutex' = Left
  /\ cond' = [cond EXCEPT ![WaitsOn(t)].asleep = @ \cup {t}]
  /\ UNCHANGED <<main_vars, late, store_vars, spurious>>

\* A wait ends for no reason: both systems allow it.
WakeUp(t) ==
  /\ spurious < MaxSpurious
  /\ At(t, "asleep", "woken")
  /\ cond' = [cond EXCEPT ![WaitsOn(t)].asleep = @ \ {t}]
  /\ spurious' = spurious + 1
  /\ UNCHANGED <<main_vars, mutex, late, store_vars, misused>>

\* cop_cond_wait returns once it has the lock again.
CondWaitReturns(t) ==
  /\ At(t, "woken", "test") /\ MayEnter(t)
  /\ mutex' = Entered(t)
  /\ UNCHANGED <<main_vars, cond, late, store_vars, spurious, misused>>

\* After its turn a thread wakes others, before or after it unlocks.
Notifying(t) ==
  IF t \in late THEN pc[t] = "unlocked" ELSE pc[t] = "notify"
AfterNotify(t, woken) ==
  [u \in Threads |->
    CASE u = t -> IF t \in late THEN "idle" ELSE "unlock"
      [] u # t /\ u \in woken -> "woken"
      [] OTHER -> pc[u]]

\* cop_cond_signal: one of those asleep, if any.
CondSignal(t) ==
  /\ conditions = "two" /\ Notifying(t)
  /\ Legal(cond[Wakes(t)].live)
  /\ \E woken \in IF cond[Wakes(t)].asleep = {} THEN {{}}
                  ELSE {{u} : u \in cond[Wakes(t)].asleep} :
       /\ cond' = [cond EXCEPT ![Wakes(t)].asleep = @ \ woken]
       /\ pc' = AfterNotify(t, woken)
  /\ late' = late \ {t}
  /\ UNCHANGED <<main_vars, mutex, store_vars, spurious>>

\* Slip: wakes one thread, as cop_cond_signal does.
CondBroadcastOne(t) ==
  /\ conditions = "one" /\ Notifying(t)
  /\ Legal(cond[Wakes(t)].live)
  /\ \E woken \in IF cond[Wakes(t)].asleep = {} THEN {{}}
                  ELSE {{u} : u \in cond[Wakes(t)].asleep} :
       /\ cond' = [cond EXCEPT ![Wakes(t)].asleep = @ \ woken]
       /\ pc' = AfterNotify(t, woken)
  /\ late' = late \ {t}
  /\ UNCHANGED <<main_vars, mutex, store_vars, spurious>>

\* cop_cond_broadcast: all of those asleep.
CondBroadcast(t) ==
  /\ conditions = "one" /\ Notifying(t)
  /\ Legal(cond[Wakes(t)].live)
  /\ cond' = [cond EXCEPT ![Wakes(t)].asleep = {}]
  /\ pc' = AfterNotify(t, cond[Wakes(t)].asleep)
  /\ late' = late \ {t}
  /\ UNCHANGED <<main_vars, mutex, store_vars, spurious>>

\* cop_mutex_unlock, of the helper's lock if it got one, or of the turn's.
MutexUnlock(t) ==
  /\ \/ At(t, "nested", "notify")
     \/ t \in late /\ At(t, "notify", "unlocked")
     \/ At(t, "unlock", "idle")
  /\ Legal(mutex.owner = t)
  /\ mutex' = Left
  /\ UNCHANGED <<main_vars, cond, late, store_vars, spurious>>

-----------------------------------------------------------------------------
Turn(t) ==
  \/ Begin(t) \/ MutexLock(t) \/ MutexTrylock(t) \/ Test(t) \/ Act(t)
  \/ CondWait(t) \/ CondWaitReturns(t)
  \/ CondSignal(t) \/ CondBroadcast(t) \/ MutexUnlock(t)

Main ==
  \/ MutexCreate \/ Joined \/ MutexDestroy
  \/ \E c \in Used : CondCreate(c) \/ CondDestroy(c)

Next == Main \/ \E t \in Threads : Turn(t) \/ WakeUp(t)

Spec == Init /\ [][Next]_vars

\* Every thread is scheduled as long as it can run.  That is enough: each has
\* finitely many turns and waits, so a lock is contended finitely often.
FairSpec == Spec /\ WF_vars(Main) /\ \A t \in Threads : WF_vars(Turn(t))

-----------------------------------------------------------------------------
TypeOK ==
  /\ platform \in {"posix", "windows"} /\ conditions \in {"one", "two"}
  /\ phase \in {"create", "run", "destroy", "over"}
  /\ mutex \in [live : BOOLEAN, owner : Threads \cup {NULL}, depth : Nat]
  /\ cond \in [Conds -> [live : BOOLEAN, asleep : SUBSET Threads]]
  /\ pc \in [Threads -> {"idle", "locking", "trying", "test", "act", "helper",
                         "nested", "notify", "unlock", "unlocked", "asleep", "woken"}]
  /\ late \subseteq Threads
  /\ level \in 0 .. Capacity /\ saw \in [Threads -> 0 .. Capacity]
  /\ left \in [Threads -> Nat]
  /\ spurious \in 0 .. MaxSpurious /\ misused \in BOOLEAN

\* Where a thread believes that it holds the lock.
Inside(t) == pc[t] \in {"test", "act", "helper", "nested", "notify", "unlock"}

\* The thread that believes it holds the lock is the one that does, and holds it
\* as often as it is to give it back; a wait ends with the lock held again.
LockInv ==
  /\ \A t \in Threads : Inside(t) <=> mutex.owner = t
  /\ mutex.depth = (IF mutex.owner = NULL THEN 0
                    ELSE IF pc[mutex.owner] = "nested" THEN 2 ELSE 1)
  /\ \A t \in Threads : pc[t] = "act" => saw[t] = level /\ B!Ready(t, level)

\* A condition knows exactly the threads that sleep on it.
WaitInv ==
  \A c \in Conds : cond[c].asleep = {t \in Threads : pc[t] = "asleep" /\ WaitsOn(t) = c}

\* The objects live as long as a thread may use them.
LifeInv ==
  /\ \A c \in Conds : cond[c].live => c \in Used /\ mutex.live
  /\ phase = "run" => mutex.live /\ \A c \in Used : cond[c].live
  /\ phase # "run" => \A t \in Threads : pc[t] = "idle"
  /\ phase = "destroy" => mutex.live
  /\ phase = "over" => ~mutex.live /\ \A c \in Conds : ~cond[c].live
  /\ \A t \in Threads : pc[t] \in {"locking", "trying", "test", "act", "asleep", "woken"}
       => left[t] > 0 /\ t \notin late
  /\ \A t \in late : pc[t] \in {"helper", "nested", "notify", "unlocked"}
  /\ \A t \in Threads : pc[t] = "unlocked" => t \in late

\* The inductive invariant: as long as the callers use the functions as they are
\* documented no abort and no assertion in them is reached, on either system.
IInv == TypeOK /\ LockInv /\ WaitInv /\ LifeInv /\ ~misused

\* Under the lock the turns happen one at a time: the store changes as a bounded
\* buffer does and no update is lost, however they locked and were woken.
Implements == B!Spec

\* No wake-up is lost: a program whose puts and takes match comes to its end,
\* and everything that was created is destroyed.
EveryoneServed == phase = "run" ~> phase = "over" /\ \A t \in Threads : left[t] = 0
=============================================================================
