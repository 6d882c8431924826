----------------------------- MODULE Coroutines -----------------------------
(***************************************************************************)
(* The coroutine runtime (coroutine.hpp) as the broker uses it: a Task     *)
(* that awaits Tasks and timers, under one of the three roots that start   *)
(* it: async_run (consumer::call, on the thread pool), sync_wait (on a     *)
(* thread of its own) and co_future (on the thread of its caller).  Every  *)
(* root is an AsyncTask that awaits one Task.                              *)
(*                                                                         *)
(* The pool is JobExecutor, which ThreadPool implements; its jobs are      *)
(* <<c, 0>>, the first run of call c, and <<c, k>>, its resumption after   *)
(* the k-th sleep.  The timer thread hands each timer to the pool once, at *)
(* some time after it was set (TimerScheduler).                            *)
(*                                                                         *)
(* The coroutine of a call is                                              *)
(*   "posted"    not begun: a job of the pool, or the thread of sync_wait  *)
(*   "body"      inside its innermost Task, on some thread                 *)
(*   "sleeping"  suspended in a TimerAwaiter                               *)
(*   "root"      back in the AsyncTask                                     *)
(*   "locking", "flagging", "notifying", "unlocking"                       *)
(*               at the end of the root of sync_wait (lines 463-466)       *)
(*   "ended"     all its frames are destroyed                              *)
(***************************************************************************)
EXTENDS Integers, FiniteSets

CONSTANTS Runs,      \* calls made through async_run
          Waits,     \* calls made through sync_wait
          Futures,   \* calls made through co_future
          Limit,     \* workers of the pool
          MaxSleeps, \* bound on the timers a call awaits
          MaxAwaits  \* bound on the inner Tasks all calls await

Calls == Runs \cup Waits \cup Futures
Resumptions == Calls \X (0 .. MaxSleeps)

ASSUME CoroutinesAssumption ==
  /\ Runs \cap Waits = {} /\ Runs \cap Futures = {} /\ Waits \cap Futures = {}
  /\ Limit \in Nat \ {0} /\ MaxSleeps \in Nat /\ MaxAwaits \in Nat

VARIABLES
  at,         \* where the coroutine of each call is
  depth,      \* Tasks of the call that have begun and not ended
  slept,      \* timers it has set
  awaited,    \* inner Tasks awaited so far, by all calls
  raised,     \* its outermost Task ended with an exception (exception_)
  timers,     \* resumptions in the queue of the timer scheduler
  pending, running, finished, discarded, open,  \* the pool
  outcome,    \* what the root stored: value, exception_ptr, or the std::promise
  waiter,     \* where the caller of sync_wait is
  mtx,        \* who holds the mutex of sync_wait
  flag,       \* the flag of sync_wait
  got,        \* what sync_wait returned or threw
  terminated  \* std::terminate was called

frameVars == <<at, depth, slept, awaited, raised>>
poolVars == <<pending, running, finished, discarded, open>>
waitVars == <<waiter, mtx, flag, got>>
vars == <<frameVars, timers, poolVars, outcome, waitVars, terminated>>

Pool == INSTANCE JobExecutor WITH Jobs <- Resumptions

Init ==
  /\ at = [c \in Calls |-> "idle"]
  /\ depth = [c \in Calls |-> 0] /\ slept = [c \in Calls |-> 0]
  /\ awaited = 0 /\ raised = [c \in Calls |-> FALSE]
  /\ timers = {}
  /\ Pool!Init
  /\ outcome = [c \in Calls |-> "none"]
  /\ waiter = [c \in Waits |-> "idle"] /\ mtx = [c \in Waits |-> "free"]
  /\ flag = [c \in Waits |-> FALSE] /\ got = [c \in Waits |-> "none"]
  /\ terminated = FALSE

\* The coroutine of c is on a thread, inside its Tasks or its root.
OnThread(c) == at[c] \notin {"idle", "posted", "sleeping", "ended"}

\* The AsyncTask starts at once, makes the Task and awaits it: the body runs
\* (lines 85-94, 346-349, 534-543).
EnterBody(c) ==
  /\ at' = [at EXCEPT ![c] = "body"]
  /\ depth' = [depth EXCEPT ![c] = 1]
  /\ UNCHANGED <<slept, awaited, raised>>

-----------------------------------------------------------------------------
(* Roots: how a call begins. *)

\* consumer.cpp:17-23.
Call(c) ==
  /\ c \in Runs /\ at[c] = "idle"
  /\ Pool!Submit(<<c, 0>>)
  /\ at' = [at EXCEPT ![c] = "posted"]
  /\ UNCHANGED <<depth, slept, awaited, raised, timers, outcome, waitVars, terminated>>

RunJob(c) ==
  /\ c \in Runs
  /\ Pool!Start(<<c, 0>>)
  /\ EnterBody(c)
  /\ UNCHANGED <<timers, outcome, waitVars, terminated>>

CoFuture(c) ==
  /\ c \in Futures /\ at[c] = "idle"
  /\ EnterBody(c)
  /\ UNCHANGED <<timers, poolVars, outcome, waitVars, terminated>>

\* Lines 446-468: the lock is taken before the thread is made.
SyncWait(c) ==
  /\ c \in Waits /\ waiter[c] = "idle"
  /\ waiter' = [waiter EXCEPT ![c] = "spawned"]
  /\ mtx' = [mtx EXCEPT ![c] = "waiter"]
  /\ at' = [at EXCEPT ![c] = "posted"]
  /\ UNCHANGED <<depth, slept, awaited, raised, timers, poolVars, outcome, flag, got, terminated>>

RunThread(c) ==
  /\ c \in Waits /\ at[c] = "posted"
  /\ EnterBody(c)
  /\ UNCHANGED <<timers, poolVars, outcome, waitVars, terminated>>

-----------------------------------------------------------------------------
(* Inside a Task. *)

BugSleep(c) ==
  /\ at[c] = "body" /\ slept[c] < MaxSleeps
  /\ slept' = [slept EXCEPT ![c] = @ + 1]
  /\ timers' = timers \cup {<<c, slept[c] + 1>>}
  /\ UNCHANGED <<at, depth, awaited, raised, poolVars, outcome, waitVars, terminated>>
\* co_await sleepCoro(...): the coroutine counts as suspended before await_suspend sets
\* the timer (lines 564-567), and the thread returns to whoever resumed it.
Sleep(c) ==
  /\ at[c] = "body" /\ slept[c] < MaxSleeps
  /\ at' = [at EXCEPT ![c] = "sleeping"]
  /\ slept' = [slept EXCEPT ![c] = @ + 1]
  /\ timers' = timers \cup {<<c, slept[c] + 1>>}
  /\ UNCHANGED <<depth, awaited, raised, poolVars, outcome, waitVars, terminated>>

\* co_await of an inner Task: it runs at once, on the same thread (lines 90-94).
Await(c) ==
  /\ at[c] = "body" /\ awaited < MaxAwaits
  /\ depth' = [depth EXCEPT ![c] = @ + 1]
  /\ awaited' = awaited + 1
  /\ UNCHANGED <<at, slept, raised, timers, poolVars, outcome, waitVars, terminated>>

BugContinue(c, d) == at' = [at EXCEPT ![c] = IF d = 0 THEN "sleeping" ELSE "body"]
\* final_awaiter resumes the continuation: the Task below, or the root (lines 64-68).
Continue(c, d) == at' = [at EXCEPT ![c] = IF d = 0 THEN "root" ELSE "body"]

Return(c) ==
  /\ at[c] = "body"
  /\ depth' = [depth EXCEPT ![c] = @ - 1]
  /\ Continue(c, depth[c] - 1)
  /\ UNCHANGED <<slept, awaited, raised, timers, poolVars, outcome, waitVars, terminated>>

BugThrow(c) ==
  /\ at[c] = "body"
  /\ \E d \in 0 .. depth[c] - 1 :
       /\ depth' = [depth EXCEPT ![c] = d - 1]
       /\ Continue(c, d)
       /\ raised' = [raised EXCEPT ![c] = d = 0]
  /\ UNCHANGED <<slept, awaited, timers, poolVars, outcome, waitVars, terminated>>
\* A Task throws: each await_resume on the way out throws again (lines 96-106, 178-196),
\* until the Task number d catches; when none does, the root gets it.
Throw(c) ==
  /\ at[c] = "body"
  /\ \E d \in 0 .. depth[c] - 1 :
       /\ depth' = [depth EXCEPT ![c] = d]
       /\ Continue(c, d)
       /\ raised' = [raised EXCEPT ![c] = d = 0]
  /\ UNCHANGED <<slept, awaited, timers, poolVars, outcome, waitVars, terminated>>

-----------------------------------------------------------------------------
(* Timer thread and pool. *)

Fire(t) ==
  /\ t \in timers
  /\ timers' = timers \ {t}
  /\ Pool!Submit(t)
  /\ UNCHANGED <<frameVars, outcome, waitVars, terminated>>

\* Line 566, handle.resume() on a worker.
Resume(c) ==
  /\ \E k \in 1 .. MaxSleeps : Pool!Start(<<c, k>>)
  /\ at' = [at EXCEPT ![c] = "body"]
  /\ UNCHANGED <<depth, slept, awaited, raised, timers, outcome, waitVars, terminated>>

\* The job returns to the worker: the coroutine suspended or ended under it.
FinishJob(c, k) ==
  /\ ~(OnThread(c) /\ slept[c] = k)
  /\ Pool!Finish(<<c, k>>)
  /\ UNCHANGED <<frameVars, timers, outcome, waitVars, terminated>>

\* The pool is destroyed; jobs that did not start are thrown away.
PoolDown ==
  /\ Pool!Close \/ Pool!Discard
  /\ UNCHANGED <<frameVars, timers, outcome, waitVars, terminated>>

-----------------------------------------------------------------------------
(* Roots: how a call ends. *)

\* Lines 534-543: without an exception the frames are destroyed; with one, line 354.
EndRun(c) ==
  /\ c \in Runs /\ at[c] = "root"
  /\ IF raised[c] THEN terminated' = TRUE /\ UNCHANGED at
                  ELSE at' = [at EXCEPT ![c] = "ended"] /\ UNCHANGED terminated
  /\ UNCHANGED <<depth, slept, awaited, raised, timers, poolVars, outcome, waitVars>>

Stored(c) == IF raised[c] THEN "exception" ELSE "value"

\* Lines 512-526.
EndFuture(c) ==
  /\ c \in Futures /\ at[c] = "root"
  /\ outcome' = [outcome EXCEPT ![c] = Stored(c)]
  /\ at' = [at EXCEPT ![c] = "ended"]
  /\ UNCHANGED <<depth, slept, awaited, raised, timers, poolVars, waitVars, terminated>>

\* Lines 478-485.
StoreResult(c) ==
  /\ c \in Waits /\ at[c] = "root"
  /\ outcome' = [outcome EXCEPT ![c] = Stored(c)]
  /\ at' = [at EXCEPT ![c] = "locking"]
  /\ UNCHANGED <<depth, slept, awaited, raised, timers, poolVars, waitVars, terminated>>

BugRootLock(c) ==
  /\ at[c] = "locking"
  /\ at' = [at EXCEPT ![c] = "flagging"]
  /\ UNCHANGED <<depth, slept, awaited, raised, timers, poolVars, outcome, waitVars, terminated>>
\* Line 486.
RootLock(c) ==
  /\ at[c] = "locking" /\ mtx[c] = "free"
  /\ mtx' = [mtx EXCEPT ![c] = "root"]
  /\ at' = [at EXCEPT ![c] = "flagging"]
  /\ UNCHANGED <<depth, slept, awaited, raised, timers, poolVars, outcome, waiter, flag, got,
                 terminated>>

\* Line 487.
RootFlag(c) ==
  /\ at[c] = "flagging"
  /\ flag' = [flag EXCEPT ![c] = TRUE]
  /\ at' = [at EXCEPT ![c] = "notifying"]
  /\ UNCHANGED <<depth, slept, awaited, raised, timers, poolVars, outcome, waiter, mtx, got,
                 terminated>>

\* notify_all on the cv of sync_wait.
Wake(c) == waiter' = [waiter EXCEPT ![c] = IF @ = "waiting" THEN "woken" ELSE @]

BugRootNotify(c) ==
  /\ at[c] = "notifying"
  /\ at' = [at EXCEPT ![c] = "unlocking"]
  /\ UNCHANGED <<depth, slept, awaited, raised, timers, poolVars, outcome, waitVars, terminated>>
\* Line 488.
RootNotify(c) ==
  /\ at[c] = "notifying"
  /\ Wake(c)
  /\ at' = [at EXCEPT ![c] = "unlocking"]
  /\ UNCHANGED <<depth, slept, awaited, raised, timers, poolVars, outcome, mtx, flag, got,
                 terminated>>

\* Line 489: lk is destroyed, and with it the last use of the locals of sync_wait.
RootUnlock(c) ==
  /\ at[c] = "unlocking"
  /\ mtx' = [mtx EXCEPT ![c] = "free"]
  /\ at' = [at EXCEPT ![c] = "ended"]
  /\ UNCHANGED <<depth, slept, awaited, raised, timers, poolVars, outcome, waiter, flag, got,
                 terminated>>

-----------------------------------------------------------------------------
(* The caller of sync_wait, lines 492-500. *)

\* The wait of line 492 releases the lock; nobody could set the flag before.
WaitFlag(c) ==
  /\ c \in Waits /\ waiter[c] = "spawned"
  /\ waiter' = [waiter EXCEPT ![c] = "waiting"]
  /\ mtx' = [mtx EXCEPT ![c] = "free"]
  /\ UNCHANGED <<frameVars, timers, poolVars, outcome, flag, got, terminated>>

SpuriousWake(c) ==
  /\ c \in Waits /\ waiter[c] = "waiting"
  /\ Wake(c)
  /\ UNCHANGED <<frameVars, timers, poolVars, outcome, mtx, flag, got, terminated>>

\* The predicate is evaluated again, with the lock.
Recheck(c) ==
  /\ c \in Waits /\ waiter[c] = "woken" /\ mtx[c] = "free"
  /\ waiter' = [waiter EXCEPT ![c] = IF flag[c] THEN "joining" ELSE "waiting"]
  /\ mtx' = [mtx EXCEPT ![c] = IF flag[c] THEN "waiter" ELSE "free"]
  /\ UNCHANGED <<frameVars, timers, poolVars, outcome, flag, got, terminated>>

\* Lines 494-500: the thread ends when the coroutine first suspends, or with it.
Join(c) ==
  /\ c \in Waits /\ waiter[c] = "joining"
  /\ slept[c] > 0 \/ at[c] = "ended"
  /\ waiter' = [waiter EXCEPT ![c] = "returned"]
  /\ got' = [got EXCEPT ![c] = outcome[c]]
  /\ mtx' = [mtx EXCEPT ![c] = "free"]
  /\ UNCHANGED <<frameVars, timers, poolVars, outcome, flag, terminated>>

-----------------------------------------------------------------------------
BodyStep(c) == Sleep(c) \/ Await(c) \/ Return(c) \/ Throw(c)
RootStep(c) == \/ EndRun(c) \/ EndFuture(c) \/ StoreResult(c)
               \/ RootLock(c) \/ RootFlag(c) \/ RootNotify(c) \/ RootUnlock(c)
WaiterStep(c) == WaitFlag(c) \/ Recheck(c) \/ Join(c)

Next ==
  /\ ~terminated
  /\ \/ \E c \in Calls : \/ Call(c) \/ RunJob(c) \/ CoFuture(c) \/ SyncWait(c) \/ RunThread(c)
                         \/ Sleep(c) \/ Await(c) \/ Return(c) \/ Throw(c) \/ Resume(c)
                         \/ EndRun(c) \/ EndFuture(c) \/ StoreResult(c)
                         \/ RootLock(c) \/ RootFlag(c) \/ RootNotify(c) \/ RootUnlock(c)
                         \/ WaitFlag(c) \/ SpuriousWake(c) \/ Recheck(c) \/ Join(c)
                         \/ \E k \in 0 .. MaxSleeps : FinishJob(c, k)
     \/ \E t \in timers : Fire(t)
     \/ PoolDown

Spec == Init /\ [][Next]_vars

\* Threads run and timers fire; the pool starts each job some day (ThreadPool!EveryJobRuns),
\* also when others are started before it.
Fairness ==
  /\ \A c \in Calls :
       /\ WF_vars(~terminated /\ (RunThread(c) \/ BodyStep(c) \/ RootStep(c)))
       /\ WF_vars(~terminated /\ \E k \in 0 .. MaxSleeps : Fire(<<c, k>>) \/ FinishJob(c, k))
       /\ SF_vars(~terminated /\ (RunJob(c) \/ Resume(c)))
  /\ \A c \in Waits : WF_vars(~terminated /\ WaiterStep(c))

FairSpec == Spec /\ Fairness

-----------------------------------------------------------------------------
(* Properties. *)

\* Types of the frames, the locals of sync_wait and the pool.
TypeOK ==
  /\ at \in [Calls -> {"idle", "posted", "body", "sleeping", "root", "locking", "flagging",
                       "notifying", "unlocking", "ended"}]
  /\ depth \in [Calls -> 0 .. MaxAwaits + 1]
  /\ slept \in [Calls -> 0 .. MaxSleeps]
  /\ awaited \in 0 .. MaxAwaits
  /\ raised \in [Calls -> BOOLEAN]
  /\ timers \subseteq Resumptions
  /\ Pool!Known \subseteq Resumptions /\ open \in BOOLEAN
  /\ outcome \in [Calls -> {"none", "value", "exception"}]
  /\ waiter \in [Waits -> {"idle", "spawned", "waiting", "woken", "joining", "returned"}]
  /\ mtx \in [Waits -> {"free", "waiter", "root"}]
  /\ flag \in [Waits -> BOOLEAN]
  /\ got \in [Waits -> {"none", "value", "exception"}]
  /\ terminated \in BOOLEAN

\* Who may still resume the coroutine of a call: a timer, or a job not begun.
Resumers(c) == {k \in 0 .. MaxSleeps : <<c, k>> \in timers \cup pending \cup discarded}

\* A coroutine that is suspended, or not begun, has exactly one handle waiting to run
\* it, and one that runs or has ended has none: two threads never resume the same frame,
\* nobody resumes a frame that is destroyed, and no sleeper is forgotten - although the
\* worker that ran it is still inside await_suspend when the timer fires
\* (coroutine.hpp:564-567).  The handle may be lost with the pool (discarded).
OneResumer ==
  \A c \in Calls : /\ timers \cap pending = {}
                   /\ Resumers(c) = IF at[c] = "sleeping" THEN {slept[c]}
                                    ELSE IF at[c] = "posted" /\ c \in Runs THEN {0} ELSE {}

\* When sync_wait has returned, it has the result of the Task, and the coroutine, whose
\* last steps may run on a worker of the pool, has stopped using its locals
\* (coroutine.hpp:446-450, 486-500).
SyncWaitSound ==
  \A c \in Waits : waiter[c] = "returned" => /\ at[c] = "ended"
                                             /\ got[c] = Stored(c)

\* A call that begins comes to its end, unless an exception ends the process or the pool
\* is stopped; sleeping calls hold no worker, however few there are.
EveryCallEnds == \A c \in Calls : at[c] # "idle" ~> (at[c] = "ended" \/ terminated \/ ~open)

\* sync_wait returns, on the same condition.
SyncWaitReturns ==
  \A c \in Waits : waiter[c] = "spawned" ~> (waiter[c] = "returned" \/ terminated \/ ~open)
=============================================================================
