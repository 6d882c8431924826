--------------------------- MODULE TimerScheduler ---------------------------
(***************************************************************************)
(* scheduler (scheduler.hpp): one thread that keeps a priority queue of    *)
(* jobs ordered by execution time, sleeps until the earliest of them is    *)
(* due and hands it to the thread pool.  Any thread may add a job; the     *)
(* clock runs while all of them work.                                      *)
(*                                                                         *)
(* Critical sections of m_lock are single actions.  The loop thread is     *)
(*   "check"    about to read m_running without the lock (line 88)         *)
(*   "enter"    about to take the lock (line 90)                           *)
(*   "idle"     in the wait with a predicate, the queue empty (line 94)    *)
(*   "woken"    notified there, about to evaluate the predicate again      *)
(*   "sleeping" in the wait without a predicate (line 111)                 *)
(*   "handoff"  unlocked, with a popped job in hand (lines 105-107)        *)
(*   "exited"   out of run().                                              *)
(***************************************************************************)
EXTENDS Naturals, FiniteSets

CONSTANTS Jobs,     \* the calls of execute_at and execute_after
          Callers,  \* the threads that make them
          MaxTime,  \* bound on the clock
          NoJob     \* the loop thread has no job in hand

ASSUME MaxTimeAssumption == MaxTime \in Nat
ASSUME NoJobAssumption == NoJob \notin Jobs

Time == 0 .. MaxTime

VARIABLES
  now,       \* steady_clock::now()
  jobs,      \* m_jobs
  due,       \* execute_time of each scheduled_job (MaxTime + 1 before the call)
  running,   \* m_running
  loop,      \* where the thread is in run()
  deadline,  \* the local variable next_time of run()
  job,       \* the local variable job of run()
  caller,    \* where each caller is in execute_at
  adding,    \* the job it adds
  destroy,   \* where the caller of destory() is
  handed,    \* history: jobs handed to the pool
  late       \* history: passes of the loop begun after m_running was cleared

vars == <<now, jobs, due, running, loop, deadline, job, caller, adding, destroy, handed, late>>
loopVars == <<loop, deadline, job>>
callVars == <<caller, adding>>

Called == {j \in Jobs : due[j] # MaxTime + 1}

Init ==
  /\ now = 0 /\ jobs = {} /\ due = [j \in Jobs |-> MaxTime + 1]
  /\ running = TRUE
  /\ loop = "check" /\ deadline = 0 /\ job = NoJob
  /\ caller = [t \in Callers |-> "idle"] /\ adding = [t \in Callers |-> NoJob]
  /\ destroy = "live"
  /\ handed = {} /\ late = 0

Tick == /\ now < MaxTime
        /\ now' = now + 1
        /\ UNCHANGED <<jobs, due, running, loopVars, callVars, destroy, handed, late>>

-----------------------------------------------------------------------------
(* execute_at and execute_after, by any thread. *)

\* Lines 46 and 50: the time is fixed before the lock is taken, and it may lie in
\* the past (execute_at).
ExecuteAt(t, j, time) ==
  /\ caller[t] = "idle"
  /\ j \notin Called
  /\ due' = [due EXCEPT ![j] = time]
  /\ caller' = [caller EXCEPT ![t] = "timed"]
  /\ adding' = [adding EXCEPT ![t] = j]
  /\ UNCHANGED <<now, jobs, running, loopVars, destroy, handed, late>>

\* Lines 52-55.
Push(t) ==
  /\ caller[t] = "timed"
  /\ jobs' = jobs \cup {adding[t]}
  /\ caller' = [caller EXCEPT ![t] = "pushed"]
  /\ adding' = [adding EXCEPT ![t] = NoJob]
  /\ UNCHANGED <<now, due, running, loopVars, destroy, handed, late>>

\* notify_all on m_cv: only the loop thread waits on it.
NotifyLoop == loop' = CASE loop = "idle" -> "woken"
                        [] loop = "sleeping" -> "check"
                        [] OTHER -> loop

BugNotify(t) ==
  /\ caller[t] = "pushed"
  /\ caller' = [caller EXCEPT ![t] = "idle"]
  /\ loop' = IF loop = "idle" THEN "woken" ELSE loop
  /\ UNCHANGED <<now, jobs, due, running, deadline, job, adding, destroy, handed, late>>
\* Line 56.
Notify(t) ==
  /\ caller[t] = "pushed"
  /\ NotifyLoop
  /\ caller' = [caller EXCEPT ![t] = "idle"]
  /\ UNCHANGED <<now, jobs, due, running, deadline, job, adding, destroy, handed, late>>

-----------------------------------------------------------------------------
(* run(), the loop thread. *)

BugCheck ==
  /\ loop = "check"
  /\ loop' = "enter"
  /\ UNCHANGED <<now, jobs, due, running, deadline, job, callVars, destroy, handed, late>>
\* Line 88.
Check ==
  /\ loop = "check"
  /\ loop' = IF running THEN "enter" ELSE "exited"
  /\ UNCHANGED <<now, jobs, due, running, deadline, job, callVars, destroy, handed, late>>

\* Counts the passes that a stop did not prevent.
CountPass == late' = IF running THEN late ELSE late + 1

BugIdle == loop' = "idle"
\* The wait of line 94, on entry and after a wake-up: back to the loop when the
\* predicate is true, asleep otherwise.
WaitForJob == loop' = IF jobs # {} \/ ~running THEN "check" ELSE "idle"

\* Lines 92-94.
EnterEmpty ==
  /\ loop = "enter" /\ jobs = {}
  /\ WaitForJob
  /\ CountPass
  /\ UNCHANGED <<now, jobs, due, running, deadline, job, callVars, destroy, handed>>

Recheck ==
  /\ loop = "woken"
  /\ WaitForJob
  /\ UNCHANGED <<now, jobs, due, running, deadline, job, callVars, destroy, handed, late>>

BugTop == {j \in jobs : \A k \in jobs : due[j] >= due[k]}
\* What m_jobs.top() may be: a job with the least execution time (lines 11, 79).
Top == {j \in jobs : \A k \in jobs : due[j] <= due[k]}

BugPop(j) ==
  /\ loop = "enter" /\ j \in Top
  /\ now >= due[j]
  /\ job' = j
  /\ loop' = "handoff"
  /\ CountPass
  /\ UNCHANGED <<now, jobs, due, running, deadline, callVars, destroy, handed>>
\* Lines 96-105: the earliest job is due.
Pop(j) ==
  /\ loop = "enter" /\ j \in Top
  /\ now >= due[j]
  /\ job' = j
  /\ jobs' = jobs \ {j}
  /\ loop' = "handoff"
  /\ CountPass
  /\ UNCHANGED <<now, due, running, deadline, callVars, destroy, handed>>

\* Line 107: queue_job of the thread pool.
Handoff ==
  /\ loop = "handoff"
  /\ handed' = handed \cup {job}
  /\ job' = NoJob
  /\ loop' = "check"
  /\ UNCHANGED <<now, jobs, due, running, deadline, callVars, destroy, late>>

BugSleep(j) ==
  /\ loop = "enter" /\ j \in Top
  /\ now < due[j]
  /\ deadline' = due[j] + 1
  /\ loop' = "sleeping"
  /\ CountPass
  /\ UNCHANGED <<now, jobs, due, running, job, callVars, destroy, handed>>
\* Line 111: it is not; m_running is not looked at again before the thread sleeps.
Sleep(j) ==
  /\ loop = "enter" /\ j \in Top
  /\ now < due[j]
  /\ deadline' = due[j]
  /\ loop' = "sleeping"
  /\ CountPass
  /\ UNCHANGED <<now, jobs, due, running, job, callVars, destroy, handed>>

Timeout ==
  /\ loop = "sleeping" /\ now >= deadline
  /\ loop' = "check"
  /\ UNCHANGED <<now, jobs, due, running, deadline, job, callVars, destroy, handed, late>>

SpuriousWake ==
  /\ loop \in {"idle", "sleeping"}
  /\ NotifyLoop
  /\ UNCHANGED <<now, jobs, due, running, deadline, job, callVars, destroy, handed, late>>

-----------------------------------------------------------------------------
(* destory(). *)

BugDestroyStop ==
  /\ destroy = "live"
  /\ running' = FALSE
  /\ destroy' = "joining"
  /\ UNCHANGED <<now, jobs, due, loopVars, callVars, handed, late>>
\* Lines 33-36.
DestroyStop ==
  /\ destroy = "live"
  /\ running' = FALSE
  /\ destroy' = "stopping"
  /\ UNCHANGED <<now, jobs, due, loopVars, callVars, handed, late>>

\* Line 37.
DestroyNotify ==
  /\ destroy = "stopping"
  /\ NotifyLoop
  /\ destroy' = "joining"
  /\ UNCHANGED <<now, jobs, due, running, deadline, job, callVars, handed, late>>

\* Lines 38-39.
DestroyJoin ==
  /\ destroy = "joining" /\ loop = "exited"
  /\ destroy' = "joined"
  /\ UNCHANGED <<now, jobs, due, running, loopVars, callVars, handed, late>>

-----------------------------------------------------------------------------
LoopStep == \/ Check \/ EnterEmpty \/ Recheck \/ Handoff \/ Timeout
            \/ \E j \in Jobs : Pop(j) \/ Sleep(j)
CallerStep(t) == Push(t) \/ Notify(t)

Next == \/ Tick
        \/ \E t \in Callers : \/ \E j \in Jobs, time \in Time : ExecuteAt(t, j, time)
                              \/ Push(t) \/ Notify(t)
        \/ Check \/ EnterEmpty \/ Recheck \/ Handoff \/ Timeout \/ SpuriousWake
        \/ \E j \in Jobs : Pop(j) \/ Sleep(j)
        \/ DestroyStop \/ DestroyNotify \/ DestroyJoin

Spec == Init /\ [][Next]_vars

\* Time passes, and the loop thread, the callers and destory() are scheduled.
Fairness == /\ WF_vars(Tick)
            /\ WF_vars(LoopStep)
            /\ \A t \in Callers : WF_vars(CallerStep(t))
            /\ WF_vars(DestroyNotify) /\ WF_vars(DestroyJoin)

FairSpec == Spec /\ Fairness

-----------------------------------------------------------------------------
(* Properties. *)

\* Types of the members of scheduler and of the locals of run (scheduler.hpp:79-114).
TypeOK ==
  /\ now \in Time
  /\ jobs \subseteq Jobs
  /\ due \in [Jobs -> 0 .. MaxTime + 1]
  /\ running \in BOOLEAN
  /\ loop \in {"check", "enter", "idle", "woken", "sleeping", "handoff", "exited"}
  /\ deadline \in Time
  /\ job \in Jobs \cup {NoJob}
  /\ caller \in [Callers -> {"idle", "timed", "pushed"}]
  /\ adding \in [Callers -> Jobs \cup {NoJob}]
  /\ destroy \in {"live", "stopping", "joining", "joined"}
  /\ handed \subseteq Jobs
  /\ late \in Nat

\* The loop thread oversleeps no job: while it sleeps until a deadline no job is due
\* before that deadline, and while it waits for a first job there is none and no stop,
\* unless the thread that changed that is just about to notify (scheduler.hpp:56, 37).
\* A stop it may sleep through in the timed wait, until the deadline: that wait has no
\* predicate, and a stop may be notified before it begins (scheduler.hpp:88, 111).
NoOversleep ==
  /\ loop = "sleeping" /\ (\E j \in jobs : due[j] < deadline)
       => \E t \in Callers : caller[t] = "pushed"
  /\ loop = "idle" /\ jobs # {} => \E t \in Callers : caller[t] = "pushed"
  /\ loop = "idle" /\ ~running => destroy = "stopping"

\* A job added is in one place: with its caller, in the queue, in the hands of the
\* loop thread, or handed to the pool, there once (scheduler.hpp:52-56, 103-107).
TimerInOnePlace ==
  LET added == {adding[t] : t \in Callers} \ {NoJob}
      taken == {job} \ {NoJob}
  IN  /\ Called = added \cup jobs \cup taken \cup handed
      /\ \A t, u \in Callers : adding[t] # NoJob /\ adding[t] = adding[u] => t = u
      /\ added \cap (jobs \cup taken \cup handed) = {}
      /\ jobs \cap (taken \cup handed) = {}
      /\ taken \cap handed = {}

\* Job k is in the queue and due before j, which the loop thread has not taken yet.
Ahead(k, j) == k \in jobs /\ j \in Called \ (handed \cup {job}) /\ due[k] < due[j]

\* Jobs reach the thread pool when their times have come and in the order of their times,
\* although the loop thread sleeps with a deadline that other threads make obsolete and
\* gives the lock away between taking a job and handing it over: a job that is queued
\* ahead of another is never overtaken by it, whatever is added, notified or stopped
\* meanwhile; only one that is queued after the other was taken is (scheduler.hpp:79,
\* 99-111).
HandedInOrder ==
  /\ [](\A j \in handed : due[j] <= now)
  /\ \A j, k \in Jobs : [](Ahead(k, j) => [](j \in handed => k \in handed))

\* After m_running is cleared the loop thread goes round at most once more, although
\* it reads m_running without the lock (scheduler.hpp:88): at most one more job is
\* handed over, or one more sleep begun.
OnePassAfterStop == late <= 1

\* A job handed to execute_at or execute_after reaches the thread pool, unless the
\* scheduler is stopped.
EveryTimerFires == \A j \in Jobs : j \in Called ~> (j \in handed \/ ~running)

\* destory() comes back, at the latest when the earliest job in the queue is due: a
\* stop that falls between lines 88 and 111 does not wake the thread.
DestroyReturns == destroy = "stopping" ~> destroy = "joined"
=============================================================================
