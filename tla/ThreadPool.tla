----------------------------- MODULE ThreadPool -----------------------------
(***************************************************************************)
(* thread_pool (thread_pool.hpp, thread_pool.cpp): N workers, one deque of *)
(* jobs per worker, one mutex (m_lock) and one condition variable          *)
(* (m_data_condition) for all of them.  A caller of queue_job picks a      *)
(* deque round-robin BEFORE it takes the lock, pushes under the lock and   *)
(* notifies after unlocking; destroy() stops, notifies, joins and clears.  *)
(*                                                                         *)
(* Every critical section of m_lock is one action.  A worker that waits on *)
(* the condition variable is "waiting"; a notification (or a spurious      *)
(* wake-up) makes it "ready": it will take the lock and evaluate the       *)
(* predicate of the wait again.                                            *)
(***************************************************************************)
EXTENDS Integers, Sequences, FiniteSets, Functions

CONSTANTS N,        \* m_allocated_thread_count: number of workers
          Jobs,     \* the calls of queue_job, each one a distinct job
          Callers,  \* the threads that call queue_job
          Main,     \* the caller that also runs destroy()
          NoJob     \* "no job in hand"

ASSUME NAssumption == N \in Nat \ {0}
ASSUME CallersAssumption == Main \in Callers
ASSUME JobsAssumption == NoJob \notin Jobs /\ IsFiniteSet(Jobs)

Workers == 0 .. N-1
StealThreshold == 4

VARIABLES
  accept_jobs,   \* m_accept_jobs
  job_stack,     \* m_job_stack: one sequence of jobs per worker, front first
  stack_size,    \* m_job_stack.size(): N, and 0 after destroy() cleared it
  next_queue,    \* the static counter of queue_job
  busy_threads,  \* m_busy_threads
  worker,        \* where each worker is in run()
  current,       \* the local variable job of run()
  caller,        \* where each caller is in queue_job()
  slot,          \* the local variable index of queue_job()
  carrying,      \* the parameter func of queue_job()
  destroy,       \* where Main is in destroy()
  crashed,       \* undefined behaviour happened: the process is gone
  issued,        \* history: jobs for which queue_job was called
  done,          \* history: jobs whose function returned or threw
  dropped        \* history: jobs destroy() threw away

poolVars == <<accept_jobs, job_stack, stack_size, next_queue, busy_threads>>
runVars == <<worker, current>>
callVars == <<caller, slot, carrying>>
history == <<issued, done, dropped>>
vars == <<poolVars, runVars, callVars, destroy, crashed, history>>

Queued == UNION {Range(job_stack[w]) : w \in Workers}
Busy == {w \in Workers : worker[w] = "running"}
Holding == {w \in Workers : current[w] # NoJob}

Init ==
  /\ accept_jobs = TRUE
  /\ job_stack = [w \in Workers |-> << >>]
  /\ stack_size = N
  /\ next_queue = 0
  /\ busy_threads = 0
  /\ worker = [w \in Workers |-> "ready"]
  /\ current = [w \in Workers |-> NoJob]
  /\ caller = [t \in Callers |-> "idle"]
  /\ slot = [t \in Callers |-> 0]
  /\ carrying = [t \in Callers |-> NoJob]
  /\ destroy = "live"
  /\ crashed = FALSE
  /\ issued = {} /\ done = {} /\ dropped = {}

-----------------------------------------------------------------------------
(* queue_job(), by any caller.  Main calls it only while it is not in destroy(). *)

\* BUG variants are what a slip in the code would make of the definition that
\* follows them.  No action uses them.
BugNextSlot == next_queue % (stack_size + 1)
NextSlot == next_queue % stack_size

\* Line 65: the deque is chosen before the lock is taken.
PickQueue(t, j) ==
  /\ caller[t] = "idle"
  /\ t = Main => destroy = "live"
  /\ j \notin issued
  /\ stack_size # 0
  /\ caller' = [caller EXCEPT ![t] = "picked"]
  /\ slot' = [slot EXCEPT ![t] = NextSlot]
  /\ carrying' = [carrying EXCEPT ![t] = j]
  /\ next_queue' = next_queue + 1
  /\ issued' = issued \cup {j}
  /\ UNCHANGED <<accept_jobs, job_stack, stack_size, busy_threads, runVars,
                 destroy, crashed, done, dropped>>

\* Lines 67-69 and 85: the critical section.  m_accept_jobs is not consulted.
Push(t) ==
  /\ caller[t] = "picked"
  /\ stack_size # 0
  /\ job_stack' = [job_stack EXCEPT ![slot[t]] = <<carrying[t]>> \o @]
  /\ caller' = [caller EXCEPT ![t] = "pushed"]
  /\ carrying' = [carrying EXCEPT ![t] = NoJob]
  /\ UNCHANGED <<accept_jobs, stack_size, next_queue, busy_threads, runVars, slot,
                 destroy, crashed, history>>

BugNotifyOne ==
  IF \E w \in Workers : worker[w] = "waiting"
  THEN \E w \in Workers : worker[w] = "waiting" /\ worker' = [worker EXCEPT ![w] = "ready"]
  ELSE UNCHANGED worker
\* notify_all on m_data_condition: whoever waits will look again.
NotifyAll == worker' = [w \in Workers |-> IF worker[w] = "waiting" THEN "ready" ELSE worker[w]]

\* Line 86, after the lock was released.
Notify(t) ==
  /\ caller[t] = "pushed"
  /\ NotifyAll
  /\ caller' = [caller EXCEPT ![t] = "idle"]
  /\ UNCHANGED <<poolVars, current, slot, carrying, destroy, crashed, history>>

\* queue_job on a pool that destroy() has cleared: line 65 computes % 0, or
\* line 69 indexes a vector that has no element any more.
UseAfterClear(t) ==
  /\ stack_size = 0
  /\ \/ caller[t] = "picked"
     \/ caller[t] = "idle" /\ t # Main /\ issued # Jobs
  /\ crashed' = TRUE
  /\ UNCHANGED <<poolVars, runVars, callVars, destroy, history>>

-----------------------------------------------------------------------------
(* run(), by worker w. *)

BugMayGoOn(w) == Queued # {} \/ ~accept_jobs
\* The predicate of the wait, lines 99-102.
MayGoOn(w) == job_stack[w] # << >> \/ ~accept_jobs

\* Lines 95-102: the predicate is false, the worker releases the lock and waits.
Wait(w) ==
  /\ worker[w] = "ready"
  /\ ~MayGoOn(w)
  /\ worker' = [worker EXCEPT ![w] = "waiting"]
  /\ UNCHANGED <<poolVars, current, callVars, destroy, crashed, history>>

\* A condition variable may wake a thread that nobody notified.
SpuriousWake(w) ==
  /\ worker[w] = "waiting"
  /\ worker' = [worker EXCEPT ![w] = "ready"]
  /\ UNCHANGED <<poolVars, current, callVars, destroy, crashed, history>>

\* Lines 104-105: told to stop, the worker leaves the loop.
Exit(w) ==
  /\ worker[w] = "ready"
  /\ MayGoOn(w)
  /\ ~accept_jobs
  /\ worker' = [worker EXCEPT ![w] = "exited"]
  /\ UNCHANGED <<poolVars, current, callVars, destroy, crashed, history>>

\* Lines 114-124: the first deque after w's own that is long enough to steal from.
StealOffsets(w) == {i \in Workers : /\ (w + i + 1) % N # w
                                    /\ Len(job_stack[(w + i + 1) % N]) >= StealThreshold}
Victim(w) == (w + 1 + CHOOSE i \in StealOffsets(w) : \A k \in StealOffsets(w) : i <= k) % N

BugPop(w) == [job |-> IF job_stack[w] # << >> THEN Head(job_stack[w]) ELSE NoJob,
              stacks |-> job_stack]
\* Lines 107-126: the front of the own deque, else the back of a victim's, else
\* a job that holds no function; and the deques that are left.
Pop(w) ==
  LET own  == job_stack[w]
      v    == Victim(w)
      last == Len(job_stack[v])
  IN  IF own # << >>
      THEN [job |-> Head(own), stacks |-> [job_stack EXCEPT ![w] = Tail(own)]]
      ELSE IF N > 1 /\ StealOffsets(w) # {}
      THEN [job |-> job_stack[v][last],
            stacks |-> [job_stack EXCEPT ![v] = SubSeq(@, 1, last - 1)]]
      ELSE [job |-> NoJob, stacks |-> job_stack]

BugMayTake(w) == worker[w] = "ready" /\ MayGoOn(w)
\* Past the wait and past the check of lines 104-105.
MayTake(w) == worker[w] = "ready" /\ MayGoOn(w) /\ accept_jobs

\* Lines 107-128.
Take(w) ==
  /\ MayTake(w)
  /\ current' = [current EXCEPT ![w] = Pop(w).job]
  /\ job_stack' = Pop(w).stacks
  /\ worker' = [worker EXCEPT ![w] = "taken"]
  /\ UNCHANGED <<accept_jobs, stack_size, next_queue, busy_threads, callVars, destroy,
                 crashed, history>>

\* Lines 128-137: unlocked; the worker counts itself and invokes the job.
Start(w) ==
  /\ worker[w] = "taken"
  /\ busy_threads' = busy_threads + 1
  /\ worker' = [worker EXCEPT ![w] = "running"]
  /\ UNCHANGED <<accept_jobs, job_stack, stack_size, next_queue, current, callVars,
                 destroy, crashed, history>>

BugFinish(w) ==
  /\ worker[w] = "running"
  /\ busy_threads' \in {busy_threads, busy_threads - 1}
  /\ worker' = [worker EXCEPT ![w] = "ready"]
  /\ done' = done \cup ({current[w]} \ {NoJob})
  /\ current' = [current EXCEPT ![w] = NoJob]
  /\ UNCHANGED <<accept_jobs, job_stack, stack_size, next_queue, callVars, destroy,
                 crashed, issued, dropped>>
\* Lines 132-144: the job returned or threw a std::exception, which is caught.  The two
\* ways differ in a log entry only and are one step; BugFinish is a throwing job that
\* leaves the counter as it is.
Finish(w) ==
  /\ worker[w] = "running"
  /\ busy_threads' = busy_threads - 1
  /\ worker' = [worker EXCEPT ![w] = "ready"]
  /\ done' = done \cup ({current[w]} \ {NoJob})
  /\ current' = [current EXCEPT ![w] = NoJob]
  /\ UNCHANGED <<accept_jobs, job_stack, stack_size, next_queue, callVars, destroy,
                 crashed, issued, dropped>>

-----------------------------------------------------------------------------
(* destroy(), by Main, between two of its own calls of queue_job. *)

\* Lines 47-50.
DestroyStop ==
  /\ destroy = "live"
  /\ caller[Main] = "idle"
  /\ accept_jobs' = FALSE
  /\ destroy' = "stopping"
  /\ UNCHANGED <<job_stack, stack_size, next_queue, busy_threads, runVars, callVars,
                 crashed, history>>

BugDestroyNotify ==
  /\ destroy = "stopping"
  /\ destroy' = "joining"
  /\ UNCHANGED <<poolVars, runVars, callVars, crashed, history>>
\* Line 51.
DestroyNotify ==
  /\ destroy = "stopping"
  /\ NotifyAll
  /\ destroy' = "joining"
  /\ UNCHANGED <<poolVars, current, callVars, crashed, history>>

\* Lines 53-57: every worker joined, then the deques are thrown away.
DestroyClear ==
  /\ destroy = "joining"
  /\ \A w \in Workers : worker[w] = "exited"
  /\ stack_size' = 0
  /\ dropped' = dropped \cup Queued
  /\ job_stack' = [w \in Workers |-> << >>]
  /\ destroy' = "cleared"
  /\ UNCHANGED <<accept_jobs, next_queue, busy_threads, runVars, callVars, crashed,
                 issued, done>>

-----------------------------------------------------------------------------
QueueJobStep(t) == Push(t) \/ Notify(t)
WorkerStep(w) == Wait(w) \/ Exit(w) \/ Take(w) \/ Start(w) \/ Finish(w)
DestroyStep == DestroyNotify \/ DestroyClear

Next ==
  /\ ~crashed
  /\ \/ \E t \in Callers : \/ \E j \in Jobs : PickQueue(t, j)
                           \/ Push(t) \/ Notify(t) \/ UseAfterClear(t)
     \/ \E w \in Workers : \/ Wait(w) \/ SpuriousWake(w) \/ Exit(w)
                           \/ Take(w) \/ Start(w) \/ Finish(w)
     \/ DestroyStop \/ DestroyNotify \/ DestroyClear

Spec == Init /\ [][Next]_vars

\* Threads keep running: the operating system schedules each of them, m_lock is
\* held only for the length of an action, and a job is a function that returns.
\* Nobody is obliged to call queue_job or destroy.
Fairness ==
  /\ \A t \in Callers : WF_vars(~crashed /\ QueueJobStep(t))
  /\ \A w \in Workers : WF_vars(~crashed /\ WorkerStep(w))
  /\ WF_vars(~crashed /\ DestroyStep)

FairSpec == Spec /\ Fairness

-----------------------------------------------------------------------------
(* Properties. *)

\* Types of the variables of thread_pool, run() and queue_job(): thread_pool.hpp:15-23.
TypeOK ==
  /\ accept_jobs \in BOOLEAN
  /\ job_stack \in [Workers -> Seq(Jobs)]
  /\ stack_size \in {0, N}
  /\ next_queue \in Nat
  /\ busy_threads \in Int
  /\ worker \in [Workers -> {"ready", "waiting", "taken", "running", "exited"}]
  /\ current \in [Workers -> Jobs \cup {NoJob}]
  /\ caller \in [Callers -> {"idle", "picked", "pushed"}]
  /\ slot \in [Callers -> Workers]
  /\ carrying \in [Callers -> Jobs \cup {NoJob}]
  /\ destroy \in {"live", "stopping", "joining", "cleared"}
  /\ crashed \in BOOLEAN
  /\ issued \subseteq Jobs /\ done \subseteq Jobs /\ dropped \subseteq Jobs

\* No lost wake-up: a worker asleep on m_data_condition although its own deque
\* holds a job, or although the pool was told to stop, is about to be notified:
\* by the caller that filled that deque (queue_job, lines 67-86) or by destroy
\* (lines 47-51).  It is why queue_job notifies all workers, not one of them.
NoLostWakeup ==
  \A w \in Workers : worker[w] = "waiting" =>
    /\ job_stack[w] # << >> => \E t \in Callers : caller[t] = "pushed" /\ slot[t] = w
    /\ ~accept_jobs => destroy = "stopping"

\* Where a job may be: Carried by a caller, Queued in a deque, InHand of a worker,
\* done or dropped.
InjectiveOn(f, S) == \A x, y \in S : f[x] = f[y] => x = y
Carried == {carrying[t] : t \in Callers} \ {NoJob}
InHand == {current[w] : w \in Workers} \ {NoJob}
Accounted == issued = Carried \cup Queued \cup InHand \cup done \cup dropped
NoTwins ==
  /\ InjectiveOn(carrying, {t \in Callers : carrying[t] # NoJob})
  /\ InjectiveOn(current, Holding)
  /\ \A w \in Workers : InjectiveOn(job_stack[w], DOMAIN job_stack[w])
  /\ \A v, w \in Workers : v # w => Range(job_stack[v]) \cap Range(job_stack[w]) = {}
Apart ==
  /\ Carried \cap (Queued \cup InHand \cup done \cup dropped) = {}
  /\ Queued \cap (InHand \cup done \cup dropped) = {}
  /\ InHand \cap (done \cup dropped) = {}
  /\ done \cap dropped = {}

\* A job is in one place only: in the hands of one caller, at one position of one
\* deque, in the hands of one worker, finished, or thrown away by destroy; and a
\* job handed to queue_job is in one of them.  So no job runs twice and none is
\* lost between the unlocked choice of the deque, the push, the pop and destroy.
JobInOnePlace == Accounted /\ NoTwins /\ Apart

\* usage() reports the number of workers that are inside a job, also after jobs
\* that threw and after empty jobs (++/-- on lines 130 and 144).
BusyCount == busy_threads = Cardinality(Busy)

\* What a worker runs comes from the front of its own deque, while the pool
\* accepts jobs: the wait of lines 99-102 lets no worker through to the steal
\* branch of lines 112-126 or on to an empty job, and none takes a job after stop.
RunsOnOwnQueue ==
  [][\A w \in Workers : worker[w] # "taken" /\ worker'[w] = "taken" =>
       /\ accept_jobs
       /\ job_stack[w] # << >>
       /\ current'[w] = Head(job_stack[w])
       /\ job_stack' = [job_stack EXCEPT ![w] = Tail(job_stack[w])]]_vars

\* A job handed to queue_job is run, unless the pool is told to stop first.
EveryJobRuns == \A j \in Jobs : j \in issued ~> (j \in done \/ ~accept_jobs)

\* destroy() comes back: every worker wakes up, leaves run() and is joined, unless
\* the process died in a call of queue_job on the cleared pool.
DestroyReturns == destroy = "stopping" ~> destroy = "cleared"

\* The abstract executor: a job is pending from the push to the pop.
Executor == INSTANCE JobExecutor WITH
  Limit <- N,
  pending <- Queued,
  running <- InHand,
  finished <- done,
  discarded <- dropped,
  open <- accept_jobs

\* The pool implements the executor (thread_pool.cpp:45-148): a pushed job is
\* started once or discarded, at most N run at a time, none starts after the stop.
ImplementsExecutor == Executor!Spec
=============================================================================
