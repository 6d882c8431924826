-------------------------- MODULE ThreadPoolProofs --------------------------
(***************************************************************************)
(* Theorems about ThreadPool for every number of workers, every set of     *)
(* callers and every finite set of jobs.                                   *)
(***************************************************************************)
EXTENDS ThreadPool, SequenceTheorems, FiniteSetTheorems, TLAPS

\* The worker that owns deque 0 exists, and a counter modulo N names a worker.
LEMMA WorkerIndex ==
  /\ 0 \in Workers
  /\ \A k \in Nat : k % N \in Workers
BY NAssumption, Z3 DEF Workers

\* Pushing at the front and popping from the front keep a sequence over Jobs.
LEMMA DequeTypes ==
  ASSUME NEW s \in Seq(Jobs), NEW j \in Jobs
  PROVE  /\ <<j>> \o s \in Seq(Jobs)
         /\ s # << >> => Head(s) \in Jobs /\ Tail(s) \in Seq(Jobs)
<1>1. <<j>> \in Seq(Jobs)
  OBVIOUS
<1>2. <<j>> \o s \in Seq(Jobs)
  BY <1>1, ConcatProperties
<1>3. s # << >> => Head(s) \in Jobs /\ Tail(s) \in Seq(Jobs)
  BY HeadTailProperties
<1>. QED
  BY <1>2, <1>3

\* What a worker takes while the pool is open is the front of its own deque: the
\* predicate of the wait makes the steal branch and the empty job unreachable.
LEMMA TakeOwn ==
  ASSUME NEW w \in Workers, Take(w)
  PROVE  /\ job_stack[w] # << >>
         /\ current' = [current EXCEPT ![w] = Head(job_stack[w])]
         /\ job_stack' = [job_stack EXCEPT ![w] = Tail(job_stack[w])]
BY DEF Take, MayTake, MayGoOn, Pop

\* A push carries a job: the strengthening that makes TypeOK inductive.
CarriesJob ==
  \A t \in Callers : caller[t] = "picked" => carrying[t] \in Jobs

TypeInv == TypeOK /\ CarriesJob

LEMMA TypeInit == Init => TypeInv
<1>. SUFFICES ASSUME Init PROVE TypeInv
  OBVIOUS
<1>1. job_stack \in [Workers -> Seq(Jobs)]
  BY EmptySeq DEF Init
<1>2. /\ slot \in [Callers -> Workers]
      /\ caller \in [Callers -> {"idle", "picked", "pushed"}]
      /\ carrying \in [Callers -> Jobs \cup {NoJob}]
  BY WorkerIndex DEF Init
<1>3. /\ worker \in [Workers -> {"ready", "waiting", "taken", "running", "exited"}]
      /\ current \in [Workers -> Jobs \cup {NoJob}]
  BY DEF Init
<1>4. CarriesJob
  BY DEF Init, CarriesJob
<1>5. accept_jobs \in BOOLEAN /\ crashed \in BOOLEAN
  BY Zenon DEF Init
<1>6. stack_size \in {0, N} /\ next_queue \in Nat /\ busy_threads \in Int
  BY SMT DEF Init
<1>7. destroy \in {"live", "stopping", "joining", "cleared"}
  BY DEF Init
<1>8. issued \subseteq Jobs /\ done \subseteq Jobs /\ dropped \subseteq Jobs
  BY DEF Init
<1>. QED
  BY <1>1, <1>2, <1>3, <1>4, <1>5, <1>6, <1>7, <1>8 DEF TypeInv, TypeOK

LEMMA TypeStep ==
  ASSUME TypeInv, [Next]_vars
  PROVE  TypeInv'
<1>. USE DEF TypeInv
<1>1. ASSUME NEW t \in Callers, NEW j \in Jobs, PickQueue(t, j)
      PROVE  TypeInv'
  <2>1. stack_size = N
    BY <1>1 DEF PickQueue, TypeOK
  <2>2. next_queue % stack_size \in Workers
    BY <2>1, WorkerIndex DEF TypeOK
  <2>. QED
    BY <1>1, <2>2 DEF PickQueue, NextSlot, TypeOK, CarriesJob, runVars
<1>2. ASSUME NEW t \in Callers, Push(t)
      PROVE  TypeInv'
  <2>1. slot[t] \in Workers /\ job_stack[slot[t]] \in Seq(Jobs) /\ carrying[t] \in Jobs
    BY <1>2 DEF Push, TypeOK, CarriesJob
  <2>2. <<carrying[t]>> \o job_stack[slot[t]] \in Seq(Jobs)
    BY <2>1, DequeTypes
  <2>3. job_stack' \in [Workers -> Seq(Jobs)]
    BY <1>2, <2>1, <2>2 DEF Push, TypeOK
  <2>. QED
    BY <1>2, <2>3 DEF Push, TypeOK, CarriesJob, runVars, history
<1>3. ASSUME NEW t \in Callers, Notify(t)
      PROVE  TypeInv'
  BY <1>3 DEF Notify, NotifyAll, TypeOK, CarriesJob, poolVars, history
<1>4. ASSUME NEW t \in Callers, UseAfterClear(t)
      PROVE  TypeInv'
  BY <1>4 DEF UseAfterClear, TypeOK, CarriesJob, poolVars, runVars, callVars, history
<1>5. ASSUME NEW w \in Workers, Wait(w) \/ SpuriousWake(w) \/ Exit(w)
      PROVE  TypeInv'
  BY <1>5 DEF Wait, SpuriousWake, Exit, TypeOK, CarriesJob, poolVars, callVars, history
<1>6. ASSUME NEW w \in Workers, Take(w)
      PROVE  TypeInv'
  <2>1. Head(job_stack[w]) \in Jobs /\ Tail(job_stack[w]) \in Seq(Jobs)
    BY <1>6, TakeOwn, HeadTailProperties DEF TypeOK
  <2>2. /\ current' = [current EXCEPT ![w] = Head(job_stack[w])]
        /\ job_stack' = [job_stack EXCEPT ![w] = Tail(job_stack[w])]
    BY <1>6, TakeOwn
  <2>3. /\ worker' = [worker EXCEPT ![w] = "taken"]
        /\ UNCHANGED <<accept_jobs, stack_size, next_queue, busy_threads, callVars,
                       destroy, crashed, history>>
    BY <1>6 DEF Take
  <2>. QED
    BY <2>1, <2>2, <2>3 DEF TypeOK, CarriesJob, callVars, history
<1>7. ASSUME NEW w \in Workers, Start(w)
      PROVE  TypeInv'
  BY <1>7 DEF Start, TypeOK, CarriesJob, callVars, history
<1>8. ASSUME NEW w \in Workers, Finish(w)
      PROVE  TypeInv'
  BY <1>8 DEF Finish, TypeOK, CarriesJob, callVars
<1>9. CASE DestroyStop
  BY <1>9 DEF DestroyStop, TypeOK, CarriesJob, runVars, callVars, history
<1>10. CASE DestroyNotify
  BY <1>10 DEF DestroyNotify, NotifyAll, TypeOK, CarriesJob, poolVars, callVars, history
<1>11. CASE DestroyClear
  <2>1. Queued \subseteq Jobs
    BY RangeOfSeq DEF Queued, TypeOK
  <2>2. job_stack' \in [Workers -> Seq(Jobs)]
    BY <1>11, EmptySeq DEF DestroyClear
  <2>. QED
    BY <1>11, <2>1, <2>2 DEF DestroyClear, TypeOK, CarriesJob, runVars, callVars
<1>12. CASE UNCHANGED vars
  BY <1>12 DEF vars, TypeOK, CarriesJob, poolVars, runVars, callVars, history
<1>. QED
  BY <1>1, <1>2, <1>3, <1>4, <1>5, <1>6, <1>7, <1>8, <1>9, <1>10, <1>11, <1>12 DEF Next

\* The variables of the pool, of run() and of queue_job() keep their types: in
\* particular a caller's index always names a deque, and only a job is pushed.
THEOREM TypeCorrect == Spec => []TypeOK
<1>1. TypeInv => TypeOK
  BY DEF TypeInv
<1>. QED
  BY TypeInit, TypeStep, <1>1, PTL DEF Spec

-----------------------------------------------------------------------------
(* No lost wake-up. *)

LEMMA WakeupStep ==
  ASSUME TypeInv, NoLostWakeup, [Next]_vars
  PROVE  NoLostWakeup'
<1>. USE DEF TypeInv
<1>1. ASSUME NEW t \in Callers, NEW j \in Jobs, PickQueue(t, j)
      PROVE  NoLostWakeup'
  BY <1>1 DEF PickQueue, TypeOK, NoLostWakeup, runVars
<1>2. ASSUME NEW t \in Callers, Push(t)
      PROVE  NoLostWakeup'
  <2>1. \A w \in Workers : w # slot[t] => job_stack'[w] = job_stack[w]
    BY <1>2 DEF Push, TypeOK
  <2>2. caller'[t] = "pushed" /\ \A u \in Callers : caller[u] = "pushed" => caller'[u] = "pushed"
    BY <1>2 DEF Push, TypeOK
  <2>. QED
    BY <1>2, <2>1, <2>2 DEF Push, NoLostWakeup, runVars
<1>3. ASSUME NEW t \in Callers, Notify(t)
      PROVE  NoLostWakeup'
  BY <1>3 DEF Notify, NotifyAll, NoLostWakeup
<1>4. ASSUME NEW t \in Callers, UseAfterClear(t)
      PROVE  NoLostWakeup'
  BY <1>4 DEF UseAfterClear, NoLostWakeup, poolVars, runVars, callVars
<1>5. ASSUME NEW w \in Workers, Wait(w)
      PROVE  NoLostWakeup'
  BY <1>5 DEF Wait, MayGoOn, NoLostWakeup, TypeOK, poolVars, callVars
<1>6. ASSUME NEW w \in Workers, SpuriousWake(w) \/ Exit(w)
      PROVE  NoLostWakeup'
  BY <1>6 DEF SpuriousWake, Exit, NoLostWakeup, TypeOK, poolVars, callVars
<1>7. ASSUME NEW w \in Workers, Take(w)
      PROVE  NoLostWakeup'
  <2>1. \A v \in Workers : v # w => job_stack'[v] = job_stack[v] /\ worker'[v] = worker[v]
    BY <1>7, TakeOwn DEF TypeOK, Take
  <2>2. worker'[w] = "taken" /\ UNCHANGED <<accept_jobs, callVars, destroy>>
    BY <1>7 DEF Take, TypeOK
  <2>. QED
    BY <2>1, <2>2 DEF NoLostWakeup, callVars
<1>8. ASSUME NEW w \in Workers, Start(w) \/ Finish(w)
      PROVE  NoLostWakeup'
  BY <1>8 DEF Start, Finish, NoLostWakeup, TypeOK, callVars
<1>9. CASE DestroyStop
  BY <1>9 DEF DestroyStop, NoLostWakeup, runVars, callVars
<1>10. CASE DestroyNotify
  BY <1>10 DEF DestroyNotify, NotifyAll, NoLostWakeup
<1>11. CASE DestroyClear
  BY <1>11 DEF DestroyClear, NoLostWakeup, runVars
<1>12. CASE UNCHANGED vars
  BY <1>12 DEF vars, NoLostWakeup, poolVars, runVars, callVars
<1>. QED
  BY <1>1, <1>2, <1>3, <1>4, <1>5, <1>6, <1>7, <1>8, <1>9, <1>10, <1>11, <1>12 DEF Next

\* For any number of workers and callers, a worker asleep although its deque holds
\* a job or the pool was stopped is about to be notified (thread_pool.cpp:67-86).
THEOREM WakeupCorrect == Spec => []NoLostWakeup
<1>1. Init => NoLostWakeup
  BY DEF Init, NoLostWakeup
<1>. QED
  BY TypeInit, TypeStep, <1>1, WakeupStep, PTL DEF Spec

-----------------------------------------------------------------------------
(* What a worker runs. *)

LEMMA TakesOwnFront ==
  ASSUME TypeInv, Next,
         NEW w \in Workers, worker[w] # "taken", worker'[w] = "taken"
  PROVE  Take(w)
<1>1. ASSUME NEW v \in Workers, NEW x,
             worker' = [worker EXCEPT ![v] = x], x # "taken" \/ v # w
      PROVE  FALSE
  BY <1>1 DEF TypeInv, TypeOK
<1>2. ~NotifyAll
  BY DEF NotifyAll
<1>3. worker' # worker
  OBVIOUS
<1>4. ASSUME NEW v \in Workers, Wait(v) \/ SpuriousWake(v) \/ Exit(v) \/ Start(v) \/ Finish(v)
      PROVE  FALSE
  BY <1>1, <1>4 DEF Wait, SpuriousWake, Exit, Start, Finish
<1>5. ASSUME NEW v \in Workers, Take(v), v # w
      PROVE  FALSE
  BY <1>1, <1>5 DEF Take
<1>6. ASSUME NEW t \in Callers,
             \/ \E j \in Jobs : PickQueue(t, j)
             \/ Push(t) \/ Notify(t) \/ UseAfterClear(t)
      PROVE  FALSE
  BY <1>2, <1>3, <1>6 DEF PickQueue, Push, Notify, UseAfterClear, runVars
<1>7. ~DestroyStop /\ ~DestroyNotify /\ ~DestroyClear
  BY <1>2, <1>3 DEF DestroyStop, DestroyNotify, DestroyClear, runVars
<1>. QED
  BY <1>4, <1>5, <1>6, <1>7 DEF Next

\* The steal branch (lines 112-126) and the empty job are unreachable for every
\* number of workers, and no worker takes a job after destroy() stopped the pool.
THEOREM OwnQueueCorrect == Spec => RunsOnOwnQueue
<1>1. ASSUME TypeInv, [Next]_vars
      PROVE  [\A w \in Workers : worker[w] # "taken" /\ worker'[w] = "taken" =>
                /\ accept_jobs
                /\ job_stack[w] # << >>
                /\ current'[w] = Head(job_stack[w])
                /\ job_stack' = [job_stack EXCEPT ![w] = Tail(job_stack[w])]]_vars
  <2>1. SUFFICES ASSUME Next, NEW w \in Workers,
                        worker[w] # "taken", worker'[w] = "taken"
                 PROVE  /\ accept_jobs
                        /\ job_stack[w] # << >>
                        /\ current'[w] = Head(job_stack[w])
                        /\ job_stack' = [job_stack EXCEPT ![w] = Tail(job_stack[w])]
    BY <1>1
  <2>2. Take(w)
    BY <1>1, <2>1, TakesOwnFront
  <2>3. accept_jobs
    BY <2>2 DEF Take, MayTake
  <2>. QED
    BY <1>1, <2>2, <2>3, TakeOwn DEF TypeInv, TypeOK
<1>. QED
  BY TypeInit, TypeStep, <1>1, PTL DEF Spec, RunsOnOwnQueue
=============================================================================
