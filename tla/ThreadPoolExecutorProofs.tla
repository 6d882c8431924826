---------------------- MODULE ThreadPoolExecutorProofs ----------------------
(***************************************************************************)
(* usage() counts the workers inside a job, and every step of the pool is  *)
(* a step of JobExecutor or changes nothing JobExecutor sees.              *)
(***************************************************************************)
EXTENDS ThreadPoolOnceProofs

LEMMA WorkersFinite == IsFiniteSet(Workers) /\ Cardinality(Workers) = N
BY NAssumption, FS_Interval DEF Workers

(* busy_threads. *)

LEMMA BusyStep ==
  ASSUME TypeInv, BusyCount, [Next]_vars
  PROVE  BusyCount'
<1>1. IsFiniteSet(Busy)
  BY WorkersFinite, FS_Subset DEF Busy
<1>. USE DEF TypeInv, TypeOK
<1>2. ASSUME UNCHANGED busy_threads, Busy' = Busy
      PROVE  BusyCount'
  BY <1>2 DEF BusyCount
<1>3. ASSUME NEW t \in Callers,
             (\E j \in Jobs : PickQueue(t, j)) \/ Push(t) \/ Notify(t) \/ UseAfterClear(t)
      PROVE  UNCHANGED busy_threads /\ Busy' = Busy
  BY <1>3 DEF PickQueue, Push, Notify, NotifyAll, UseAfterClear, Busy, poolVars, runVars
<1>4. ASSUME NEW w \in Workers, Wait(w) \/ SpuriousWake(w) \/ Exit(w) \/ Take(w)
      PROVE  UNCHANGED busy_threads /\ Busy' = Busy
  BY <1>4 DEF Wait, SpuriousWake, Exit, Take, MayTake, Busy, poolVars
<1>5. ASSUME NEW w \in Workers, Start(w)
      PROVE  BusyCount'
  <2>1. w \notin Busy /\ Busy' = Busy \cup {w}
    BY <1>5 DEF Start, Busy
  <2>2. Cardinality(Busy') = Cardinality(Busy) + 1
    BY <1>1, <2>1, FS_AddElement
  <2>. QED
    BY <1>5, <2>2 DEF Start, BusyCount
<1>6. ASSUME NEW w \in Workers, Finish(w)
      PROVE  BusyCount'
  <2>1. w \in Busy /\ Busy' = Busy \ {w}
    BY <1>6 DEF Finish, Busy
  <2>2. Cardinality(Busy') = Cardinality(Busy) - 1
    BY <1>1, <2>1, FS_RemoveElement
  <2>. QED
    BY <1>6, <2>2 DEF Finish, BusyCount
<1>7. ASSUME DestroyStop \/ DestroyNotify \/ DestroyClear \/ UNCHANGED vars
      PROVE  UNCHANGED busy_threads /\ Busy' = Busy
  BY <1>7 DEF DestroyStop, DestroyNotify, DestroyClear, NotifyAll, Busy, vars, poolVars, runVars
<1>. QED
  BY <1>2, <1>3, <1>4, <1>5, <1>6, <1>7 DEF Next

\* For every number of workers, m_busy_threads is the number of workers between the
\* two counter updates of run() (thread_pool.cpp:130 and 144).
THEOREM BusyCorrect == Spec => []BusyCount
<1>1. Init => BusyCount
  <2>1. ASSUME Init PROVE Busy = {}
    BY <2>1 DEF Init, Busy
  <2>. QED
    BY <2>1, FS_EmptySet DEF Init, BusyCount
<1>. QED
  BY TypeInit, TypeStep, <1>1, BusyStep, PTL DEF Spec

-----------------------------------------------------------------------------
(* Refinement. *)

\* The deques are empty and no worker holds a job once every worker has left run().
LEMMA FewerThanLimit ==
  ASSUME OnceInv, NEW w \in Workers, current[w] = NoJob
  PROVE  Cardinality(InHand) < N
<1>1. Holding \subseteq Workers \ {w}
  BY DEF Holding
<1>2. IsFiniteSet(Workers \ {w}) /\ Cardinality(Workers \ {w}) = N - 1
  BY WorkersFinite, FS_RemoveElement
<1>3. IsFiniteSet(Holding) /\ Cardinality(Holding) <= N - 1
  BY <1>1, <1>2, FS_Subset
<1>. DEFINE f == [v \in Holding |-> current[v]]
<1>4. f \in Surjection(Holding, InHand)
  <2>1. f \in [Holding -> InHand]
    BY DEF Holding, InHand
  <2>2. \A j \in InHand : \E v \in Holding : f[v] = j
    BY DEF Holding, InHand
  <2>. QED
    BY <2>1, <2>2 DEF Surjection
<1>5. IsFiniteSet(InHand) /\ Cardinality(InHand) <= Cardinality(Holding)
  BY <1>3, <1>4, FS_Surjection
<1>6. Cardinality(InHand) \in Nat /\ Cardinality(Holding) \in Nat
  BY <1>3, <1>5, FS_CardinalityType
<1>. QED
  BY <1>3, <1>5, <1>6, NAssumption

\* JobExecutor counts with the Cardinality it gets from its own EXTENDS.
LEMMA SameCardinality == Executor!Cardinality(InHand) = Cardinality(InHand)
BY DEF Executor!Cardinality, Cardinality

LEMMA RefinementInit == Init => Executor!Init
<1>. SUFFICES ASSUME Init PROVE Executor!Init
  OBVIOUS
<1>1. InHand = {}
  BY DEF Init, InHand
<1>2. \A w \in Workers : DOMAIN job_stack[w] = {}
  BY DEF Init
<1>3. Queued = {}
  BY <1>2 DEF Queued, Range
<1>. QED
  BY <1>1, <1>3 DEF Init, Executor!Init

LEMMA RefinementPush ==
  ASSUME OnceInv, NEW t \in Callers, Push(t)
  PROVE  Executor!Submit(carrying[t]) /\ carrying[t] \in Jobs
<1>1. /\ carrying[t] \in Jobs /\ carrying[t] \in Carried
      /\ UNCHANGED <<InHand, done, dropped, accept_jobs>>
  BY NoJobIsNoJob DEF OnceInv, TypeInv, CarriesJob, Push, Carried, InHand, runVars, history
<1>2. carrying[t] \notin Queued \cup InHand \cup done \cup dropped
  BY <1>1 DEF OnceInv, JobInOnePlace, Apart
<1>3. Queued' = Queued \cup {carrying[t]}
  BY OncePush
<1>. QED
  BY <1>1, <1>2, <1>3 DEF Executor!Submit, Executor!Known

LEMMA RefinementTake ==
  ASSUME OnceInv, NEW w \in Workers, Take(w)
  PROVE  Executor!Start(Head(job_stack[w])) /\ Head(job_stack[w]) \in Jobs
<1>1. current[w] = NoJob /\ accept_jobs /\ UNCHANGED <<done, dropped, accept_jobs>>
  BY DEF OnceInv, HandsFull, Take, MayTake, history
<1>2. Cardinality(InHand) < N
  BY <1>1, FewerThanLimit
<1>. DEFINE h == Head(job_stack[w])
<1>3. h \in Queued /\ Queued' = Queued \ {h} /\ InHand' = InHand \cup {h}
  BY OnceTake
<1>4. h \in Jobs
  BY <1>3, Places DEF OnceInv
<1>. HIDE DEF h
<1>5. Executor!Start(h)
  BY <1>1, <1>2, <1>3, SameCardinality DEF Executor!Start
<1>. QED
  BY <1>4, <1>5 DEF h

LEMMA RefinementFinish ==
  ASSUME OnceInv, NEW w \in Workers, Finish(w)
  PROVE  Executor!Finish(current[w]) /\ current[w] \in Jobs
<1>1. UNCHANGED <<Queued, dropped, accept_jobs>>
  BY DEF Finish, Queued
<1>2. current[w] \in Jobs
  BY OnceFinish, Places DEF OnceInv
<1>. QED
  BY <1>1, <1>2, OnceFinish DEF Executor!Finish

LEMMA RefinementClear ==
  ASSUME OnceInv, DestroyClear, ~accept_jobs
  PROVE  Executor!Discard
<1>1. InHand = {} /\ UNCHANGED <<InHand, done, accept_jobs>>
  BY DEF OnceInv, HandsFull, DestroyClear, InHand, runVars
<1>. QED
  BY <1>1, OnceClear DEF Executor!Discard

\* The pool accepts jobs exactly until the first critical section of destroy().
StoppedByDestroy == accept_jobs <=> destroy = "live"

LEMMA StoppedStep ==
  ASSUME StoppedByDestroy, [Next]_vars
  PROVE  StoppedByDestroy'
BY DEF StoppedByDestroy, Next, PickQueue, Push, Notify, UseAfterClear, Wait, SpuriousWake,
       Exit, Take, Start, Finish, DestroyStop, DestroyNotify, DestroyClear,
       vars, poolVars, callVars

\* Steps that move no job and stop nothing.
LEMMA RefinementFrame ==
  ASSUME UNCHANGED <<job_stack, current, done, dropped, accept_jobs>>
  PROVE  UNCHANGED Executor!vars
BY DEF Executor!vars, Queued, InHand

LEMMA RefinementStep ==
  ASSUME OnceInv, StoppedByDestroy, [Next]_vars
  PROVE  [Executor!Next]_(Executor!vars)
<1>1. ASSUME NEW t \in Callers, Push(t)
      PROVE  Executor!Next
  BY <1>1, RefinementPush DEF Executor!Next
<1>2. ASSUME NEW w \in Workers, Take(w) \/ Finish(w)
      PROVE  Executor!Next
  BY <1>2, RefinementTake, RefinementFinish DEF Executor!Next
<1>3. ASSUME DestroyStop
      PROVE  Executor!Next
  <2>1. /\ accept_jobs /\ accept_jobs' = FALSE
        /\ UNCHANGED <<Queued, InHand, done, dropped>>
    BY <1>3 DEF DestroyStop, StoppedByDestroy, Queued, InHand, runVars, history
  <2>. QED
    BY <2>1 DEF Executor!Next, Executor!Close
<1>4. ASSUME DestroyClear
      PROVE  Executor!Next
  <2>1. ~accept_jobs
    BY <1>4 DEF DestroyClear, StoppedByDestroy
  <2>. QED
    BY <1>4, <2>1, RefinementClear DEF Executor!Next
<1>5. ASSUME NEW t \in Callers,
             (\E j \in Jobs : PickQueue(t, j)) \/ Notify(t) \/ UseAfterClear(t)
      PROVE  UNCHANGED Executor!vars
  <2>1. UNCHANGED <<job_stack, current, done, dropped, accept_jobs>>
    BY <1>5 DEF PickQueue, Notify, UseAfterClear, poolVars, runVars, history
  <2>. QED
    BY <2>1, RefinementFrame
<1>6. ASSUME NEW w \in Workers, Wait(w) \/ SpuriousWake(w) \/ Exit(w) \/ Start(w)
      PROVE  UNCHANGED Executor!vars
  <2>1. UNCHANGED <<job_stack, current, done, dropped, accept_jobs>>
    BY <1>6 DEF Wait, SpuriousWake, Exit, Start, poolVars, history
  <2>. QED
    BY <2>1, RefinementFrame
<1>7. ASSUME DestroyNotify \/ UNCHANGED vars
      PROVE  UNCHANGED Executor!vars
  <2>1. UNCHANGED <<job_stack, current, done, dropped, accept_jobs>>
    BY <1>7 DEF DestroyNotify, vars, poolVars, runVars, history
  <2>. QED
    BY <2>1, RefinementFrame
<1>. QED
  BY <1>1, <1>2, <1>3, <1>4, <1>5, <1>6, <1>7 DEF Next

\* For every number of workers and callers and every finite set of jobs, the pool
\* implements JobExecutor: push is Submit, pop is Start, the end of a job Finish,
\* the first critical section of destroy Close, its clear Discard.
THEOREM Refinement == Spec => ImplementsExecutor
<1>1. Init => OnceInv
  BY TypeInit, HandsInit, OnceInit DEF OnceInv
<1>2. Init => StoppedByDestroy
  BY DEF Init, StoppedByDestroy
<1>. QED
  BY <1>1, <1>2, OnceStep, StoppedStep, RefinementInit, RefinementStep, PTL
     DEF Spec, ImplementsExecutor, Executor!Spec
=============================================================================
