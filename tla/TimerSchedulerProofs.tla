------------------------ MODULE TimerSchedulerProofs ------------------------
(***************************************************************************)
(* Theorems about TimerScheduler for every set of jobs and of callers and  *)
(* every bound on the clock.                                               *)
(***************************************************************************)
EXTENDS TimerScheduler, TLAPS

\* What is queued or about to be queued has a time, and exactly whoever is about to
\* queue or to hand over a job carries one: the strengthening of TypeOK.
HasTime ==
  /\ jobs \subseteq Called
  /\ \A t \in Callers : adding[t] # NoJob => adding[t] \in Called
  /\ \A t \in Callers : caller[t] = "timed" <=> adding[t] # NoJob
  /\ loop = "handoff" <=> job # NoJob

TypeInv == TypeOK /\ HasTime

LEMMA TypeInit == Init => TypeInv
BY MaxTimeAssumption, NoJobAssumption DEF Init, TypeInv, TypeOK, HasTime, Time, Called

LEMMA TypeStep == TypeInv /\ [Next]_vars => TypeInv'
<1>. SUFFICES ASSUME TypeInv, [Next]_vars PROVE TypeInv'
  OBVIOUS
<1>. USE MaxTimeAssumption, NoJobAssumption
     DEF TypeInv, TypeOK, HasTime, Called, Time
<1>1. CASE UNCHANGED vars
  BY <1>1 DEF vars, loopVars, callVars
<1>2. CASE Tick
  BY <1>2 DEF Tick, loopVars, callVars
<1>3. ASSUME NEW t \in Callers, NEW j \in Jobs, NEW time \in Time, ExecuteAt(t, j, time)
      PROVE  TypeInv'
  BY <1>3 DEF ExecuteAt, loopVars
<1>4. ASSUME NEW t \in Callers, Push(t) PROVE TypeInv'
  BY <1>4 DEF Push, loopVars
<1>5. ASSUME NEW t \in Callers, Notify(t) PROVE TypeInv'
  BY <1>5 DEF Notify, NotifyLoop
<1>6. CASE Check
  BY <1>6 DEF Check, callVars
<1>7. CASE EnterEmpty
  BY <1>7 DEF EnterEmpty, WaitForJob, CountPass, callVars
<1>8. CASE Recheck
  BY <1>8 DEF Recheck, WaitForJob, callVars
<1>9. CASE Handoff
  BY <1>9 DEF Handoff, callVars
<1>10. CASE Timeout
  BY <1>10 DEF Timeout, callVars
<1>11. CASE SpuriousWake
  BY <1>11 DEF SpuriousWake, NotifyLoop, callVars
<1>12. ASSUME NEW j \in Jobs, Pop(j) PROVE TypeInv'
  BY <1>12 DEF Pop, Top, CountPass, callVars
<1>13. ASSUME NEW j \in Jobs, Sleep(j) PROVE TypeInv'
  BY <1>13 DEF Sleep, Top, CountPass, callVars
<1>14. CASE DestroyStop
  BY <1>14 DEF DestroyStop, loopVars, callVars
<1>15. CASE DestroyNotify
  BY <1>15 DEF DestroyNotify, NotifyLoop, callVars
<1>16. CASE DestroyJoin
  BY <1>16 DEF DestroyJoin, loopVars, callVars
<1>. QED
  BY <1>1, <1>2, <1>3, <1>4, <1>5, <1>6, <1>7, <1>8, <1>9, <1>10, <1>11, <1>12, <1>13,
     <1>14, <1>15, <1>16 DEF Next

\* The members of scheduler and the locals of run keep their types; in particular the
\* deadline of a sleep is the time of a job that was added.
THEOREM TypeCorrect == Spec => []TypeOK
<1>1. TypeInv => TypeOK
  BY DEF TypeInv
<1>. QED
  BY <1>1, TypeInit, TypeStep, PTL DEF Spec

-----------------------------------------------------------------------------
(* The sleep of the loop thread. *)

LEMMA OversleepStep == TypeInv /\ NoOversleep /\ [Next]_vars => NoOversleep'
<1>. SUFFICES ASSUME TypeInv, NoOversleep, [Next]_vars PROVE NoOversleep'
  OBVIOUS
<1>. USE MaxTimeAssumption DEF TypeInv, TypeOK, HasTime, Time, NoOversleep, Called
<1>1. CASE UNCHANGED vars
  BY <1>1 DEF vars, loopVars, callVars
<1>2. CASE Tick
  BY <1>2 DEF Tick, loopVars, callVars
<1>3. ASSUME NEW t \in Callers, NEW j \in Jobs, NEW time \in Time, ExecuteAt(t, j, time)
      PROVE  NoOversleep'
  <2>1. \A k \in jobs : due'[k] = due[k]
    BY <1>3 DEF ExecuteAt
  <2>2. \A u \in Callers : caller[u] = "pushed" => caller'[u] = "pushed"
    BY <1>3 DEF ExecuteAt
  <2>. QED
    BY <1>3, <2>1, <2>2 DEF ExecuteAt, loopVars
<1>4. ASSUME NEW t \in Callers, Push(t) PROVE NoOversleep'
  BY <1>4 DEF Push, loopVars
<1>5. ASSUME NEW t \in Callers, Notify(t) PROVE NoOversleep'
  BY <1>5 DEF Notify, NotifyLoop
<1>6. CASE Check
  BY <1>6 DEF Check, callVars
<1>7. CASE EnterEmpty
  BY <1>7 DEF EnterEmpty, WaitForJob, CountPass, callVars
<1>8. CASE Recheck
  BY <1>8 DEF Recheck, WaitForJob, callVars
<1>9. CASE Handoff
  BY <1>9 DEF Handoff, callVars
<1>10. CASE Timeout
  BY <1>10 DEF Timeout, callVars
<1>11. CASE SpuriousWake
  BY <1>11 DEF SpuriousWake, NotifyLoop, callVars
<1>12. ASSUME NEW j \in Jobs, Pop(j) PROVE NoOversleep'
  BY <1>12 DEF Pop, callVars
<1>13. ASSUME NEW j \in Jobs, Sleep(j) PROVE NoOversleep'
  BY <1>13 DEF Sleep, Top, callVars
<1>14. CASE DestroyStop
  BY <1>14 DEF DestroyStop, loopVars, callVars
<1>15. CASE DestroyNotify
  BY <1>15 DEF DestroyNotify, NotifyLoop, callVars
<1>16. CASE DestroyJoin
  BY <1>16 DEF DestroyJoin, loopVars, callVars
<1>. QED
  BY <1>1, <1>2, <1>3, <1>4, <1>5, <1>6, <1>7, <1>8, <1>9, <1>10, <1>11, <1>12, <1>13,
     <1>14, <1>15, <1>16 DEF Next

\* However many threads add timers, the loop thread never sleeps past one, and waits for a
\* first one neither through its arrival nor through a stop, unless the thread that
\* changed that is just about to notify (scheduler.hpp:31-37, 50-57, 92-112).
THEOREM OversleepCorrect == Spec => []NoOversleep
<1>1. Init => NoOversleep
  BY DEF Init, NoOversleep
<1>. QED
  BY <1>1, TypeInit, TypeStep, OversleepStep, PTL DEF Spec

-----------------------------------------------------------------------------
(* The order in which jobs reach the pool. *)

\* Once k was ahead of j: k keeps its place before j in the queue, in the hands of the
\* loop thread, and in the pool.
StaysAhead(k, j) ==
  \/ k \in handed
  \/ /\ k \in jobs \/ k = job
     /\ j \in Called \ (handed \cup {job})
     /\ due[k] < due[j]

LEMMA AheadStep ==
  ASSUME NEW j \in Jobs, NEW k \in Jobs, TypeInv, StaysAhead(k, j), [Next]_vars
  PROVE  StaysAhead(k, j)'
<1>. USE MaxTimeAssumption, NoJobAssumption DEF TypeInv, TypeOK, HasTime, Time, Called, StaysAhead
<1>1. CASE UNCHANGED vars
  BY <1>1 DEF vars, loopVars, callVars
<1>2. CASE Tick
  BY <1>2 DEF Tick, loopVars, callVars
<1>3. ASSUME NEW t \in Callers, NEW i \in Jobs, NEW time \in Time, ExecuteAt(t, i, time)
      PROVE  StaysAhead(k, j)'
  BY <1>3 DEF ExecuteAt, loopVars
<1>4. ASSUME NEW t \in Callers, Push(t) PROVE StaysAhead(k, j)'
  BY <1>4 DEF Push, loopVars
<1>5. ASSUME NEW t \in Callers, Notify(t) PROVE StaysAhead(k, j)'
  BY <1>5 DEF Notify
<1>6. CASE Check
  BY <1>6 DEF Check, callVars
<1>7. CASE EnterEmpty
  BY <1>7 DEF EnterEmpty, callVars
<1>8. CASE Recheck
  BY <1>8 DEF Recheck, callVars
<1>9. CASE Handoff
  BY <1>9 DEF Handoff, callVars
<1>10. CASE Timeout
  BY <1>10 DEF Timeout, callVars
<1>11. CASE SpuriousWake
  BY <1>11 DEF SpuriousWake, callVars
<1>12. ASSUME NEW i \in Jobs, Pop(i) PROVE StaysAhead(k, j)'
  BY <1>12 DEF Pop, Top, callVars
<1>13. ASSUME NEW i \in Jobs, Sleep(i) PROVE StaysAhead(k, j)'
  BY <1>13 DEF Sleep, callVars
<1>14. CASE DestroyStop
  BY <1>14 DEF DestroyStop, loopVars, callVars
<1>15. CASE DestroyNotify
  BY <1>15 DEF DestroyNotify, callVars
<1>16. CASE DestroyJoin
  BY <1>16 DEF DestroyJoin, loopVars, callVars
<1>. QED
  BY <1>1, <1>2, <1>3, <1>4, <1>5, <1>6, <1>7, <1>8, <1>9, <1>10, <1>11, <1>12, <1>13,
     <1>14, <1>15, <1>16 DEF Next

\* What the loop thread has taken is due.
TakenIsDue == \A j \in handed \cup ({job} \ {NoJob}) : j \in Called /\ due[j] <= now

LEMMA DueStep == TypeInv /\ TakenIsDue /\ [Next]_vars => TakenIsDue'
<1>. SUFFICES ASSUME TypeInv, TakenIsDue, [Next]_vars PROVE TakenIsDue'
  OBVIOUS
<1>. USE MaxTimeAssumption, NoJobAssumption DEF TypeInv, TypeOK, HasTime, Time, Called, TakenIsDue
<1>1. ASSUME NEW t \in Callers, NEW i \in Jobs, NEW time \in Time, ExecuteAt(t, i, time)
      PROVE  TakenIsDue'
  BY <1>1 DEF ExecuteAt, loopVars
<1>2. ASSUME NEW i \in Jobs, Pop(i) PROVE TakenIsDue'
  BY <1>2 DEF Pop, Top, callVars
<1>3. CASE Handoff
  BY <1>3 DEF Handoff, callVars
<1>4. CASE Tick
  BY <1>4 DEF Tick, loopVars, callVars
<1>5. CASE UNCHANGED <<now, due, job, handed>>
  BY <1>5
<1>. QED
  BY <1>1, <1>2, <1>3, <1>4, <1>5 DEF Next, vars, loopVars, callVars, Push, Notify, Check,
     EnterEmpty, Recheck, Timeout, SpuriousWake, Sleep, DestroyStop, DestroyNotify, DestroyJoin

\* A job reaches the pool at its time or later, and is never overtaken by one that is due
\* later and that the loop thread took after it was queued (scheduler.hpp:96-112).
THEOREM OrderCorrect == Spec => HandedInOrder
<1>1. Spec => [](\A j \in handed : due[j] <= now)
  <2>1. Init => TakenIsDue
    BY DEF Init, TakenIsDue
  <2>2. TakenIsDue => \A j \in handed : due[j] <= now
    BY DEF TakenIsDue
  <2>. QED
    BY <2>1, <2>2, TypeInit, TypeStep, DueStep, PTL DEF Spec
<1>2. ASSUME NEW j \in Jobs, NEW k \in Jobs
      PROVE  Spec => [](Ahead(k, j) => [](j \in handed => k \in handed))
  <2>1. Ahead(k, j) => StaysAhead(k, j)
    BY DEF Ahead, StaysAhead
  <2>2. StaysAhead(k, j) => (j \in handed => k \in handed)
    BY DEF StaysAhead
  <2>3. TypeInv /\ StaysAhead(k, j) /\ [Next]_vars => StaysAhead(k, j)'
    BY AheadStep
  <2>. QED
    BY <2>1, <2>2, <2>3, TypeInit, TypeStep, PTL DEF Spec
<1>. QED
  BY <1>1, <1>2 DEF HandedInOrder

-----------------------------------------------------------------------------
(* What a stop lets through. *)

\* The loop thread is past its look at m_running (line 88) at most once after the stop:
\* a pass counted as late leaves it elsewhere than about to enter.
LateInv ==
  /\ running => late = 0
  /\ loop = "enter" => late = 0

LEMMA LateStep ==
  TypeOK /\ LateInv /\ OnePassAfterStop /\ [Next]_vars => (LateInv /\ OnePassAfterStop)'
<1>. SUFFICES ASSUME TypeOK, LateInv, OnePassAfterStop, [Next]_vars
              PROVE  (LateInv /\ OnePassAfterStop)'
  OBVIOUS
<1>. USE DEF TypeOK, LateInv, OnePassAfterStop
<1>1. CASE UNCHANGED vars
  BY <1>1 DEF vars, loopVars
<1>2. CASE Tick
  BY <1>2 DEF Tick, loopVars
<1>3. ASSUME NEW t \in Callers, NEW j \in Jobs, NEW time \in Time, ExecuteAt(t, j, time)
      PROVE  (LateInv /\ OnePassAfterStop)'
  BY <1>3 DEF ExecuteAt, loopVars
<1>4. ASSUME NEW t \in Callers, Push(t) PROVE (LateInv /\ OnePassAfterStop)'
  BY <1>4 DEF Push, loopVars
<1>5. ASSUME NEW t \in Callers, Notify(t) PROVE (LateInv /\ OnePassAfterStop)'
  BY <1>5 DEF Notify, NotifyLoop
<1>6. CASE Check
  BY <1>6 DEF Check
<1>7. CASE EnterEmpty
  BY <1>7 DEF EnterEmpty, WaitForJob, CountPass
<1>8. CASE Recheck
  BY <1>8 DEF Recheck, WaitForJob
<1>9. CASE Handoff
  BY <1>9 DEF Handoff
<1>10. CASE Timeout
  BY <1>10 DEF Timeout
<1>11. CASE SpuriousWake
  BY <1>11 DEF SpuriousWake, NotifyLoop
<1>12. ASSUME NEW j \in Jobs, Pop(j) PROVE (LateInv /\ OnePassAfterStop)'
  BY <1>12 DEF Pop, CountPass
<1>13. ASSUME NEW j \in Jobs, Sleep(j) PROVE (LateInv /\ OnePassAfterStop)'
  BY <1>13 DEF Sleep, CountPass
<1>14. CASE DestroyStop
  BY <1>14 DEF DestroyStop, loopVars
<1>15. CASE DestroyNotify
  BY <1>15 DEF DestroyNotify, NotifyLoop
<1>16. CASE DestroyJoin
  BY <1>16 DEF DestroyJoin, loopVars
<1>. QED
  BY <1>1, <1>2, <1>3, <1>4, <1>5, <1>6, <1>7, <1>8, <1>9, <1>10, <1>11, <1>12, <1>13,
     <1>14, <1>15, <1>16 DEF Next

\* After m_running is cleared the loop thread begins at most one more pass, whatever
\* the moment of the stop (scheduler.hpp:33-37, 88-94).
THEOREM OnePassCorrect == Spec => []OnePassAfterStop
<1>1. Init => LateInv /\ OnePassAfterStop
  BY DEF Init, LateInv, OnePassAfterStop
<1>. QED
  BY <1>1, TypeCorrect, LateStep, PTL DEF Spec

-----------------------------------------------------------------------------
(* A job is in one place. *)

LEMMA InOnePlaceStep == TypeInv /\ TimerInOnePlace /\ [Next]_vars => TimerInOnePlace'
<1>. SUFFICES ASSUME TypeInv, TimerInOnePlace, [Next]_vars PROVE TimerInOnePlace'
  OBVIOUS
<1>. USE MaxTimeAssumption, NoJobAssumption
     DEF TypeInv, TypeOK, HasTime, Called, Time, TimerInOnePlace
<1>1. CASE UNCHANGED <<jobs, due, job, adding, handed>>
  BY <1>1
<1>2. ASSUME NEW t \in Callers, NEW j \in Jobs, NEW time \in Time, ExecuteAt(t, j, time)
      PROVE  TimerInOnePlace'
  <2>1. adding[t] = NoJob /\ adding' = [adding EXCEPT ![t] = j]
    BY <1>2 DEF ExecuteAt
  <2>2. {adding'[u] : u \in Callers} \ {NoJob} = ({adding[u] : u \in Callers} \ {NoJob}) \cup {j}
    BY <2>1
  <2>3. Called' = Called \cup {j} /\ j \notin Called
    BY <1>2 DEF ExecuteAt
  <2>4. UNCHANGED <<jobs, job, handed>>
    BY <1>2 DEF ExecuteAt, loopVars
  <2>5. \A u \in Callers : adding[u] # NoJob => adding[u] # j
    BY <2>3
  <2>. QED
    BY <2>1, <2>2, <2>3, <2>4, <2>5
<1>3. ASSUME NEW t \in Callers, Push(t) PROVE TimerInOnePlace'
  <2>1. adding[t] # NoJob /\ adding' = [adding EXCEPT ![t] = NoJob]
    BY <1>3 DEF Push
  <2>2. {adding'[u] : u \in Callers} \ {NoJob}
          = ({adding[u] : u \in Callers} \ {NoJob}) \ {adding[t]}
    BY <2>1
  <2>3. jobs' = jobs \cup {adding[t]} /\ UNCHANGED <<due, job, handed>>
    BY <1>3 DEF Push, loopVars
  <2>. QED
    BY <2>1, <2>2, <2>3
<1>4. ASSUME NEW j \in Jobs, Pop(j) PROVE TimerInOnePlace'
  BY <1>4 DEF Pop, Top, callVars
<1>5. CASE Handoff
  BY <1>5 DEF Handoff, callVars
<1>. QED
  BY <1>1, <1>2, <1>3, <1>4, <1>5 DEF Next, vars, loopVars, callVars, Tick, Notify, Check,
     EnterEmpty, Recheck, Timeout, SpuriousWake, Sleep, DestroyStop, DestroyNotify,
     DestroyJoin

\* No timer is lost, queued twice or handed over twice, whatever threads add timers
\* while the loop thread pops them (scheduler.hpp:52-56, 103-107).
THEOREM InOnePlaceCorrect == Spec => []TimerInOnePlace
<1>1. Init => TimerInOnePlace
  BY NoJobAssumption DEF Init, TimerInOnePlace, Called
<1>. QED
  BY <1>1, TypeInit, TypeStep, InOnePlaceStep, PTL DEF Spec
=============================================================================
