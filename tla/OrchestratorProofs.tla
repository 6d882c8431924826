-------------------------- MODULE OrchestratorProofs --------------------------
(***************************************************************************)
(* Theorems about Orchestrator for every set of coroutines, every finite   *)
(* set of threads outside and every bound on the suspensions.              *)
(***************************************************************************)
EXTENDS Orchestrator, FiniteSetTheorems, FunctionTheorems, SequenceTheorems, TLAPS

LEMMA TypeInit == Init => TypeOK
<1>. SUFFICES ASSUME Init PROVE TypeOK
  OBVIOUS
<1>1. 0 \in 0 .. 2 /\ 0 \in 0 .. MaxYields
  BY OrchestratorAssumption
<1>2. /\ given \in [Handles -> 0 .. 2] /\ yields \in 0 .. MaxYields
      /\ queue \in Seq(Handles) /\ early \subseteq Handles
  BY <1>1 DEF Init
<1>3. /\ \A l \in Loops : loop[l] = "off" /\ hand[l] = NoHandle
      /\ \A a \in Agents : call[a] = "none" /\ arg[a] = NoHandle
  BY DEF Init
<1>. QED
  BY <1>2, <1>3 DEF Init, TypeOK

LEMMA TypeStep == TypeOK /\ [Next]_vars => TypeOK'
<1>. SUFFICES ASSUME TypeOK, [Next]_vars PROVE TypeOK'
  OBVIOUS
<1>. USE OrchestratorAssumption DEF TypeOK, Agents
<1>1. CASE UNCHANGED vars
  BY <1>1 DEF vars, loopVars, callVars, stopVars, history
<1>2. ASSUME NEW l \in Loops, Start(l) PROVE TypeOK'
  BY <1>2 DEF Start, callVars, stopVars, history
<1>3. ASSUME NEW l \in Loops, SpuriousWake(l) PROVE TypeOK'
  BY <1>3 DEF SpuriousWake, callVars, stopVars, history
<1>4. ASSUME NEW l \in Loops, Wait(l) PROVE TypeOK'
  BY <1>4 DEF Wait, Looking, callVars, stopVars, history
<1>5. ASSUME NEW l \in Loops, Exit(l) PROVE TypeOK'
  BY <1>5 DEF Exit, Looking, callVars, stopVars, history
<1>6. ASSUME NEW l \in Loops, Take(l) PROVE TypeOK'
  BY <1>6 DEF Take, Looking, callVars, stopVars, history
<1>7. ASSUME NEW l \in Loops, Skip(l) PROVE TypeOK'
  BY <1>7 DEF Skip, callVars, stopVars, history
<1>8. ASSUME NEW l \in Loops, Resume(l) PROVE TypeOK'
  BY <1>8 DEF Resume, callVars, stopVars, history
<1>9. ASSUME NEW l \in Loops, ResumeRunning(l) PROVE TypeOK'
  BY <1>9 DEF ResumeRunning, loopVars, callVars, stopVars, history
<1>10. ASSUME NEW l \in Loops, Yield(l) PROVE TypeOK'
  BY <1>10 DEF Yield, Free, callVars, stopVars
<1>11. ASSUME NEW l \in Loops, Finish(l) PROVE TypeOK'
  BY <1>11 DEF Finish, Free, callVars, stopVars, history
<1>12. ASSUME NEW l \in Loops, Requeue(l) PROVE TypeOK'
  BY <1>12 DEF Requeue, stopVars, history
<1>13. ASSUME NEW l \in Loops, Ended(l) PROVE TypeOK'
  BY <1>13 DEF Ended, callVars, stopVars, history
<1>14. ASSUME NEW a \in Agents, NEW h \in Handles, Enqueue(a, h) PROVE TypeOK'
  BY <1>14 DEF Enqueue, MaxCalls, loopVars, stopVars
<1>15. ASSUME NEW a \in Agents, Push(a) PROVE TypeOK'
  BY <1>15 DEF Push, loopVars, stopVars
<1>16. ASSUME NEW a \in Agents, Notify(a) PROVE TypeOK'
  BY <1>16 DEF Notify, NotifyOne, Woken, Waiting, stopVars, history
<1>17. ASSUME NEW a \in Agents, StopFlag(a) PROVE TypeOK'
  BY <1>17 DEF StopFlag, loopVars, callVars, history
<1>18. CASE StopNotify
  BY <1>18 DEF StopNotify, Woken, Waiting, callVars, history
<1>19. CASE StopJoin
  BY <1>19 DEF StopJoin, loopVars, callVars, history
<1>. QED
  BY <1>1, <1>2, <1>3, <1>4, <1>5, <1>6, <1>7, <1>8, <1>9, <1>10, <1>11, <1>12, <1>13,
     <1>14, <1>15, <1>16, <1>17, <1>18, <1>19 DEF Next

\* The members of orchestrator and the locals of its loops keep their types; a loop has
\* a handle in hand exactly from line 60 to line 73.
THEOREM TypeCorrect == Spec => []TypeOK
BY TypeInit, TypeStep, PTL DEF Spec

-----------------------------------------------------------------------------
(* Wake-ups. *)

\* A loop calls enqueue only from a coroutine and in line 73.
CallSites == \A l \in Loops : loop[l] \notin {"body", "requeue"} => call[l] = "none"

\* Whoever is inside stop() has set stopped_.
StopSites == stop # "idle" => stopped

\* The strengthening of NoLostWakeup: without CallSites a loop that queues a coroutine
\* again might overwrite a notification it still owes, without StopSites a loop might
\* fall asleep after the notification of stop.
WakeInv == TypeOK /\ CallSites /\ StopSites /\ NoLostWakeup

LEMMA CallSitesStep == TypeOK /\ CallSites /\ [Next]_vars => CallSites'
<1>. SUFFICES ASSUME TypeOK, CallSites, [Next]_vars PROVE CallSites'
  OBVIOUS
<1>. USE DEF TypeOK, CallSites, Agents
<1>1. CASE UNCHANGED vars
  BY <1>1 DEF vars, loopVars, callVars
<1>2. ASSUME NEW l \in Loops,
             Start(l) \/ SpuriousWake(l) \/ Wait(l) \/ Exit(l) \/ Take(l)
      PROVE  CallSites'
  BY <1>2 DEF Start, SpuriousWake, Wait, Exit, Take, Looking, callVars
<1>3. ASSUME NEW l \in Loops,
             Skip(l) \/ Resume(l) \/ ResumeRunning(l) \/ Yield(l) \/ Finish(l) \/ Ended(l)
      PROVE  CallSites'
  BY <1>3 DEF Skip, Resume, ResumeRunning, Yield, Finish, Ended, Free, loopVars, callVars
<1>4. ASSUME NEW l \in Loops, Requeue(l) PROVE CallSites'
  BY <1>4 DEF Requeue
<1>5. ASSUME NEW a \in Agents, NEW h \in Handles, Enqueue(a, h) PROVE CallSites'
  BY <1>5 DEF Enqueue, Free, loopVars
<1>6. ASSUME NEW a \in Agents, Push(a) PROVE CallSites'
  BY <1>6 DEF Push, loopVars
<1>7. ASSUME NEW a \in Agents, Notify(a) PROVE CallSites'
  BY <1>7 DEF Notify, NotifyOne, Woken, Waiting
<1>8. ASSUME NEW a \in Agents, StopFlag(a) PROVE CallSites'
  BY <1>8 DEF StopFlag, loopVars, callVars
<1>9. CASE StopNotify
  BY <1>9 DEF StopNotify, Woken, Loops, Waiting, callVars
<1>10. CASE StopJoin
  BY <1>10 DEF StopJoin, loopVars, callVars
<1>. QED
  BY <1>1, <1>2, <1>3, <1>4, <1>5, <1>6, <1>7, <1>8, <1>9, <1>10 DEF Next

LEMMA StopSitesStep == StopSites /\ [Next]_vars => StopSites'
<1>. SUFFICES ASSUME StopSites, [Next]_vars PROVE StopSites'
  OBVIOUS
<1>1. CASE UNCHANGED stopVars
  BY <1>1 DEF StopSites, stopVars
<1>2. ASSUME NEW a \in Agents, StopFlag(a) PROVE StopSites'
  BY <1>2 DEF StopFlag, StopSites
<1>3. CASE StopNotify \/ StopJoin
  BY <1>3 DEF StopNotify, StopJoin, StopSites
<1>4. ASSUME NEW l \in Loops,
             Start(l) \/ SpuriousWake(l) \/ Wait(l) \/ Exit(l) \/ Take(l) \/ Skip(l)
               \/ Resume(l) \/ ResumeRunning(l) \/ Yield(l) \/ Finish(l) \/ Requeue(l) \/ Ended(l)
      PROVE  UNCHANGED stopVars
  BY <1>4 DEF Start, SpuriousWake, Wait, Exit, Take, Skip, Resume, ResumeRunning, Yield, Finish,
              Requeue, Ended
<1>5. ASSUME NEW a \in Agents, (\E h \in Handles : Enqueue(a, h)) \/ Push(a) \/ Notify(a)
      PROVE  UNCHANGED stopVars
  BY <1>5 DEF Enqueue, Push, Notify
<1>6. CASE UNCHANGED vars
  BY <1>1, <1>6 DEF vars
<1>. QED
  BY <1>1, <1>2, <1>3, <1>4, <1>5, <1>6 DEF Next

LEMMA AgentsFinite == ASSUME NEW S, S \subseteq Agents
                      PROVE  IsFiniteSet(S) /\ Cardinality(S) \in Nat
<1>1. IsFiniteSet({"run"})
  BY FS_Singleton
<1>2. IsFiniteSet({"run"} \cup {"runner"})
  BY <1>1, FS_AddElement
<1>3. Loops = {"run"} \cup {"runner"}
  BY DEF Loops
<1>4. IsFiniteSet(Agents)
  BY <1>2, <1>3, OrchestratorAssumption, FS_Union DEF Agents
<1>. QED
  BY <1>4, FS_Subset, FS_CardinalityType

LEMMA Counts ==
  /\ IsFiniteSet(Awake) /\ Cardinality(Awake) \in Nat
  /\ IsFiniteSet(Awake') /\ Cardinality(Awake') \in Nat
  /\ IsFiniteSet(Notifying) /\ Cardinality(Notifying) \in Nat
  /\ IsFiniteSet(Notifying') /\ Cardinality(Notifying') \in Nat
<1>1. Awake \subseteq Agents /\ Awake' \subseteq Agents
  BY DEF Awake, Agents
<1>2. Notifying \subseteq Agents /\ Notifying' \subseteq Agents
  BY DEF Notifying
<1>. QED
  BY <1>1, <1>2, AgentsFinite

\* A step that leaves at most as many handles in the queue, at most the same loops asleep
\* and as many loops awake or about to be woken.
LEMMA NoMoreWork ==
  ASSUME TypeOK, TypeOK', NoLostWakeup, Waiting' \subseteq Waiting, UNCHANGED stopVars,
         Len(queue') <= Len(queue), Cardinality(Awake') >= Cardinality(Awake),
         Notifying' = Notifying
  PROVE  NoLostWakeup'
<1>1. Len(queue) \in Nat /\ Len(queue') \in Nat
  BY DEF TypeOK
<1>. QED
  BY <1>1, Counts DEF NoLostWakeup, stopVars

LEMMA WakeStep == WakeInv /\ [Next]_vars => NoLostWakeup'
<1>. SUFFICES ASSUME WakeInv, [Next]_vars PROVE NoLostWakeup'
  OBVIOUS
<1>. USE DEF WakeInv
<1>0. TypeOK' /\ Len(queue) \in Nat /\ Len(queue') \in Nat
  <2>1. TypeOK'
    BY TypeStep
  <2>. QED
    BY <2>1 DEF TypeOK
<1>1. CASE UNCHANGED vars
  BY <1>1 DEF vars, loopVars, callVars, stopVars, NoLostWakeup, Waiting, Awake, Notifying
<1>2. ASSUME NEW l \in Loops,
             Start(l) \/ Skip(l) \/ Resume(l) \/ ResumeRunning(l) \/ Yield(l) \/ Finish(l)
               \/ Ended(l)
      PROVE  NoLostWakeup'
  <2>1. Waiting' = Waiting /\ Awake' = Awake
    BY <1>2 DEF Start, Skip, Resume, ResumeRunning, Yield, Finish, Ended, Free, loopVars,
                TypeOK, Waiting, Awake
  <2>2. UNCHANGED <<stopVars, queue, call>>
    BY <1>2 DEF Start, Skip, Resume, ResumeRunning, Yield, Finish, Ended, callVars
  <2>. QED
    BY <1>0, <2>1, <2>2, Counts, NoMoreWork DEF Notifying
<1>3. ASSUME NEW l \in Loops, SpuriousWake(l) PROVE NoLostWakeup'
  <2>1. Waiting' \subseteq Waiting /\ l \notin Awake /\ Awake' = Awake \cup {l}
    BY <1>3 DEF SpuriousWake, TypeOK, Waiting, Awake
  <2>2. Cardinality(Awake') = Cardinality(Awake) + 1
    BY <2>1, Counts, FS_AddElement
  <2>3. UNCHANGED <<stopVars, queue, call>>
    BY <1>3 DEF SpuriousWake, callVars
  <2>. QED
    BY <1>0, <2>1, <2>2, <2>3, Counts, NoMoreWork DEF Notifying
<1>4. ASSUME NEW l \in Loops, Wait(l) PROVE NoLostWakeup'
  <2>1. Len(queue') = 0 /\ ~stopped'
    BY <1>4 DEF Wait, stopVars
  <2>. QED
    BY <2>1, Counts DEF NoLostWakeup
<1>5. ASSUME NEW l \in Loops, Exit(l) PROVE NoLostWakeup'
  <2>1. Len(queue') = 0 /\ UNCHANGED stopVars
    BY <1>5 DEF Exit, MayExit
  <2>2. Waiting' = Waiting
    BY <1>5 DEF Exit, Looking, TypeOK, Waiting
  <2>. QED
    BY <2>1, <2>2, Counts DEF NoLostWakeup, stopVars
<1>6. ASSUME NEW l \in Loops, Take(l) PROVE NoLostWakeup'
  <2>1. Len(queue') = Len(queue) - 1
    BY <1>6 DEF Take, TypeOK
  <2>2. Waiting' = Waiting /\ Awake' = Awake \ {l}
    BY <1>6 DEF Take, Looking, TypeOK, Waiting, Awake
  <2>3. Cardinality(Awake') >= Cardinality(Awake) - 1
    BY <2>2, Counts, FS_RemoveElement
  <2>4. UNCHANGED <<stopVars, call>>
    BY <1>6 DEF Take, callVars
  <2>5. Notifying' = Notifying
    BY <2>4 DEF Notifying
  <2>. QED
    BY <1>0, <2>1, <2>2, <2>3, <2>4, <2>5, Counts DEF NoLostWakeup, stopVars
<1>7. ASSUME NEW l \in Loops, Requeue(l) PROVE NoLostWakeup'
  <2>1. Waiting' = Waiting /\ Awake' = Awake
    BY <1>7 DEF Requeue, TypeOK, Waiting, Awake
  <2>2. Notifying' = Notifying
    BY <1>7 DEF Requeue, CallSites, TypeOK, Notifying, Agents
  <2>3. UNCHANGED <<stopVars, queue>>
    BY <1>7 DEF Requeue
  <2>. QED
    BY <1>0, <2>1, <2>2, <2>3, Counts, NoMoreWork
<1>8. ASSUME NEW a \in Agents, NEW h \in Handles, Enqueue(a, h) PROVE NoLostWakeup'
  <2>1. Notifying' = Notifying
    BY <1>8 DEF Enqueue, Free, TypeOK, Notifying
  <2>2. UNCHANGED <<stopVars, queue, loop>>
    BY <1>8 DEF Enqueue, loopVars
  <2>3. Waiting' = Waiting /\ Awake' = Awake
    BY <2>2 DEF Waiting, Awake
  <2>. QED
    BY <1>0, <2>1, <2>2, <2>3, Counts, NoMoreWork
<1>9. ASSUME NEW a \in Agents, Push(a) PROVE NoLostWakeup'
  <2>1. a \notin Notifying /\ Notifying' = Notifying \cup {a}
    BY <1>9 DEF Push, TypeOK, Notifying
  <2>2. Cardinality(Notifying') = Cardinality(Notifying) + 1
    BY <2>1, Counts, FS_AddElement
  <2>3. Len(queue') = Len(queue) + 1
    BY <1>9 DEF Push, TypeOK
  <2>4. UNCHANGED <<stopVars, loop>>
    BY <1>9 DEF Push, loopVars
  <2>5. Waiting' = Waiting /\ Awake' = Awake
    BY <2>4 DEF Waiting, Awake
  <2>. QED
    BY <1>0, <2>2, <2>3, <2>4, <2>5, Counts DEF NoLostWakeup, stopVars
<1>10. ASSUME NEW a \in Agents, Notify(a) PROVE NoLostWakeup'
  <2>1. CASE Waiting = {}
    <3>1. Waiting' = {}
      BY <1>10, <2>1 DEF Notify, NotifyOne, Woken, TypeOK, Waiting
    <3>. QED
      BY <3>1 DEF NoLostWakeup
  <2>2. CASE Waiting # {}
    <3>1. PICK l \in Waiting : loop' = Woken({l}, a)
      BY <1>10, <2>2 DEF Notify, NotifyOne
    <3>2. l \notin Awake /\ Awake' = Awake \cup {l} /\ Waiting' \subseteq Waiting
      BY <3>1 DEF Woken, TypeOK, Waiting, Awake
    <3>3. Cardinality(Awake') = Cardinality(Awake) + 1
      BY <3>2, Counts, FS_AddElement
    <3>4. a \in Notifying /\ Notifying' = Notifying \ {a}
      BY <1>10 DEF Notify, TypeOK, Notifying
    <3>5. Cardinality(Notifying') = Cardinality(Notifying) - 1
      BY <3>4, Counts, FS_RemoveElement
    <3>6. UNCHANGED <<queue, stopVars>>
      BY <1>10 DEF Notify
    <3>. QED
      BY <1>0, <2>2, <3>2, <3>3, <3>5, <3>6, Counts DEF NoLostWakeup, stopVars
  <2>. QED
    BY <2>1, <2>2
<1>11. ASSUME NEW a \in Agents, StopFlag(a) PROVE NoLostWakeup'
  <2>1. UNCHANGED <<queue, loop, call>> /\ stop' = "flagged"
    BY <1>11 DEF StopFlag, loopVars, callVars
  <2>2. Waiting' = Waiting /\ Awake' = Awake /\ Notifying' = Notifying
    BY <2>1 DEF Waiting, Awake, Notifying
  <2>. QED
    BY <2>1, <2>2 DEF NoLostWakeup
<1>12. CASE StopNotify
  <2>1. Waiting' = {}
    BY <1>12 DEF StopNotify, Woken, TypeOK, Waiting
  <2>. QED
    BY <2>1 DEF NoLostWakeup
<1>13. CASE StopJoin
  <2>1. UNCHANGED <<queue, loop, call, stopped>> /\ stop = "joining"
    BY <1>13 DEF StopJoin, loopVars, callVars
  <2>2. Waiting = {} /\ Waiting' = Waiting
    BY <2>1 DEF NoLostWakeup, StopSites, Waiting
  <2>. QED
    BY <2>2 DEF NoLostWakeup
<1>. QED
  BY <1>1, <1>2, <1>3, <1>4, <1>5, <1>6, <1>7, <1>8, <1>9, <1>10, <1>11, <1>12, <1>13
     DEF Next

\* However many threads enqueue, and although enqueue notifies one loop only, after it
\* released the lock, no loop sleeps while a handle waits that nobody is awake for, and
\* none sleeps through the stop (orchestrator.cpp:9-12, 33, 55).
THEOREM WakeupCorrect == Spec => []NoLostWakeup
<1>1. Init => WakeInv
  <2>1. ASSUME Init PROVE Waiting = {} /\ CallSites /\ StopSites
    BY <2>1 DEF Init, Waiting, CallSites, StopSites, Agents
  <2>. QED
    BY <2>1, TypeInit DEF WakeInv, NoLostWakeup
<1>2. WakeInv /\ [Next]_vars => WakeInv'
  BY TypeStep, CallSitesStep, StopSitesStep, WakeStep DEF WakeInv
<1>3. WakeInv => NoLostWakeup
  BY DEF WakeInv
<1>. QED
  BY <1>1, <1>2, <1>3, PTL DEF Spec

-----------------------------------------------------------------------------
(* The queue is drained before the loops leave. *)

\* A coroutine runs inside the loop that resumed it, and inside no other.
Bodies ==
  /\ \A l \in Loops : loop[l] = "body" => frame[hand[l]] = "running"
  /\ \A l, k \in Loops : loop[l] = "body" /\ loop[k] = "body" /\ hand[l] = hand[k] => l = k
  /\ \A h \in Handles : frame[h] = "running" => \E l \in Loops : loop[l] = "body" /\ hand[l] = h

\* A loop leaves only after the stop.
ExitSites == \A l \in Loops : loop[l] = "exited" => stopped

\* Some entry for h is in the queue, in the hand of a loop, or on the way of a loop back
\* into the queue.
Inside(h) == \/ \E i \in DOMAIN queue : queue[i] = h
             \/ \E l \in Loops : hand[l] = h \/ arg[l] = h

\* A coroutine pushed before the stop stays there until it is done: what threads outside
\* push later cannot stand in for it.
EarlyInside == \A h \in early : frame[h] # "done" => Inside(h)

DrainInv == TypeOK /\ CallSites /\ Bodies /\ ExitSites /\ EarlyInside /\ ExitDrained

LEMMA BodiesStep == TypeOK /\ CallSites /\ Bodies /\ [Next]_vars => Bodies'
<1>. SUFFICES ASSUME TypeOK, CallSites, Bodies, [Next]_vars PROVE Bodies'
  OBVIOUS
<1>. USE OrchestratorAssumption DEF TypeOK, Bodies
<1>1. CASE UNCHANGED <<loop, hand, frame>>
  BY <1>1
<1>2. ASSUME NEW l \in Loops,
             Start(l) \/ SpuriousWake(l) \/ Wait(l) \/ Exit(l) \/ Take(l) \/ Skip(l)
               \/ Requeue(l) \/ Ended(l)
      PROVE  Bodies'
  <2>1. /\ loop[l] # "body" /\ loop'[l] # "body" /\ frame' = frame
        /\ \A k \in Loops : k # l => loop'[k] = loop[k] /\ hand'[k] = hand[k]
    BY <1>2 DEF Start, SpuriousWake, Wait, Exit, Take, Skip, Requeue, Ended, Looking
  <2>. QED
    BY <2>1
<1>3. ASSUME NEW l \in Loops, Resume(l) PROVE Bodies'
  BY <1>3 DEF Resume
<1>4. ASSUME NEW l \in Loops, Yield(l) \/ Finish(l) PROVE Bodies'
  <2>1. PICK v \in {"suspended", "done"} : frame' = [frame EXCEPT ![hand[l]] = v]
    BY <1>4 DEF Yield, Finish
  <2>2. loop[l] = "body" /\ loop' = [loop EXCEPT ![l] = "after"] /\ hand' = hand
    BY <1>4 DEF Yield, Finish, Free
  <2>. QED
    BY <2>1, <2>2
<1>5. ASSUME NEW a \in Agents, Notify(a) PROVE Bodies'
  <2>1. \A l \in Loops : loop'[l] # loop[l] => loop[l] # "body" /\ loop'[l] # "body"
    BY <1>5 DEF Notify, NotifyOne, Woken, Waiting
  <2>2. UNCHANGED <<hand, frame>>
    BY <1>5 DEF Notify
  <2>. QED
    BY <2>1, <2>2
<1>6. CASE StopNotify
  <2>1. \A l \in Loops : loop'[l] # loop[l] => loop[l] # "body" /\ loop'[l] # "body"
    BY <1>6 DEF StopNotify, Woken, Waiting
  <2>2. UNCHANGED <<hand, frame>>
    BY <1>6 DEF StopNotify
  <2>. QED
    BY <2>1, <2>2
<1>7. ASSUME NEW l \in Loops, ResumeRunning(l) PROVE UNCHANGED <<loop, hand, frame>>
  BY <1>7 DEF ResumeRunning, loopVars
<1>8. ASSUME NEW a \in Agents, (\E h \in Handles : Enqueue(a, h)) \/ Push(a) \/ StopFlag(a)
      PROVE  UNCHANGED <<loop, hand, frame>>
  BY <1>8 DEF Enqueue, Push, StopFlag, loopVars
<1>9. CASE StopJoin \/ UNCHANGED vars
  BY <1>1, <1>9 DEF StopJoin, loopVars, vars
<1>. QED
  BY <1>1, <1>2, <1>3, <1>4, <1>5, <1>6, <1>7, <1>8, <1>9 DEF Next

LEMMA ExitSitesStep == TypeOK /\ ExitSites /\ [Next]_vars => ExitSites'
<1>. SUFFICES ASSUME TypeOK, ExitSites, [Next]_vars, NEW k \in Loops, loop'[k] = "exited"
              PROVE  stopped'
  BY DEF ExitSites
<1>. USE DEF TypeOK, ExitSites
<1>1. ASSUME NEW l \in Loops,
             Start(l) \/ SpuriousWake(l) \/ Wait(l) \/ Exit(l) \/ Take(l) \/ Skip(l)
               \/ Resume(l) \/ ResumeRunning(l) \/ Yield(l) \/ Finish(l) \/ Requeue(l) \/ Ended(l)
      PROVE  stopped'
  BY <1>1 DEF Start, SpuriousWake, Wait, Exit, MayExit, Take, Skip, Resume, ResumeRunning, Yield,
              Finish, Requeue, Ended, loopVars, stopVars
<1>2. ASSUME NEW a \in Agents,
             (\E h \in Handles : Enqueue(a, h)) \/ Push(a) \/ Notify(a) \/ StopFlag(a)
      PROVE  stopped'
  BY <1>2 DEF Enqueue, Push, Notify, NotifyOne, Woken, Waiting, StopFlag, loopVars, stopVars
<1>3. CASE StopNotify \/ StopJoin \/ UNCHANGED vars
  BY <1>3 DEF StopNotify, Woken, Waiting, StopJoin, loopVars, stopVars, vars
<1>. QED
  BY <1>1, <1>2, <1>3 DEF Next

LEMMA TailKeeps ==
  ASSUME NEW s \in Seq(Handles), s # << >>, NEW i \in DOMAIN s
  PROVE  s[i] = Head(s) \/ \E j \in DOMAIN Tail(s) : Tail(s)[j] = s[i]
<1>1. CASE i = 1
  BY <1>1
<1>2. CASE i # 1
  <2>1. i - 1 \in DOMAIN Tail(s) /\ Tail(s)[i - 1] = s[i]
    BY <1>2
  <2>. QED
    BY <2>1
<1>. QED
  BY <1>1, <1>2

\* Where the entries of a coroutine are, they stay or move on.
LEMMA InsideStep ==
  ASSUME TypeOK, CallSites, Bodies, [Next]_vars, NEW h \in Handles, frame'[h] # "done"
  PROVE  /\ frame[h] # "done"
         /\ Inside(h) => Inside(h)'
<1>. USE OrchestratorAssumption DEF TypeOK, Agents
<1>1. ASSUME UNCHANGED <<queue, hand, arg, frame>>
      PROVE  frame[h] # "done" /\ (Inside(h) => Inside(h)')
  BY <1>1 DEF Inside
<1>2. ASSUME NEW l \in Loops,
             Start(l) \/ SpuriousWake(l) \/ Wait(l) \/ Exit(l) \/ ResumeRunning(l)
      PROVE  UNCHANGED <<queue, hand, arg, frame>>
  BY <1>2 DEF Start, SpuriousWake, Wait, Exit, ResumeRunning, loopVars, callVars
<1>3. ASSUME NEW l \in Loops, Take(l) PROVE frame[h] # "done" /\ (Inside(h) => Inside(h)')
  <2>1. UNCHANGED <<frame, arg>> /\ hand[l] # h
    BY <1>3 DEF Take, Looking, callVars
  <2>2. ASSUME NEW i \in DOMAIN queue, queue[i] = h PROVE Inside(h)'
    BY <1>3, <2>2, TailKeeps DEF Take, Inside
  <2>. QED
    BY <1>3, <2>1, <2>2 DEF Take, Inside
<1>4. ASSUME NEW l \in Loops, Skip(l) \/ Ended(l)
      PROVE  frame[h] # "done" /\ (Inside(h) => Inside(h)')
  BY <1>4 DEF Skip, Ended, Inside, callVars
<1>5. ASSUME NEW l \in Loops, Resume(l) \/ Yield(l) \/ Finish(l)
      PROVE  frame[h] # "done" /\ (Inside(h) => Inside(h)')
  <2>1. UNCHANGED <<queue, hand, arg>>
    BY <1>5 DEF Resume, Yield, Finish, callVars
  <2>2. frame[h] # "done"
    BY <1>5 DEF Resume, Yield, Finish, Free, Bodies
  <2>. QED
    BY <2>1, <2>2 DEF Inside
<1>6. ASSUME NEW l \in Loops, Requeue(l) PROVE frame[h] # "done" /\ (Inside(h) => Inside(h)')
  <2>1. arg[l] = NoHandle
    BY <1>6 DEF Requeue, CallSites
  <2>. QED
    BY <1>6, <2>1 DEF Requeue, Inside
<1>7. ASSUME NEW a \in Agents, NEW g \in Handles, Enqueue(a, g)
      PROVE  frame[h] # "done" /\ (Inside(h) => Inside(h)')
  BY <1>7 DEF Enqueue, Free, Inside, loopVars
<1>8. ASSUME NEW a \in Agents, Push(a) PROVE frame[h] # "done" /\ (Inside(h) => Inside(h)')
  <2>1. arg[a] \in Handles /\ queue' = Append(queue, arg[a]) /\ UNCHANGED <<hand, frame>>
    BY <1>8 DEF Push, loopVars
  <2>2. arg' = [arg EXCEPT ![a] = NoHandle]
    BY <1>8 DEF Push
  <2>3. \A i \in DOMAIN queue : i \in DOMAIN queue' /\ queue'[i] = queue[i]
    BY <2>1
  <2>4. Len(queue) + 1 \in DOMAIN queue' /\ queue'[Len(queue) + 1] = arg[a]
    BY <2>1
  <2>. QED
    BY <2>1, <2>2, <2>3, <2>4 DEF Inside
<1>9. ASSUME NEW a \in Agents, Notify(a) \/ StopFlag(a)
      PROVE  UNCHANGED <<queue, hand, arg, frame>>
  BY <1>9 DEF Notify, StopFlag, loopVars, callVars
<1>10. CASE StopNotify \/ StopJoin \/ UNCHANGED vars
  BY <1>1, <1>10 DEF StopNotify, StopJoin, loopVars, callVars, vars
<1>. QED
  BY <1>1, <1>2, <1>3, <1>4, <1>5, <1>6, <1>7, <1>8, <1>9, <1>10 DEF Next

\* A coroutine is added to the history in the step that puts it into the queue.
LEMMA EarlyGrows ==
  ASSUME TypeOK, [Next]_vars
  PROVE  \A h \in early' : h \notin early => Inside(h)' /\ ~stopped
<1>1. ASSUME NEW a \in Agents, Push(a)
      PROVE  \A h \in early' : h \notin early => Inside(h)' /\ ~stopped
  <2>1. arg[a] \in Handles /\ queue' = Append(queue, arg[a])
    BY <1>1, OrchestratorAssumption DEF Push, TypeOK
  <2>2. Len(queue) + 1 \in DOMAIN queue' /\ queue'[Len(queue) + 1] = arg[a]
    BY <2>1 DEF TypeOK
  <2>. QED
    BY <1>1, <2>2 DEF Push, Inside
<1>2. CASE UNCHANGED early
  BY <1>2
<1>3. ASSUME NEW l \in Loops,
             Start(l) \/ SpuriousWake(l) \/ Wait(l) \/ Exit(l) \/ Take(l) \/ Skip(l)
               \/ Resume(l) \/ ResumeRunning(l) \/ Yield(l) \/ Finish(l) \/ Requeue(l) \/ Ended(l)
      PROVE  UNCHANGED early
  BY <1>3 DEF Start, SpuriousWake, Wait, Exit, Take, Skip, Resume, ResumeRunning, Yield, Finish,
              Requeue, Ended, history
<1>4. ASSUME NEW a \in Agents, (\E h \in Handles : Enqueue(a, h)) \/ Notify(a) \/ StopFlag(a)
      PROVE  UNCHANGED early
  BY <1>4 DEF Enqueue, Notify, StopFlag, history
<1>5. CASE StopNotify \/ StopJoin \/ UNCHANGED vars
  BY <1>2, <1>5 DEF StopNotify, StopJoin, history, vars
<1>. QED
  BY <1>1, <1>2, <1>3, <1>4, <1>5 DEF Next

LEMMA EarlyStep == DrainInv /\ [Next]_vars => EarlyInside'
<1>. SUFFICES ASSUME DrainInv, [Next]_vars, NEW h \in early', frame'[h] # "done"
              PROVE  Inside(h)'
  BY DEF EarlyInside
<1>1. h \in Handles
  BY TypeStep DEF DrainInv, TypeOK
<1>2. CASE h \in early
  BY <1>1, <1>2, InsideStep DEF DrainInv, EarlyInside
<1>3. CASE h \notin early
  BY <1>3, EarlyGrows DEF DrainInv
<1>. QED
  BY <1>2, <1>3

\* The last loop leaves with the queue empty, and nothing in its hand or on its way.
LEMMA DrainStep == DrainInv /\ [Next]_vars => ExitDrained'
<1>. SUFFICES ASSUME DrainInv, [Next]_vars,
                     \E l \in Loops : loop'[l] = "exited", \A l \in Loops : ~Alive(l)',
                     NEW h \in early'
              PROVE  frame'[h] = "done"
  BY DEF ExitDrained, Alive
<1>. USE DEF DrainInv
<1>1. TypeOK' /\ CallSites' /\ EarlyInside' /\ ExitSites'
  BY TypeStep, CallSitesStep, EarlyStep, ExitSitesStep
<1>2. \A l \in Loops : loop'[l] \in {"off", "exited"} /\ hand'[l] # h /\ arg'[l] # h
  <2>. SUFFICES ASSUME NEW l \in Loops
                PROVE  loop'[l] \in {"off", "exited"} /\ hand'[l] # h /\ arg'[l] # h
    OBVIOUS
  <2>1. loop'[l] \in {"off", "exited"}
    BY DEF Alive
  <2>2. l \in Agents /\ h # NoHandle
    BY <1>1, OrchestratorAssumption DEF TypeOK, Agents
  <2>3. hand'[l] = NoHandle
    BY <1>1, <2>1 DEF TypeOK
  <2>4. call'[l] = "none"
    BY <1>1, <2>1 DEF CallSites
  <2>5. arg'[l] = NoHandle
    BY <1>1, <2>2, <2>4 DEF TypeOK
  <2>. QED
    BY <2>1, <2>2, <2>3, <2>5
<1>3. ASSUME NEW l \in Loops, Exit(l) PROVE frame'[h] = "done"
  <2>1. queue' = << >>
    BY <1>3 DEF Exit, MayExit
  <2>2. ~Inside(h)'
    BY <1>2, <2>1 DEF Inside
  <2>. QED
    BY <1>1, <2>2 DEF EarlyInside
<1>4. ASSUME \A l \in Loops : ~Exit(l) PROVE frame'[h] = "done"
  <2>1. \A l \in Loops : loop'[l] = loop[l]
    <3>1. ASSUME NEW l \in Loops,
                 Start(l) \/ SpuriousWake(l) \/ Wait(l) \/ Take(l) \/ Skip(l) \/ Resume(l)
                   \/ Yield(l) \/ Finish(l) \/ Requeue(l) \/ Ended(l)
          PROVE  FALSE
      <4>1. loop'[l] \notin {"off", "exited"}
        BY <3>1 DEF Start, SpuriousWake, Wait, Take, Skip, Resume, Yield, Finish, Requeue, Ended,
                    TypeOK
      <4>. QED
        BY <1>2, <4>1
    <3>2. ASSUME NEW a \in Agents, Notify(a) PROVE \A l \in Loops : loop'[l] = loop[l]
      BY <1>2, <3>2 DEF Notify, NotifyOne, Woken, Waiting
    <3>3. ASSUME NEW a \in Agents, (\E g \in Handles : Enqueue(a, g)) \/ Push(a) \/ StopFlag(a)
          PROVE  loop' = loop
      BY <3>3 DEF Enqueue, Push, StopFlag, loopVars
    <3>4. ASSUME NEW l \in Loops, ResumeRunning(l) PROVE loop' = loop
      BY <3>4 DEF ResumeRunning, loopVars
    <3>5. CASE StopNotify
      BY <1>2, <3>5 DEF StopNotify, Woken, Waiting
    <3>6. CASE StopJoin \/ UNCHANGED vars
      BY <3>6 DEF StopJoin, loopVars, vars
    <3>. QED
      BY <1>4, <3>1, <3>2, <3>3, <3>4, <3>5, <3>6 DEF Next
  <2>2. stopped
    BY <2>1 DEF ExitSites
  <2>3. h \in early /\ h \in Handles
    BY <2>2, EarlyGrows DEF TypeOK
  <2>4. frame[h] = "done"
    BY <1>2, <2>1, <2>3 DEF ExitDrained, Alive
  <2>. QED
    BY <2>3, <2>4, InsideStep
<1>. QED
  BY <1>3, <1>4

\* Every coroutine pushed before the stop is done when the loops have left, also when one
\* loop leaves, finding the queue empty, while the other still runs a coroutine that it
\* will queue again (orchestrator.cpp:57-74).
THEOREM DrainCorrect == Spec => []ExitDrained
<1>1. Init => DrainInv
  <2>. SUFFICES ASSUME Init PROVE DrainInv
    OBVIOUS
  <2>1. \A l \in Loops : loop[l] = "off" /\ call[l] = "none"
    BY DEF Init, Agents
  <2>2. early = {} /\ \A h \in Handles : frame[h] = "suspended"
    BY DEF Init
  <2>. QED
    BY <2>1, <2>2, TypeInit
       DEF DrainInv, CallSites, Bodies, ExitSites, EarlyInside, ExitDrained
<1>2. DrainInv /\ [Next]_vars => DrainInv'
  BY TypeStep, CallSitesStep, BodiesStep, ExitSitesStep, EarlyStep, DrainStep DEF DrainInv
<1>3. DrainInv => ExitDrained
  BY DEF DrainInv
<1>. QED
  BY <1>1, <1>2, <1>3, PTL DEF Spec

-----------------------------------------------------------------------------
(* The entries of a coroutine are conserved. *)

\* The three places of Entries.
Queued(h) == {i \in DOMAIN queue : queue[i] = h}
Held(h) == {l \in Loops : hand[l] = h}
Carried(h) == {a \in Agents : arg[a] = h}

LEMMA EntriesAre ==
  ASSUME NEW h
  PROVE  /\ Entries(h) = Cardinality(Queued(h)) + Cardinality(Held(h)) + Cardinality(Carried(h))
         /\ Entries(h)' = Cardinality(Queued(h)') + Cardinality(Held(h)')
                            + Cardinality(Carried(h)')
BY DEF Entries, Count, Queued, Held, Carried

LEMMA PlacesFinite ==
  ASSUME TypeOK, NEW h
  PROVE  /\ IsFiniteSet(Queued(h)) /\ Cardinality(Queued(h)) \in Nat
         /\ IsFiniteSet(Held(h)) /\ Cardinality(Held(h)) \in Nat
         /\ IsFiniteSet(Carried(h)) /\ Cardinality(Carried(h)) \in Nat
<1>1. Held(h) \subseteq Agents /\ Carried(h) \subseteq Agents
  BY DEF Held, Carried, Agents
<1>2. Queued(h) \subseteq 1 .. Len(queue) /\ Len(queue) \in Nat
  BY DEF Queued, TypeOK
<1>3. IsFiniteSet(1 .. Len(queue))
  BY <1>2, FS_Interval
<1>. QED
  BY <1>1, <1>2, <1>3, AgentsFinite, FS_Subset, FS_CardinalityType

\* Two sets that differ in one element at most.
LEMMA CountOther ==
  ASSUME NEW F, NEW G, NEW a, IsFiniteSet(F), \A x : x # a => (x \in F <=> x \in G)
  PROVE  Cardinality(G) = Cardinality(F) - (IF a \in F THEN 1 ELSE 0)
                            + (IF a \in G THEN 1 ELSE 0)
<1>1. Cardinality(F) \in Nat
  BY FS_CardinalityType
<1>2. CASE a \in F <=> a \in G
  <2>1. F = G
    BY <1>2
  <2>. QED
    BY <1>1, <2>1
<1>3. CASE a \in F /\ a \notin G
  <2>1. G = F \ {a}
    BY <1>3
  <2>. QED
    BY <1>1, <1>3, <2>1, FS_RemoveElement
<1>4. CASE a \notin F /\ a \in G
  <2>1. G = F \cup {a}
    BY <1>4
  <2>. QED
    BY <1>1, <1>4, <2>1, FS_AddElement
<1>. QED
  BY <1>2, <1>3, <1>4

\* One loop gets another handle, or none.
LEMMA HeldUpdate ==
  ASSUME TypeOK, NEW l \in Loops, NEW v, hand' = [hand EXCEPT ![l] = v], NEW h
  PROVE  Cardinality(Held(h)') = Cardinality(Held(h)) - (IF hand[l] = h THEN 1 ELSE 0)
                                   + (IF v = h THEN 1 ELSE 0)
<1>1. /\ l \in Held(h) <=> hand[l] = h
      /\ l \in Held(h)' <=> v = h
      /\ \A k : k # l => (k \in Held(h) <=> k \in Held(h)')
  BY DEF TypeOK, Held
<1>2. Cardinality(Held(h)') = Cardinality(Held(h)) - (IF l \in Held(h) THEN 1 ELSE 0)
                                + (IF l \in Held(h)' THEN 1 ELSE 0)
  BY <1>1, PlacesFinite, CountOther
<1>. QED
  BY <1>1, <1>2

\* One call of enqueue gets another argument, or ends.
LEMMA CarriedUpdate ==
  ASSUME TypeOK, NEW a \in Agents, NEW v, arg' = [arg EXCEPT ![a] = v], NEW h
  PROVE  Cardinality(Carried(h)') = Cardinality(Carried(h)) - (IF arg[a] = h THEN 1 ELSE 0)
                                      + (IF v = h THEN 1 ELSE 0)
<1>1. /\ a \in Carried(h) <=> arg[a] = h
      /\ a \in Carried(h)' <=> v = h
      /\ \A b : b # a => (b \in Carried(h) <=> b \in Carried(h)')
  BY DEF TypeOK, Carried
<1>2. Cardinality(Carried(h)') = Cardinality(Carried(h)) - (IF a \in Carried(h) THEN 1 ELSE 0)
                                   + (IF a \in Carried(h)' THEN 1 ELSE 0)
  BY <1>1, PlacesFinite, CountOther
<1>. QED
  BY <1>1, <1>2

LEMMA QueuedAppend ==
  ASSUME TypeOK, NEW e \in Handles, queue' = Append(queue, e), NEW h
  PROVE  Cardinality(Queued(h)') = Cardinality(Queued(h)) + (IF e = h THEN 1 ELSE 0)
<1>. DEFINE n == Len(queue) + 1
<1>1. /\ DOMAIN queue = 1 .. Len(queue) /\ Len(queue) \in Nat
      /\ DOMAIN queue' = 1 .. n
      /\ queue'[n] = e /\ \A i \in DOMAIN queue : queue'[i] = queue[i]
  BY DEF TypeOK
<1>2. n \notin Queued(h)
  BY <1>1 DEF Queued
<1>3. CASE e = h
  <2>1. Queued(h)' = Queued(h) \cup {n}
    BY <1>1, <1>3 DEF Queued
  <2>2. Cardinality(Queued(h)') = Cardinality(Queued(h)) + 1
    BY <1>2, <2>1, PlacesFinite, FS_AddElement
  <2>. QED
    BY <1>3, <2>2
<1>4. CASE e # h
  <2>1. Queued(h)' = Queued(h)
    BY <1>1, <1>4 DEF Queued
  <2>. QED
    BY <1>4, <2>1, PlacesFinite
<1>. QED
  BY <1>3, <1>4

\* Every entry but the first moves up by one place.
LEMMA QueuedTail ==
  ASSUME TypeOK, queue # << >>, queue' = Tail(queue), NEW h
  PROVE  Cardinality(Queued(h)') = Cardinality(Queued(h)) - (IF Head(queue) = h THEN 1 ELSE 0)
<1>. DEFINE Q == Queued(h) \ {1}
            f == [i \in Q |-> i - 1]
<1>1. /\ DOMAIN queue = 1 .. Len(queue) /\ Len(queue) \in Nat \ {0}
      /\ DOMAIN queue' = 1 .. Len(queue) - 1
      /\ queue[1] = Head(queue)
      /\ \A i \in 1 .. Len(queue) - 1 : queue'[i] = queue[i + 1]
  BY DEF TypeOK
<1>2. f \in Bijection(Q, Queued(h)')
  <2>1. \A i \in Q : i \in 2 .. Len(queue) /\ queue[i] = h
    BY <1>1 DEF Queued
  <2>2. \A i \in Q : f[i] \in Queued(h)'
    BY <1>1, <2>1 DEF Queued
  <2>3. \A i, j \in Q : f[i] = f[j] => i = j
    BY <2>1
  <2>4. ASSUME NEW k \in Queued(h)' PROVE \E i \in Q : f[i] = k
    <3>1. k \in 1 .. Len(queue) - 1 /\ queue[k + 1] = h
      BY <1>1 DEF Queued
    <3>2. k + 1 \in Q
      BY <1>1, <3>1 DEF Queued
    <3>. QED
      BY <3>1, <3>2
  <2>. QED
    BY <2>2, <2>3, <2>4, Fun_IsBij
<1>3. IsFiniteSet(Q) /\ Cardinality(Queued(h)') = Cardinality(Q)
  <2>1. IsFiniteSet(Q)
    BY PlacesFinite, FS_RemoveElement
  <2>. QED
    BY <1>2, <2>1, FS_Bijection DEF ExistsBijection
<1>4. Cardinality(Q) = Cardinality(Queued(h)) - (IF Head(queue) = h THEN 1 ELSE 0)
  <2>1. 1 \in Queued(h) <=> Head(queue) = h
    BY <1>1 DEF Queued
  <2>2. Cardinality(Q) = IF 1 \in Queued(h) THEN Cardinality(Queued(h)) - 1
                                            ELSE Cardinality(Queued(h))
    BY PlacesFinite, FS_RemoveElement
  <2>. QED
    BY <2>1, <2>2, PlacesFinite
<1>. QED
  BY <1>3, <1>4

\* While nobody has resumed a running coroutine: its entries, and the loops that resume.
Conserved(h) == Entries(h) <= given[h] /\ (frame[h] # "done" => Entries(h) = given[h])

ConserveInv == TypeOK /\ CallSites /\ Bodies /\ HandleConserved

LEMMA EntriesNat == ASSUME TypeOK, NEW h PROVE Entries(h) \in Nat
BY PlacesFinite, EntriesAre

LEMMA EntriesKept ==
  ASSUME UNCHANGED <<queue, hand, arg>>, NEW h
  PROVE  Entries(h)' = Entries(h)
BY DEF Entries, Count

\* The handle moves from the queue into the hand of a loop.
LEMMA TakeConserves ==
  ASSUME TypeOK, NEW l \in Loops, Take(l), NEW h \in Handles
  PROVE  Entries(h)' = Entries(h)
<1>. DEFINE e == Head(queue)
<1>1. /\ queue # << >> /\ queue' = Tail(queue) /\ hand' = [hand EXCEPT ![l] = e]
      /\ arg' = arg
  BY DEF Take, callVars
<1>2. hand[l] = NoHandle
  BY DEF Take, Looking, TypeOK
<1>3. h # NoHandle
  BY OrchestratorAssumption
<1>4. Cardinality(Queued(h)') = Cardinality(Queued(h)) - (IF e = h THEN 1 ELSE 0)
  BY <1>1, QueuedTail
<1>5. Cardinality(Held(h)') = Cardinality(Held(h)) - (IF hand[l] = h THEN 1 ELSE 0)
                                + (IF e = h THEN 1 ELSE 0)
  BY <1>1, HeldUpdate
<1>6. Carried(h)' = Carried(h)
  BY <1>1 DEF Carried
<1>. QED
  BY <1>2, <1>3, <1>4, <1>5, <1>6, PlacesFinite, EntriesAre

\* A loop drops its handle.
LEMMA DropReleases ==
  ASSUME TypeOK, NEW l \in Loops, hand' = [hand EXCEPT ![l] = NoHandle],
         UNCHANGED <<queue, arg>>, NEW h \in Handles
  PROVE  Entries(h)' = Entries(h) - (IF hand[l] = h THEN 1 ELSE 0)
<1>1. h # NoHandle
  BY OrchestratorAssumption
<1>2. Cardinality(Held(h)') = Cardinality(Held(h)) - (IF hand[l] = h THEN 1 ELSE 0)
                                + (IF NoHandle = h THEN 1 ELSE 0)
  BY HeldUpdate
<1>3. Queued(h)' = Queued(h) /\ Carried(h)' = Carried(h)
  BY DEF Queued, Carried
<1>. QED
  BY <1>1, <1>2, <1>3, PlacesFinite, EntriesAre

\* The handle moves from the hand of a loop into its call of enqueue.
LEMMA RequeueConserves ==
  ASSUME TypeOK, CallSites, NEW l \in Loops, Requeue(l), NEW h \in Handles
  PROVE  Entries(h)' = Entries(h)
<1>1. /\ hand' = [hand EXCEPT ![l] = NoHandle] /\ arg' = [arg EXCEPT ![l] = hand[l]]
      /\ queue' = queue /\ l \in Agents
  BY DEF Requeue, Agents
<1>4. arg[l] = NoHandle /\ h # NoHandle
  BY <1>1, OrchestratorAssumption DEF Requeue, CallSites, TypeOK
<1>5. Cardinality(Held(h)') = Cardinality(Held(h)) - (IF hand[l] = h THEN 1 ELSE 0)
                                + (IF NoHandle = h THEN 1 ELSE 0)
  BY <1>1, HeldUpdate
<1>6. Cardinality(Carried(h)') = Cardinality(Carried(h)) - (IF arg[l] = h THEN 1 ELSE 0)
                                   + (IF hand[l] = h THEN 1 ELSE 0)
  BY <1>1, CarriedUpdate
<1>7. Queued(h)' = Queued(h)
  BY <1>1 DEF Queued
<1>. QED
  BY <1>4, <1>5, <1>6, <1>7, PlacesFinite, EntriesAre

\* The handle moves from a call of enqueue into the queue.
LEMMA PushConserves ==
  ASSUME TypeOK, NEW a \in Agents, Push(a), NEW h \in Handles
  PROVE  Entries(h)' = Entries(h)
<1>1. /\ queue' = Append(queue, arg[a]) /\ arg' = [arg EXCEPT ![a] = NoHandle]
      /\ hand' = hand
  BY DEF Push, loopVars
<1>2. arg[a] \in Handles /\ h # NoHandle
  BY OrchestratorAssumption DEF Push, TypeOK
<1>4. Cardinality(Queued(h)') = Cardinality(Queued(h)) + (IF arg[a] = h THEN 1 ELSE 0)
  BY <1>1, <1>2, QueuedAppend
<1>5. Cardinality(Carried(h)') = Cardinality(Carried(h)) - (IF arg[a] = h THEN 1 ELSE 0)
                                   + (IF NoHandle = h THEN 1 ELSE 0)
  BY <1>1, CarriedUpdate
<1>6. Held(h)' = Held(h)
  BY <1>1 DEF Held
<1>. QED
  BY <1>2, <1>4, <1>5, <1>6, PlacesFinite, EntriesAre

\* A call of enqueue brings one entry.
LEMMA EnqueueAdds ==
  ASSUME TypeOK, NEW a \in Agents, NEW e \in Handles, Enqueue(a, e), NEW h \in Handles
  PROVE  Entries(h)' = Entries(h) + (IF e = h THEN 1 ELSE 0)
<1>1. arg' = [arg EXCEPT ![a] = e] /\ UNCHANGED <<queue, hand>>
  BY DEF Enqueue, loopVars
<1>2. arg[a] = NoHandle /\ h # NoHandle
  BY OrchestratorAssumption DEF Enqueue, Free, TypeOK
<1>4. Cardinality(Carried(h)') = Cardinality(Carried(h)) - (IF arg[a] = h THEN 1 ELSE 0)
                                   + (IF e = h THEN 1 ELSE 0)
  BY <1>1, CarriedUpdate
<1>5. Queued(h)' = Queued(h) /\ Held(h)' = Held(h)
  BY <1>1 DEF Queued, Held
<1>. QED
  BY <1>2, <1>4, <1>5, PlacesFinite, EntriesAre

LEMMA ConservedStep ==
  ASSUME TypeOK, CallSites, Bodies, NEW h \in Handles, Conserved(h), [Next]_vars
  PROVE  Conserved(h)'
<1>. USE DEF Conserved
<1>0. given[h] \in Nat /\ Entries(h) \in Nat
  BY EntriesNat DEF TypeOK
<1>1. ASSUME Entries(h)' = Entries(h), given' = given,
             frame'[h] # "done" => frame[h] # "done"
      PROVE  Conserved(h)'
  BY <1>1
<1>2. ASSUME NEW l \in Loops,
             Start(l) \/ SpuriousWake(l) \/ Wait(l) \/ Exit(l) \/ ResumeRunning(l)
      PROVE  Conserved(h)'
  <2>1. UNCHANGED <<queue, hand, arg, given, frame>>
    BY <1>2 DEF Start, SpuriousWake, Wait, Exit, ResumeRunning, loopVars, callVars, history
  <2>. QED
    BY <1>1, <2>1, EntriesKept
<1>3. ASSUME NEW l \in Loops, Take(l) PROVE Conserved(h)'
  BY <1>1, <1>3, TakeConserves DEF Take, history
<1>4. ASSUME NEW l \in Loops, Skip(l) \/ Ended(l) PROVE Conserved(h)'
  <2>1. /\ hand' = [hand EXCEPT ![l] = NoHandle] /\ UNCHANGED <<queue, arg, given, frame>>
        /\ frame[hand[l]] = "done"
    BY <1>4 DEF Skip, Ended, callVars, history
  <2>2. Entries(h)' = Entries(h) - (IF hand[l] = h THEN 1 ELSE 0)
    BY <2>1, DropReleases
  <2>. QED
    BY <1>0, <2>1, <2>2
<1>5. ASSUME NEW l \in Loops, Resume(l) \/ Yield(l) \/ Finish(l) PROVE Conserved(h)'
  <2>1. UNCHANGED <<queue, hand, arg, given>>
    BY <1>5 DEF Resume, Yield, Finish, callVars, history
  <2>2. frame'[h] # "done" => frame[h] # "done"
    BY <1>5 DEF Resume, Yield, Finish, Free, Bodies, TypeOK
  <2>. QED
    BY <1>1, <2>1, <2>2, EntriesKept
<1>6. ASSUME NEW l \in Loops, Requeue(l) PROVE Conserved(h)'
  BY <1>1, <1>6, RequeueConserves DEF Requeue, history
<1>7. ASSUME NEW a \in Agents, NEW e \in Handles, Enqueue(a, e) PROVE Conserved(h)'
  <2>1. given' = [given EXCEPT ![e] = @ + 1] /\ frame' = frame /\ frame[e] # "done"
    BY <1>7 DEF Enqueue
  <2>2. given'[h] = given[h] + (IF e = h THEN 1 ELSE 0)
    BY <1>0, <2>1 DEF TypeOK
  <2>3. Entries(h)' = Entries(h) + (IF e = h THEN 1 ELSE 0)
    BY <1>7, EnqueueAdds
  <2>. QED
    BY <1>0, <2>1, <2>2, <2>3
<1>8. ASSUME NEW a \in Agents, Push(a) PROVE Conserved(h)'
  BY <1>1, <1>8, PushConserves DEF Push
<1>9. ASSUME NEW a \in Agents, Notify(a) \/ StopFlag(a) PROVE Conserved(h)'
  <2>1. UNCHANGED <<queue, hand, arg, given, frame>>
    BY <1>9 DEF Notify, StopFlag, loopVars, callVars, history
  <2>. QED
    BY <1>1, <2>1, EntriesKept
<1>10. CASE StopNotify \/ StopJoin \/ UNCHANGED vars
  <2>1. UNCHANGED <<queue, hand, arg, given, frame>>
    BY <1>10 DEF StopNotify, StopJoin, loopVars, callVars, history, vars
  <2>. QED
    BY <1>1, <2>1, EntriesKept
<1>. QED
  BY <1>2, <1>3, <1>4, <1>5, <1>6, <1>7, <1>8, <1>9, <1>10 DEF Next

\* Two loops that hold one handle hold two entries.
LEMMA TwoEntries ==
  ASSUME TypeOK, NEW l \in Loops, NEW k \in Loops, l # k, NEW h, hand[l] = h, hand[k] = h
  PROVE  Entries(h) >= 2
<1>1. {l} \cup {k} \subseteq Held(h)
  BY DEF Held
<1>2. IsFiniteSet({l}) /\ Cardinality({l}) = 1 /\ k \notin {l}
  BY FS_Singleton
<1>3. Cardinality({l} \cup {k}) = 2
  BY <1>2, FS_AddElement
<1>4. Cardinality(Held(h)) >= 2
  BY <1>1, <1>3, PlacesFinite, FS_Subset
<1>. QED
  BY <1>4, PlacesFinite, EntriesAre

\* A coroutine is resumed while it runs only by the other loop, with a second entry.
LEMMA BrokenStep ==
  ASSUME ConserveInv, [Next]_vars, broken'
  PROVE  (\E h \in Handles : given'[h] > 1) /\ \A l \in Loops : loop'[l] # "off"
<1>. USE DEF ConserveInv
<1>1. ASSUME NEW l \in Loops, ResumeRunning(l)
      PROVE  (\E h \in Handles : given'[h] > 1) /\ \A k \in Loops : loop'[k] # "off"
  <2>. DEFINE h == hand[l]
  <2>1. /\ h \in Handles /\ frame[h] = "running" /\ loop[l] = "testing"
        /\ UNCHANGED <<given, loop>>
    BY <1>1 DEF ResumeRunning, TypeOK, loopVars, history
  <2>2. PICK k \in Loops : loop[k] = "body" /\ hand[k] = h
    BY <2>1 DEF Bodies
  <2>3. Entries(h) >= 2 /\ Entries(h) = given[h]
    BY <2>1, <2>2, TwoEntries DEF HandleConserved
  <2>4. Loops = {l, k}
    BY <2>1, <2>2 DEF Loops
  <2>5. \A m \in Loops : loop'[m] # "off"
    BY <2>1, <2>2, <2>4
  <2>6. Entries(h) \in Nat
    BY EntriesNat
  <2>7. given'[h] > 1
    BY <2>1, <2>3, <2>6
  <2>. QED
    BY <2>1, <2>5, <2>7
<1>2. ASSUME UNCHANGED <<broken, vars>>
      PROVE  (\E h \in Handles : given'[h] > 1) /\ \A l \in Loops : loop'[l] # "off"
  BY <1>2 DEF vars, loopVars, history, HandleConserved
<1>3. ASSUME ~broken, broken' = broken PROVE FALSE
  BY <1>3
<1>4. ASSUME NEW l \in Loops,
             Start(l) \/ SpuriousWake(l) \/ Wait(l) \/ Exit(l) \/ Take(l) \/ Skip(l)
               \/ Resume(l) \/ Yield(l) \/ Finish(l) \/ Requeue(l) \/ Ended(l)
      PROVE  broken' = broken
  BY <1>4 DEF Start, SpuriousWake, Wait, Exit, Take, Skip, Resume, Yield, Finish, Requeue, Ended
<1>5. ASSUME NEW a \in Agents,
             (\E h \in Handles : Enqueue(a, h)) \/ Push(a) \/ Notify(a) \/ StopFlag(a)
      PROVE  broken' = broken
  BY <1>5 DEF Enqueue, Push, Notify, StopFlag
<1>6. ASSUME StopNotify \/ StopJoin PROVE broken' = broken
  BY <1>6 DEF StopNotify, StopJoin
<1>7. ~broken \/ UNCHANGED vars
  BY DEF Next
<1>8. UNCHANGED vars => broken' = broken
  BY DEF vars
<1>. QED
  BY <1>1, <1>2, <1>3, <1>4, <1>5, <1>6, <1>7, <1>8 DEF Next

\* The entries of a coroutine are the calls of enqueue it came from, until it is done,
\* whatever the two loops and the threads outside do, and two threads resume one
\* coroutine only if it was enqueued twice and both loops run (orchestrator.cpp:5-13,
\* 60-74).
THEOREM ConserveCorrect == Spec => []HandleConserved
<1>1. Init => ConserveInv
  <2>. SUFFICES ASSUME Init PROVE ConserveInv
    OBVIOUS
  <2>1. TypeOK /\ \A l \in Loops : loop[l] = "off" /\ call[l] = "none"
    BY TypeInit DEF Init, Agents
  <2>2. CallSites /\ Bodies
    BY <2>1 DEF Init, CallSites, Bodies
  <2>3. ASSUME NEW h \in Handles PROVE Entries(h) = 0 /\ given[h] = 0
    <3>1. Queued(h) = {} /\ Held(h) = {} /\ Carried(h) = {}
      BY OrchestratorAssumption DEF Init, Queued, Held, Carried
    <3>2. Entries(h) = 0
      BY <3>1, FS_EmptySet, EntriesAre
    <3>. QED
      BY <3>2 DEF Init
  <2>. QED
    BY <2>1, <2>2, <2>3 DEF Init, ConserveInv, HandleConserved
<1>2. ConserveInv /\ [Next]_vars => ConserveInv'
  <2>. SUFFICES ASSUME ConserveInv, [Next]_vars PROVE ConserveInv'
    OBVIOUS
  <2>1. \A h \in Handles : Conserved(h)'
    BY ConservedStep DEF ConserveInv, HandleConserved, Conserved
  <2>2. HandleConserved'
    BY <2>1, BrokenStep DEF HandleConserved, Conserved
  <2>. QED
    BY <2>2, TypeStep, CallSitesStep, BodiesStep DEF ConserveInv
<1>3. ConserveInv => HandleConserved
  BY DEF ConserveInv
<1>. QED
  BY <1>1, <1>2, <1>3, PTL DEF Spec
=============================================================================
