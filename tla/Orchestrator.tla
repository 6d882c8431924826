---------------------------- MODULE Orchestrator ----------------------------
(***************************************************************************)
(* orchestrator (orchestrator.cpp): a queue of coroutine handles, one      *)
(* mutex, one condition variable, and a loop that resumes the handle at    *)
(* the front and queues it again while it is not done.  run() executes the *)
(* loop on the thread of its caller, run_async() on the thread runner_, so *)
(* that two threads may be in the loop.                                    *)
(*                                                                         *)
(* Critical sections of mutex_ are single actions.  A loop is              *)
(*   "off"      not started                                                *)
(*   "enter"    about to take the lock (line 54)                           *)
(*   "waiting"  in the wait (line 55), "woken" about to look again         *)
(*   "testing"  with a handle in hand, at line 64                          *)
(*   "body"     inside h.resume() (line 68)                                *)
(*   "after"    at line 70                                                 *)
(*   "requeue"  inside enqueue (line 73)                                   *)
(*   "exited"   out of the loop.                                           *)
(* A coroutine is a Task: its frame stays when it is done.                 *)
(***************************************************************************)
EXTENDS Integers, Sequences, FiniteSets

CONSTANTS Handles,   \* coroutines
          Callers,   \* threads outside the loops
          NoHandle,  \* handle_type h = nullptr
          Doubles,   \* the handles that are enqueued twice, the others once (line 73 aside)
          MaxYields  \* bound on the suspensions of all coroutines

Loops == {"run", "runner"}
Agents == Callers \cup Loops

ASSUME OrchestratorAssumption ==
  /\ NoHandle \notin Handles /\ Callers \cap (Loops \cup {"nobody"}) = {}
  /\ Doubles \subseteq Handles /\ MaxYields \in Nat /\ IsFiniteSet(Callers)

MaxCalls(h) == IF h \in Doubles THEN 2 ELSE 1

VARIABLES
  queue,    \* queue_
  stopped,  \* stopped_
  loop,     \* where each loop is
  hand,     \* its local variable h
  frame,    \* "suspended", "running" or "done"
  call,     \* where an agent is in enqueue: "none", "tested" or "pushed"
  arg,      \* the handle it enqueues
  stop,     \* where the call of stop is
  stopper,  \* the agent that calls it
  broken,   \* two threads resume one coroutine: undefined behaviour
  given,    \* history: calls of enqueue that passed line 7, per handle
  yields,   \* history: suspensions
  early     \* history: handles pushed before the stop

loopVars == <<loop, hand>>
callVars == <<call, arg>>
stopVars == <<stopped, stop, stopper>>
history == <<given, yields, early>>
vars == <<queue, loopVars, frame, callVars, stopVars, broken, history>>

Init ==
  /\ queue = << >>
  /\ stopped = FALSE /\ stop = "idle" /\ stopper = "nobody"
  /\ loop = [l \in Loops |-> "off"] /\ hand = [l \in Loops |-> NoHandle]
  /\ frame = [h \in Handles |-> "suspended"]
  /\ call = [a \in Agents |-> "none"] /\ arg = [a \in Agents |-> NoHandle]
  /\ broken = FALSE
  /\ given = [h \in Handles |-> 0] /\ yields = 0 /\ early = {}

\* The agent runs code that may call enqueue or stop: a thread outside, or the
\* coroutine that a loop resumed.
Free(a) == /\ a \in Loops => loop[a] = "body"
           /\ call[a] = "none"
           /\ stopper = a => stop \in {"returned", "threw"}

-----------------------------------------------------------------------------
(* run, run_async and enqueue. *)

\* Lines 15-25, each called once.
Start(l) ==
  /\ loop[l] = "off"
  /\ loop' = [loop EXCEPT ![l] = "enter"]
  /\ UNCHANGED <<queue, hand, frame, callVars, stopVars, broken, history>>

\* Line 7: enqueue ignores a coroutine that is done.
Enqueue(a, h) ==
  /\ Free(a) /\ given[h] < MaxCalls(h)
  /\ frame[h] # "done"
  /\ call' = [call EXCEPT ![a] = "tested"]
  /\ arg' = [arg EXCEPT ![a] = h]
  /\ given' = [given EXCEPT ![h] = @ + 1]
  /\ UNCHANGED <<queue, loopVars, frame, stopVars, broken, yields, early>>

\* Lines 8-11.
Push(a) ==
  /\ call[a] = "tested"
  /\ queue' = Append(queue, arg[a])
  /\ early' = IF stopped THEN early ELSE early \cup {arg[a]}
  /\ call' = [call EXCEPT ![a] = "pushed"]
  /\ arg' = [arg EXCEPT ![a] = NoHandle]
  /\ UNCHANGED <<loopVars, frame, stopVars, broken, given, yields>>

Waiting == {l \in Loops : loop[l] = "waiting"}

\* loop' after a notification of the loops in S and, for an agent that is a loop in
\* line 73, the end of its enqueue.
Woken(S, a) == [l \in Loops |-> IF l \in S THEN "woken"
                                ELSE IF l = a /\ loop[l] = "requeue" THEN "enter"
                                ELSE loop[l]]

BugNotifyOne(a) == IF Waiting # {} /\ Len(queue) = 1
                   THEN \E l \in Waiting : loop' = Woken({l}, a)
                   ELSE loop' = Woken({}, a)
\* notify_one: some loop that waits.
NotifyOne(a) == IF Waiting # {} THEN \E l \in Waiting : loop' = Woken({l}, a)
                                ELSE loop' = Woken({}, a)

\* Line 12.
Notify(a) ==
  /\ call[a] = "pushed"
  /\ NotifyOne(a)
  /\ call' = [call EXCEPT ![a] = "none"]
  /\ UNCHANGED <<queue, hand, frame, arg, stopVars, broken, history>>

-----------------------------------------------------------------------------
(* loop(). *)

BugMayExit == stopped
\* Line 57.
MayExit == stopped /\ queue = << >>

Looking(l) == loop[l] \in {"enter", "woken"}

\* Lines 54-55: nothing to do.
Wait(l) ==
  /\ Looking(l) /\ queue = << >> /\ ~stopped
  /\ loop' = [loop EXCEPT ![l] = "waiting"]
  /\ UNCHANGED <<queue, hand, frame, callVars, stopVars, broken, history>>

SpuriousWake(l) ==
  /\ loop[l] = "waiting"
  /\ loop' = [loop EXCEPT ![l] = "woken"]
  /\ UNCHANGED <<queue, hand, frame, callVars, stopVars, broken, history>>

Exit(l) ==
  /\ Looking(l) /\ MayExit
  /\ loop' = [loop EXCEPT ![l] = "exited"]
  /\ UNCHANGED <<queue, hand, frame, callVars, stopVars, broken, history>>

BugTake(l) ==
  /\ Looking(l) /\ queue # << >> /\ ~MayExit
  /\ hand' = [hand EXCEPT ![l] = Head(queue)]
  /\ loop' = [loop EXCEPT ![l] = "testing"]
  /\ UNCHANGED <<queue, frame, callVars, stopVars, broken, history>>
\* Lines 60-61.
Take(l) ==
  /\ Looking(l) /\ queue # << >> /\ ~MayExit
  /\ hand' = [hand EXCEPT ![l] = Head(queue)]
  /\ queue' = Tail(queue)
  /\ loop' = [loop EXCEPT ![l] = "testing"]
  /\ UNCHANGED <<frame, callVars, stopVars, broken, history>>

BugSkip(l) ==
  /\ loop[l] = "testing" /\ frame[hand[l]] = "done"
  /\ loop' = [loop EXCEPT ![l] = "enter"]
  /\ UNCHANGED <<queue, hand, frame, callVars, stopVars, broken, history>>
\* Lines 64-67: it was queued twice, and the other entry brought it to its end.
Skip(l) ==
  /\ loop[l] = "testing" /\ frame[hand[l]] = "done"
  /\ hand' = [hand EXCEPT ![l] = NoHandle]
  /\ loop' = [loop EXCEPT ![l] = "enter"]
  /\ UNCHANGED <<queue, frame, callVars, stopVars, broken, history>>

\* Line 68.
Resume(l) ==
  /\ loop[l] = "testing" /\ frame[hand[l]] = "suspended"
  /\ frame' = [frame EXCEPT ![hand[l]] = "running"]
  /\ loop' = [loop EXCEPT ![l] = "body"]
  /\ UNCHANGED <<queue, hand, callVars, stopVars, broken, history>>

\* Line 68 for a coroutine that the other loop is running.
ResumeRunning(l) ==
  /\ loop[l] = "testing" /\ frame[hand[l]] = "running"
  /\ broken' = TRUE
  /\ UNCHANGED <<queue, loopVars, frame, callVars, stopVars, history>>

\* The coroutine suspends: h.resume() returns.
Yield(l) ==
  /\ l \in Loops /\ Free(l) /\ yields < MaxYields
  /\ frame' = [frame EXCEPT ![hand[l]] = "suspended"]
  /\ yields' = yields + 1
  /\ loop' = [loop EXCEPT ![l] = "after"]
  /\ UNCHANGED <<queue, hand, callVars, stopVars, broken, given, early>>

\* It ends, with or without an exception.
Finish(l) ==
  /\ l \in Loops /\ Free(l)
  /\ frame' = [frame EXCEPT ![hand[l]] = "done"]
  /\ loop' = [loop EXCEPT ![l] = "after"]
  /\ UNCHANGED <<queue, hand, callVars, stopVars, broken, history>>

BugRequeue(l) ==
  /\ loop[l] = "after" /\ frame[hand[l]] # "done"
  /\ loop' = [loop EXCEPT ![l] = "enter"]
  /\ hand' = [hand EXCEPT ![l] = NoHandle]
  /\ UNCHANGED <<queue, frame, callVars, stopVars, broken, history>>
\* Lines 70-74, and the test of line 7 again: one step, since between the two nobody else
\* resumes the coroutine unless it was queued twice, and then both may pass or one may skip
\* it later (Skip).
Requeue(l) ==
  /\ loop[l] = "after" /\ frame[hand[l]] # "done"
  /\ loop' = [loop EXCEPT ![l] = "requeue"]
  /\ call' = [call EXCEPT ![l] = "tested"]
  /\ arg' = [arg EXCEPT ![l] = hand[l]]
  /\ hand' = [hand EXCEPT ![l] = NoHandle]
  /\ UNCHANGED <<queue, frame, stopVars, broken, history>>

Ended(l) ==
  /\ loop[l] = "after" /\ frame[hand[l]] = "done"
  /\ loop' = [loop EXCEPT ![l] = "enter"]
  /\ hand' = [hand EXCEPT ![l] = NoHandle]
  /\ UNCHANGED <<queue, frame, callVars, stopVars, broken, history>>

-----------------------------------------------------------------------------
(* stop(), called once, by a thread outside or from inside a coroutine. *)

\* Lines 29-32.
StopFlag(a) ==
  /\ Free(a) /\ stop = "idle"
  /\ stopped' = TRUE
  /\ stop' = "flagged" /\ stopper' = a
  /\ UNCHANGED <<queue, loopVars, frame, callVars, broken, history>>

BugStopNotify ==
  /\ stop = "flagged"
  /\ \E S \in SUBSET Waiting : Cardinality(S) <= 1 /\ loop' = Woken(S, "nobody")
  /\ stop' = "joining"
  /\ UNCHANGED <<queue, hand, frame, callVars, stopped, stopper, broken, history>>
\* Line 33.
StopNotify ==
  /\ stop = "flagged"
  /\ loop' = Woken(Waiting, "nobody")
  /\ stop' = "joining"
  /\ UNCHANGED <<queue, hand, frame, callVars, stopped, stopper, broken, history>>

\* Lines 35-38: without a runner there is nothing to join, and the runner cannot join
\* itself (std::system_error, resource_deadlock_would_occur).
StopJoin ==
  /\ stop = "joining"
  /\ \/ loop["runner"] \in {"off", "exited"} /\ stop' = "returned"
     \/ stopper = "runner" /\ stop' = "threw"
  /\ UNCHANGED <<queue, loopVars, frame, callVars, stopped, stopper, broken, history>>

-----------------------------------------------------------------------------
LoopStep(l) == \/ Wait(l) \/ Exit(l) \/ Take(l) \/ Skip(l) \/ Resume(l) \/ ResumeRunning(l)
               \/ Yield(l) \/ Finish(l) \/ Requeue(l) \/ Ended(l)
EnqueueStep(a) == Push(a) \/ Notify(a)

Next ==
  /\ ~broken
  /\ \/ \E l \in Loops : \/ Start(l) \/ SpuriousWake(l)
                         \/ Wait(l) \/ Exit(l) \/ Take(l) \/ Skip(l) \/ Resume(l)
                         \/ ResumeRunning(l) \/ Yield(l) \/ Finish(l) \/ Requeue(l) \/ Ended(l)
     \/ \E a \in Agents : \/ \E h \in Handles : Enqueue(a, h)
                          \/ Push(a) \/ Notify(a) \/ StopFlag(a)
     \/ StopNotify \/ StopJoin

Spec == Init /\ [][Next]_vars

\* Threads that are inside the loop, enqueue or stop are scheduled; a coroutine that
\* runs suspends or ends.  Nobody has to start a loop, to enqueue or to stop.
Fairness ==
  /\ \A l \in Loops : WF_vars(~broken /\ LoopStep(l))
  /\ \A a \in Agents : WF_vars(~broken /\ EnqueueStep(a))
  /\ WF_vars(~broken /\ (StopNotify \/ StopJoin))

FairSpec == Spec /\ Fairness

-----------------------------------------------------------------------------
(* Properties. *)

Alive(l) == loop[l] \notin {"off", "exited"}

\* Types; a loop has a handle in hand exactly between lines 60 and 73.
TypeOK ==
  /\ queue \in Seq(Handles)
  /\ stopped \in BOOLEAN /\ broken \in BOOLEAN
  /\ loop \in [Loops -> {"off", "enter", "waiting", "woken", "testing", "body", "after",
                         "requeue", "exited"}]
  /\ hand \in [Loops -> Handles \cup {NoHandle}]
  /\ \A l \in Loops : hand[l] # NoHandle <=> loop[l] \in {"testing", "body", "after"}
  /\ frame \in [Handles -> {"suspended", "running", "done"}]
  /\ call \in [Agents -> {"none", "tested", "pushed"}]
  /\ arg \in [Agents -> Handles \cup {NoHandle}]
  /\ \A a \in Agents : arg[a] # NoHandle <=> call[a] = "tested"
  /\ stop \in {"idle", "flagged", "joining", "returned", "threw"}
  /\ stopper \in Agents \cup {"nobody"}
  /\ given \in [Handles -> 0 .. 2]
  /\ yields \in 0 .. MaxYields
  /\ early \subseteq Handles

Awake == {l \in Loops : loop[l] = "woken"}
Notifying == {a \in Agents : call[a] = "pushed"}

\* No wake-up is lost although enqueue notifies one loop only, after the lock is
\* released: as long as a loop sleeps, there are no more handles in the queue than
\* loops just woken or about to be woken; and no loop sleeps through the stop
\* (orchestrator.cpp:9-12, 33, 55).
NoLostWakeup ==
  Waiting # {} =>
    /\ Len(queue) <= Cardinality(Awake) + Cardinality(Notifying)
    /\ stopped => stop = "flagged"

Count(S) == Cardinality(S)
Entries(h) == Count({i \in DOMAIN queue : queue[i] = h}) + Count({l \in Loops : hand[l] = h})
                + Count({a \in Agents : arg[a] = h})

\* Each call of enqueue puts one entry into the system, which is in the queue, in the
\* hand of one loop or on its way back into the queue until the coroutine is done: none
\* is lost or doubled by the requeue, and two threads resume one coroutine only if it
\* was enqueued twice and both loops run (orchestrator.cpp:5-13, 60-74).
HandleConserved ==
  /\ \A h \in Handles : /\ Entries(h) <= given[h]
                        /\ frame[h] # "done" => Entries(h) = given[h]
  /\ broken => (\E h \in Handles : given[h] > 1) /\ \A l \in Loops : loop[l] # "off"

\* When the loops that were started have left after a stop, every coroutine enqueued
\* before the stop is done: the queue is drained first, also when one loop leaves while
\* the other still runs a coroutine that it will queue again (orchestrator.cpp:57-74).
ExitDrained ==
  (\E l \in Loops : loop[l] = "exited") /\ (\A l \in Loops : ~Alive(l))
    => \A h \in early : frame[h] = "done"

\* A coroutine enqueued before the stop is brought to its end once a loop runs.
EveryHandleEnds ==
  \A h \in Handles :
    (h \in early /\ \E l \in Loops : Alive(l)) ~> (frame[h] = "done" \/ broken)

\* stop() comes back, or throws when the coroutine that calls it runs on runner_ (lines
\* 27-39; "stop the loop", orchestrator.hpp:24), provided the coroutines come to an end; and
\* every loop that was started ends.
StopReturns ==
  /\ stopped ~> (stop \in {"returned", "threw"} \/ broken)
  /\ \A l \in Loops : (stopped /\ Alive(l)) ~> (loop[l] = "exited" \/ broken)
=============================================================================
