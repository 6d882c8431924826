----------------------------- MODULE AsyncTasks -----------------------------
(***************************************************************************)
(* async<T>, its promise and the functions that use them (async.hpp), on   *)
(* the scheduler of AsyncScheduler.  A coroutine is made suspended; the    *)
(* code that made it starts it (operator(), detach, then, fire_and_forget),*)
(* waits for it (co_await, run_sync) or lets its async object go.  Its     *)
(* body is any code: it may make, start, await and drop other coroutines,  *)
(* sleep, yield and return; an exception that leaves it is a return.       *)
(* A coroutine holds one async object at a time and nobody else awaits it. *)
(***************************************************************************)
EXTENDS AsyncScheduler

CONSTANTS MaxFrames,  \* bound on the coroutines made
          MaxSleeps   \* bound on the sleeps and yields

ASSUME TasksAssumption == MaxFrames \in Nat /\ MaxSleeps \in Nat

VARIABLES
  child,     \* the async object a coroutine holds: its coro
  awaited,   \* it was awaited
  cont,      \* state->continuation
  caller,    \* the thread that calls start, stop, run and run_sync: "idle", or in
             \* run_sync "scheduled", "looping" or "waiting" for the result
  syncTask,  \* the coroutine it runs
  answer,    \* completed of that coroutine
  stale,     \* history: coroutines whose address was still referenced when they were made
  made,      \* history: coroutines made
  slept      \* history: sleeps and yields

objectVars == <<child, awaited, cont>>
callerVars == <<caller, syncTask, answer>>
bounds == <<made, slept>>
taskVars == <<objectVars, callerVars, stale, bounds>>
vars == <<schedVars, taskVars>>

Init ==
  /\ SchedInit
  /\ child = [a \in Addrs |-> None] /\ awaited = [a \in Addrs |-> FALSE]
  /\ cont = [a \in Addrs |-> None]
  /\ caller = "idle" /\ syncTask = None /\ answer = FALSE
  /\ stale = {} /\ made = 0 /\ slept = 0

Live(a) == frame[a] \in {"suspended", "running", "final"}

\* The address may still be given to the scheduler by whoever holds it.
Referenced(a) ==
  \/ a \in cleanup \/ \E w \in Workers : a \in swept[w]
  \/ \E p \in Addrs : Live(p) /\ child[p] = a
  \/ syncTask = a

\* Lines 522-526 and 838-848: a new coroutine, at its initial suspension.  The caller
\* of Make says what becomes of frame and child.
Make(c) ==
  /\ frame[c] = "free" /\ made < MaxFrames
  /\ awaited' = [awaited EXCEPT ![c] = FALSE]
  /\ cont' = [cont EXCEPT ![c] = None]
  /\ stale' = IF Referenced(c) THEN stale \cup {c} ELSE stale \ {c}
  /\ made' = made + 1

-----------------------------------------------------------------------------
(* Threads outside the scheduler. *)

\* Lines 719-748, 750-761 on a new object, 1119-1143 and 1196-1218.
Launch(c) ==
  /\ Make(c)
  /\ frame' = [frame EXCEPT ![c] = "suspended"]
  /\ child' = [child EXCEPT ![c] = None]
  /\ Schedule(c)
  /\ UNCHANGED <<ctlVars, delayVars, cleanup, workVars, dropped, callerVars, slept>>

\* Lines 1149-1158 and 1171-1180, the workers being off.
RunSync(c) ==
  /\ caller = "idle" /\ Quiet /\ ~running
  /\ Make(c)
  /\ frame' = [frame EXCEPT ![c] = "suspended"]
  /\ child' = [child EXCEPT ![c] = None]
  /\ Schedule(c)
  /\ caller' = "scheduled" /\ syncTask' = c /\ answer' = FALSE
  /\ UNCHANGED <<ctlVars, delayVars, cleanup, workVars, dropped, slept>>

\* Lines 1165-1168 and 1187-1190: run() was left, and result() waits at line 473 or 503.
\* The parameter task is destroyed at the return.
RunSyncEnd ==
  /\ caller = "waiting" /\ answer
  /\ cleanup' = cleanup \cup {syncTask}
  /\ caller' = "idle" /\ syncTask' = None
  /\ UNCHANGED <<frame, ctlVars, queueVars, delayVars, refs, workVars, crashed, dropped,
                 objectVars, answer, stale, bounds>>

\* Line 1165 or 1187, or a call of scheduler::run().
EnterRun ==
  /\ caller \in {"idle", "scheduled"}
  /\ RunBegin
  /\ caller' = IF caller = "scheduled" THEN "looping" ELSE "idle"
  /\ UNCHANGED <<objectVars, syncTask, answer, stale, bounds>>

RunPass ==
  /\ Pass
  /\ caller' = IF caller = "looping" /\ ~sync' THEN "waiting" ELSE caller
  /\ UNCHANGED <<objectVars, syncTask, answer, stale, bounds>>

Control == caller = "idle" /\ (Start \/ Stop) /\ UNCHANGED taskVars

-----------------------------------------------------------------------------
(* The body of the coroutine that worker w resumed. *)

InBody(w) == at[w] = "body"

\* It calls a coroutine and keeps the object.
Call(w, c) ==
  /\ InBody(w) /\ child[hand[w]] = None
  /\ Make(c)
  /\ frame' = [frame EXCEPT ![c] = "suspended"]
  /\ child' = [child EXCEPT ![c] = None, ![hand[w]] = c]
  /\ UNCHANGED <<ctlVars, queueVars, delayVars, refVars, workVars, crashed, dropped, callerVars,
                 slept>>

BugContinueWith(c, a) == UNCHANGED cont
\* Lines 782 and 940.
ContinueWith(c, a) == cont' = [cont EXCEPT ![c] = a]

\* Lines 763-794 and 921-952, under the mutex of the state: the child was not started yet.
\* The other ways (770-774, no child or a finished one; 785-793, a completed state or an
\* exception) are not reached, because a child is first scheduled here, by its one awaiter.
\* They would schedule the parent, which line 304 refuses: it is in handle_refs.
Await(w) ==
  LET a == hand[w] IN
  /\ InBody(w) /\ child[a] # None /\ ~awaited[a]
  /\ ContinueWith(child[a], a)
  /\ awaited' = [awaited EXCEPT ![a] = TRUE]
  /\ frame' = [frame EXCEPT ![a] = "suspended"]
  /\ Schedule(child[a])
  /\ GoHome(w)
  /\ UNCHANGED <<ctlVars, delayVars, cleanup, ready, swept, dropped, child, callerVars, stale,
                 bounds>>

\* Lines 692-695 and 816-825: the object goes.  A coroutine that was never started is
\* not in handle_refs: its frame stays, and nobody knows it.
Drop(w) ==
  LET a == hand[w] IN
  /\ InBody(w) /\ child[a] # None
  /\ cleanup' = cleanup \cup {child[a]}
  /\ child' = [child EXCEPT ![a] = None]
  /\ awaited' = [awaited EXCEPT ![a] = FALSE]
  /\ UNCHANGED <<frame, ctlVars, queueVars, delayVars, refs, workVars, crashed, dropped, cont,
                 callerVars, stale, bounds>>

\* Launch, from a coroutine; the new object is gone at once.
Spawn(w, c) == InBody(w) /\ Launch(c)

\* Lines 1057-1101: the coroutine is suspended, its handle goes to delayed_tasks.
Suspend(w) ==
  /\ InBody(w) /\ slept < MaxSleeps
  /\ frame' = [frame EXCEPT ![hand[w]] = "suspended"]
  /\ slept' = slept + 1
  /\ GoHome(w)
  /\ UNCHANGED <<ctlVars, queueVars, refVars, ready, swept, crashed, dropped, objectVars,
                 callerVars, stale, made>>

Sleep(w) == Suspend(w) /\ sleeping' = sleeping \cup {hand[w]} /\ UNCHANGED due
Yield(w) == Suspend(w) /\ due' = due \cup {hand[w]} /\ UNCHANGED sleeping

\* Lines 563-591 and 646-662: done() is true from here on.
Return(w) ==
  /\ InBody(w) /\ child[hand[w]] = None
  /\ frame' = [frame EXCEPT ![hand[w]] = "final"]
  /\ at' = [at EXCEPT ![w] = "final"]
  /\ UNCHANGED <<ctlVars, queueVars, delayVars, refVars, hand, ready, swept, crashed, dropped,
                 taskVars>>

BugComplete(a) == UNCHANGED answer
\* Lines 541-543 and 624-626.
Complete(a) == answer' = (answer \/ a = syncTask)

BugHandOver(a) == UNCHANGED cleanup
\* Lines 556 and 639.
HandOver(a) == cleanup' = cleanup \cup {a}

\* Lines 533-558 and 616-641: the worker goes on with the coroutine that awaits this one.
Final(w) ==
  LET a == hand[w] IN
  /\ at[w] = "final"
  /\ Complete(a) /\ HandOver(a)
  /\ IF cont[a] = None
     THEN /\ frame' = [frame EXCEPT ![a] = "done"]
          /\ GoHome(w)
     ELSE /\ frame' = [frame EXCEPT ![a] = "done", ![cont[a]] = "running"]
          /\ hand' = [hand EXCEPT ![w] = cont[a]]
          /\ at' = [at EXCEPT ![w] = "body"]
  /\ UNCHANGED <<ctlVars, queueVars, delayVars, refs, ready, swept, crashed, dropped, objectVars,
                 caller, syncTask, stale, bounds>>

Body(w) == Await(w) \/ Drop(w) \/ Sleep(w) \/ Yield(w) \/ Return(w)
           \/ \E c \in Addrs : Call(w, c) \/ Spawn(w, c)

Worker(w) == (WorkerStep(w) /\ UNCHANGED taskVars) \/ Body(w) \/ Final(w)

Time == \E h \in Addrs : Expire(h) /\ UNCHANGED taskVars

Next == /\ ~crashed
        /\ \/ Control \/ EnterRun \/ RunPass \/ RunSyncEnd \/ Time
           \/ \E c \in Addrs : Launch(c) \/ RunSync(c)
           \/ \E w \in Workers : Worker(w)

\* Threads in the loop of the scheduler, in run() and in run_sync are scheduled, a body
\* suspends or returns, and time passes.  Nobody has to call anything.
Fairness ==
  /\ \A w \in Workers : WF_vars(~crashed /\ Worker(w))
  /\ \A h \in Addrs : WF_vars(~crashed /\ Expire(h) /\ UNCHANGED taskVars)
  /\ WF_vars(~crashed /\ RunPass) /\ WF_vars(~crashed /\ RunSyncEnd)
  /\ WF_vars(~crashed /\ caller = "scheduled" /\ EnterRun)

Spec == Init /\ [][Next]_vars
FairSpec == Spec /\ Fairness

-----------------------------------------------------------------------------
(* Properties. *)

TypeOK ==
  /\ SchedTypeOK
  /\ child \in [Addrs -> Addrs \cup {None}] /\ awaited \in [Addrs -> BOOLEAN]
  /\ cont \in [Addrs -> Addrs \cup {None}]
  /\ caller \in {"idle", "scheduled", "looping", "waiting"}
  /\ syncTask \in Addrs \cup {None} /\ answer \in BOOLEAN
  /\ stale \subseteq Addrs /\ made \in 0..MaxFrames /\ slept \in 0..MaxSleeps

\* The places from which a suspended coroutine will be resumed.
Homes(a) ==
  (UNION {{<<"queue", w, i>> : i \in {j \in DOMAIN tasks[w] : tasks[w][j] = a}} : w \in Workers})
  \cup {<<"hand", w>> : w \in {v \in Workers : at[v] = "resume" /\ hand[v] = a}}
  \cup {<<"ready", w>> : w \in {v \in Workers : a \in ready[v]}}
  \cup {<<"delayed", q>> : q \in {r \in {1, 2} : a \in <<sleeping, due>>[r]}}
  \cup {<<"continuation", c>> : c \in {d \in Addrs : Live(d) /\ cont[d] = a}}

\* A coroutine that was started and is suspended will be resumed from exactly one place,
\* and never by two threads: none is lost by the refusal of schedule_impl, by stealing or
\* between the queues, and no handle of a running, finished or destroyed coroutine is left
\* in them.  The exception is what the queues lose when run() resizes them.
OneHome ==
  ~crashed =>
    \A a \in Addrs :
      LET runners == {w \in Workers : hand[w] = a /\ at[w] \in {"body", "final"}}
      IN  /\ Cardinality(Homes(a)) + Cardinality(runners) <= 1
          /\ Homes(a) # {} => frame[a] = "suspended"
          /\ frame[a] \in {"running", "final"} <=> runners # {}
          /\ a \in refs /\ frame[a] = "suspended" => Homes(a) # {} \/ a \in dropped

\* A finished coroutine is known to the cleanup, which will destroy its frame; and no
\* frame is destroyed below its final awaiter.  Both hold for a coroutine made at an
\* address for which no second entry of cleanup_tasks was under way.
Reclaimed ==
  /\ \A a \in Addrs \ stale :
       frame[a] = "done" =>
         a \in refs /\ (a \in cleanup \/ \E w \in Workers : a \in swept[w])
  /\ crashed => threads = 0 \/ stale # {}

\* run() "runs the scheduler in synchronous mode until all tasks are complete" (line 66):
\* when it returns, handle_refs is empty, and so every coroutine ever scheduled has ended
\* unless the resize at the beginning of run() lost one; what is left of the frames are
\* coroutines that handle_refs did not know, which were never started.  Not so at an
\* address for which a second entry of cleanup_tasks was under way (stale): that entry
\* takes the coroutine out of handle_refs, and its frame is never destroyed.
RunDrains ==
  [][sync /\ ~sync' /\ dropped = {} =>
       /\ refs' = {}
       /\ \A a \in Addrs \ stale :
            frame'[a] = "free" \/ (frame'[a] = "suspended" /\ a \notin refs)]_vars

\* A coroutine that was started ends, whoever awaits it and wherever it was queued, while
\* the scheduler runs.
EveryTaskEnds ==
  \A a \in Addrs : a \in refs /\ frame[a] = "suspended"
                   ~> ~(Live(a) /\ running) \/ crashed \/ dropped # {}

\* run_sync returns, unless the coroutine or one it awaits was lost by the resize.
RunSyncReturns == caller # "idle" ~> caller = "idle" \/ crashed \/ dropped # {}
=============================================================================
