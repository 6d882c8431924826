--------------------------- MODULE AsyncScheduler ---------------------------
(***************************************************************************)
(* The scheduler of async.hpp: worker threads that poll, each with a queue *)
(* of coroutine handles from which the others may steal, a queue of        *)
(* delayed handles, a table of reference counts (handle_refs) and a queue  *)
(* of handles to clean up; or, instead of the workers, one thread inside   *)
(* run().  AsyncTasks adds the coroutines and the code that uses them.     *)
(*                                                                         *)
(* A handle is the address of a frame, and an address is used again when   *)
(* its frame was destroyed.  A worker is                                   *)
(*   "off"     not started, or out of its loop                             *)
(*   "tick"    at the loop condition (line 259)                            *)
(*   "place"   moving what is due to the queues (lines 410-424), then      *)
(*             about to look into its own queue (line 107)                 *)
(*   "steal"   its own queue was empty (line 117)                          *)
(*   "resume"  with a handle in hand (line 150)                            *)
(*   "body"    inside h.resume()                                           *)
(*   "final"   inside the final awaiter of the coroutine in hand           *)
(*   "clean"   with a cleanup list in hand (line 366)                      *)
(*   "pass"    at the top of the loop of run() (line 197), worker 0 only.  *)
(***************************************************************************)
EXTENDS Integers, Sequences, FiniteSets, SequencesExt

CONSTANTS Addrs,  \* addresses of frames
          N,      \* max_thread of start()
          None    \* nullptr

ASSUME SchedulerAssumption == N \in Nat \ {0} /\ None \notin Addrs /\ IsFiniteSet(Addrs)

Workers == 0 .. N-1

VARIABLES
  frame,    \* "free", "suspended", "running", "final" (done() is true, the final
            \* awaiter runs) or "done"
  threads,  \* num_threads
  running,  \* running
  sync,     \* a thread is inside run(); it acts as worker 0
  tasks,    \* local_task_queues
  next,     \* next_thread_idx
  sleeping, \* delayed_tasks whose time has not come
  due,      \* delayed_tasks whose time has come
  refs,     \* the keys of handle_refs: every count is 1
  cleanup,  \* cleanup_tasks, as a set: only the first entry of a handle has an effect
  at,       \* where each worker is
  hand,     \* its local variable h
  ready,    \* its local variable ready_tasks
  swept,    \* its local variable local_cleanup_tasks
  crashed,  \* undefined behaviour: the process is gone
  dropped   \* history: handles nobody holds any more

ctlVars == <<threads, running, sync>>
queueVars == <<tasks, next>>
delayVars == <<sleeping, due>>
refVars == <<refs, cleanup>>
workVars == <<at, hand, ready, swept>>
schedVars == <<frame, ctlVars, queueVars, delayVars, refVars, workVars, crashed, dropped>>

SchedInit ==
  /\ frame = [a \in Addrs |-> "free"]
  /\ threads = 0 /\ running = FALSE /\ sync = FALSE
  /\ tasks = [w \in Workers |-> << >>] /\ next = 0
  /\ sleeping = {} /\ due = {} /\ refs = {} /\ cleanup = {}
  /\ at = [w \in Workers |-> "off"] /\ hand = [w \in Workers |-> None]
  /\ ready = [w \in Workers |-> {}] /\ swept = [w \in Workers |-> {}]
  /\ crashed = FALSE /\ dropped = {}

Quiet == \A w \in Workers : at[w] = "off"

-----------------------------------------------------------------------------
(* schedule, schedule_after and cleanup_handle, by any thread. *)

\* Line 304: the handle was scheduled and is not cleaned up yet.
Listed(h) == h \in refs

\* Lines 285-315 for a handle that is not done.  % 0 before the first start or run
\* raises SIGFPE.  The counter is taken modulo N.
Schedule(h) ==
  /\ crashed' = (threads = 0)
  /\ IF threads = 0 \/ Listed(h)
     THEN UNCHANGED <<tasks, refs>>
     ELSE /\ tasks' = [tasks EXCEPT ![next % threads] = Append(@, h)]
          /\ refs' = refs \cup {h}
  /\ next' = (next + 1) % N

\* Where a worker goes when h.resume() returns (line 161).
Home == IF sync THEN "pass" ELSE "tick"
GoHome(w) == at' = [at EXCEPT ![w] = Home] /\ hand' = [hand EXCEPT ![w] = None]

-----------------------------------------------------------------------------
(* start, stop, and the loop of a worker. *)

\* Lines 231-249, as one step: nobody calls schedule meanwhile.
Start ==
  /\ Quiet /\ ~running
  /\ running' = TRUE /\ threads' = N
  /\ at' = [w \in Workers |-> "tick"]
  /\ UNCHANGED <<frame, sync, queueVars, delayVars, refVars, hand, ready, swept, crashed, dropped>>

\* Line 271; the joins of lines 273-278 return when every worker is off.
Stop ==
  /\ running /\ ~sync
  /\ running' = FALSE
  /\ UNCHANGED <<frame, threads, sync, queueVars, delayVars, refVars, workVars, crashed, dropped>>

\* Line 259.
Exit(w) ==
  /\ at[w] = "tick" /\ ~running
  /\ at' = [at EXCEPT ![w] = "off"]
  /\ UNCHANGED <<frame, ctlVars, queueVars, delayVars, refVars, hand, ready, swept, crashed, dropped>>

\* Time passes.
Expire(h) ==
  /\ h \in sleeping
  /\ sleeping' = sleeping \ {h}
  /\ due' = due \cup {h}
  /\ UNCHANGED <<frame, ctlVars, queueVars, refVars, workVars, crashed, dropped>>

BugTick(w) ==
  /\ at[w] = "tick" /\ running
  /\ ready' = [ready EXCEPT ![w] = due]
  /\ at' = [at EXCEPT ![w] = "place"]
  /\ UNCHANGED <<frame, ctlVars, queueVars, delayVars, refVars, hand, swept, crashed, dropped>>
\* Lines 259 and 395-406.
Tick(w) ==
  /\ at[w] = "tick" /\ running
  /\ ready' = [ready EXCEPT ![w] = due]
  /\ due' = {}
  /\ at' = [at EXCEPT ![w] = "place"]
  /\ UNCHANGED <<frame, ctlVars, queueVars, sleeping, refVars, hand, swept, crashed, dropped>>

\* Lines 410-416; the coroutine is suspended, so that line 412 lets it pass.
Place(w, h) ==
  /\ at[w] = "place" /\ h \in ready[w]
  /\ tasks' = [tasks EXCEPT ![next % threads] = <<h>> \o @]
  /\ next' = (next + 1) % N
  /\ ready' = [ready EXCEPT ![w] = @ \ {h}]
  /\ UNCHANGED <<frame, ctlVars, delayVars, refVars, at, hand, swept, crashed, dropped>>

Looking(w) == at[w] = "place" /\ ready[w] = {}

\* Lines 107-113.
Take(w) ==
  /\ Looking(w) /\ tasks[w] # << >>
  /\ hand' = [hand EXCEPT ![w] = Head(tasks[w])]
  /\ tasks' = [tasks EXCEPT ![w] = Tail(@)]
  /\ at' = [at EXCEPT ![w] = "resume"]
  /\ UNCHANGED <<frame, ctlVars, next, delayVars, refVars, ready, swept, crashed, dropped>>

\* Lines 107-114.
NoTask(w) ==
  /\ Looking(w) /\ tasks[w] = << >>
  /\ at' = [at EXCEPT ![w] = "steal"]
  /\ UNCHANGED <<frame, ctlVars, queueVars, delayVars, refVars, hand, ready, swept, crashed, dropped>>

BugSteal(w, i) ==
  /\ at[w] = "steal" /\ i # w /\ tasks[i] # << >>
  /\ hand' = [hand EXCEPT ![w] = Last(tasks[i])]
  /\ at' = [at EXCEPT ![w] = "resume"]
  /\ UNCHANGED <<frame, ctlVars, queueVars, delayVars, refVars, ready, swept, crashed, dropped>>
\* Lines 117-130, the lock of queue i being free.
Steal(w, i) ==
  /\ at[w] = "steal" /\ i # w /\ tasks[i] # << >>
  /\ hand' = [hand EXCEPT ![w] = Last(tasks[i])]
  /\ tasks' = [tasks EXCEPT ![i] = Front(@)]
  /\ at' = [at EXCEPT ![w] = "resume"]
  /\ UNCHANGED <<frame, ctlVars, next, delayVars, refVars, ready, swept, crashed, dropped>>

\* Lines 117-136, every other queue being empty or locked, and 357-360.
Sweep(w) ==
  /\ at[w] = "steal"
  /\ swept' = [swept EXCEPT ![w] = cleanup]
  /\ cleanup' = {}
  /\ at' = [at EXCEPT ![w] = "clean"]
  /\ UNCHANGED <<frame, ctlVars, queueVars, delayVars, refs, hand, ready, crashed, dropped>>

Finished(a) == frame[a] \in {"final", "done"}

\* Lines 366-387: the count of each listed handle goes from 1 to 0, and the frame is
\* destroyed if it is done, even below a final awaiter that still uses it.
Free(list) ==
  LET gone == {a \in list \cap refs : Finished(a)}
  IN  /\ refs' = refs \ list
      /\ frame' = [a \in Addrs |-> IF a \in gone THEN "free" ELSE frame[a]]
      /\ crashed' = \E a \in gone : frame[a] = "final"

\* Lines 366-388, then the sleep of line 181.
Clean(w) ==
  /\ at[w] = "clean"
  /\ Free(swept[w])
  /\ swept' = [swept EXCEPT ![w] = {}]
  /\ at' = [at EXCEPT ![w] = "tick"]
  /\ UNCHANGED <<ctlVars, queueVars, delayVars, cleanup, hand, ready, dropped>>

\* Lines 150-161; line 154 finds no finished coroutine in a queue.
Resume(w) ==
  /\ at[w] = "resume" /\ frame[hand[w]] = "suspended"
  /\ frame' = [frame EXCEPT ![hand[w]] = "running"]
  /\ at' = [at EXCEPT ![w] = "body"]
  /\ UNCHANGED <<ctlVars, queueVars, delayVars, refVars, hand, ready, swept, crashed, dropped>>

-----------------------------------------------------------------------------
(* run(): the calling thread as worker 0. *)

\* Lines 191-195, the workers being off: the other queues go, with what is in them.
RunBegin ==
  /\ Quiet /\ ~running
  /\ running' = TRUE /\ sync' = TRUE /\ threads' = 1
  /\ tasks' = [w \in Workers |-> IF w = 0 THEN tasks[0] ELSE << >>]
  /\ dropped' = dropped \cup UNION {Range(tasks[w]) : w \in Workers \ {0}}
  /\ at' = [at EXCEPT ![0] = "pass"]
  /\ UNCHANGED <<frame, next, delayVars, refVars, hand, ready, swept, crashed>>

BugPassOver(s) == s = << >>
\* Line 217; what was due has been queued and what was to be cleaned up is.
PassOver(s) == s = << >> /\ sleeping = {}

\* Lines 199-223: one pass as one step; only calls of schedule from outside could fall
\* in between, and they commute.
Pass ==
  /\ sync /\ at[0] = "pass"
  /\ \E s \in SetToSeqs(due) :
       /\ tasks' = [tasks EXCEPT ![0] = s \o @]
       /\ LET leave == tasks[0] = << >> /\ PassOver(s)
          IN  /\ at' = [at EXCEPT ![0] = IF tasks[0] # << >> THEN "tick"
                                         ELSE IF leave THEN "off" ELSE "pass"]
              /\ sync' = ~leave /\ running' = ~leave
  /\ due' = {}
  /\ Free(cleanup)
  /\ cleanup' = {}
  /\ UNCHANGED <<threads, next, sleeping, hand, ready, swept, dropped>>

WorkerStep(w) == \/ Exit(w) \/ Tick(w) \/ Take(w) \/ NoTask(w) \/ Sweep(w) \/ Clean(w) \/ Resume(w)
                 \/ \E h \in Addrs : Place(w, h)
                 \/ \E i \in Workers : Steal(w, i)

\* Types of the members of scheduler and of the locals of its threads.
SchedTypeOK ==
  /\ frame \in [Addrs -> {"free", "suspended", "running", "final", "done"}]
  /\ threads \in {0, 1, N} /\ running \in BOOLEAN /\ sync \in BOOLEAN
  /\ \A w \in Workers : Range(tasks[w]) \subseteq Addrs /\ Len(tasks[w]) <= Cardinality(Addrs)
  /\ next \in Workers
  /\ sleeping \subseteq Addrs /\ due \subseteq Addrs
  /\ refs \subseteq Addrs /\ cleanup \subseteq Addrs
  /\ at \in [Workers -> {"off", "tick", "place", "steal", "resume", "body", "final", "clean",
                         "pass"}]
  /\ hand \in [Workers -> Addrs \cup {None}]
  /\ \A w \in Workers : hand[w] # None <=> at[w] \in {"resume", "body", "final"}
  /\ ready \in [Workers -> SUBSET Addrs] /\ swept \in [Workers -> SUBSET Addrs]
  /\ crashed \in BOOLEAN /\ dropped \subseteq Addrs
=============================================================================
