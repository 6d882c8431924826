---------------------------- MODULE JobExecutor ----------------------------
(***************************************************************************)
(* What the thread pool promises to the code that hands it jobs, with no   *)
(* threads, queues or locks: a job handed over once is started at most     *)
(* once and at most Limit jobs run at the same time; after Close nothing   *)
(* more is started, and what was not started may be thrown away.           *)
(*                                                                         *)
(* ThreadPool implements this specification (ThreadPool!Executor).         *)
(***************************************************************************)
EXTENDS Naturals, FiniteSets

CONSTANTS Jobs,    \* what may be handed to the executor
          Limit    \* how many jobs may run at the same time

VARIABLES pending,   \* handed over, not started
          running,   \* started, not finished
          finished,  \* run to the end, with or without an exception
          discarded, \* thrown away by Discard
          open       \* FALSE once the executor was told to stop

vars == <<pending, running, finished, discarded, open>>

Known == pending \cup running \cup finished \cup discarded

Init == /\ pending = {} /\ running = {} /\ finished = {} /\ discarded = {}
        /\ open = TRUE

Submit(j) == /\ j \notin Known
             /\ pending' = pending \cup {j}
             /\ UNCHANGED <<running, finished, discarded, open>>

Start(j) == /\ open
            /\ j \in pending
            /\ Cardinality(running) < Limit
            /\ pending' = pending \ {j}
            /\ running' = running \cup {j}
            /\ UNCHANGED <<finished, discarded, open>>

Finish(j) == /\ j \in running
             /\ running' = running \ {j}
             /\ finished' = finished \cup {j}
             /\ UNCHANGED <<pending, discarded, open>>

Close == /\ open
         /\ open' = FALSE
         /\ UNCHANGED <<pending, running, finished, discarded>>

Discard == /\ ~open
           /\ running = {}
           /\ pending' = {}
           /\ discarded' = discarded \cup pending
           /\ UNCHANGED <<running, finished, open>>

Next == \/ \E j \in Jobs : Submit(j) \/ Start(j) \/ Finish(j)
        \/ Close
        \/ Discard

Spec == Init /\ [][Next]_vars
=============================================================================
