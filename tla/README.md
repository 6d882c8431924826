# EllohimMQ-TCP in TLA+

EllohimMQ-TCP (`src/`) is a message broker over TCP: clients subscribe to topics and
publish messages, the broker forwards each message to the subscribers of its topic and, when
the topic belongs to a *consumer* compiled into the broker, runs that consumer as a
coroutine on a thread pool.  This directory holds TLA+ models of it, TLC configurations
that check them on small instances, and proofs that the TLA+ proof system checks.

Paths below are relative to `src/src/` unless they start with `src/`.

## The system

| component | code | state | operations |
|---|---|---|---|
| thread pool | `thread_pool.cpp/.hpp` | one deque of jobs per worker, one mutex, one condition variable, a stop flag, a count of busy workers | `queue_job`, `run` (one per worker), `destroy` |
| timer scheduler | `scheduler.hpp` | priority queue of timed jobs, stop flag, one loop thread | `execute_at/after`, `run`, `destory` |
| TCP server | `tcp_server.cpp` | epoll set, map descriptor -> `TcpConnection` | `start`, `handle_accept`, `handle_read`, `close_connection` |
| message broker | `message_broker.cpp`, `protocol_handler.cpp`, `tcp_connection.cpp` | per topic a queue and a list of `weak_ptr`s to subscribers | `handle_message`, `publish`, `subscribe`, `dispatch`, `send` |
| consumers | `consumers/`, `topics/` | hash -> consumer | `get_consumer`, `call`, `on_call` |
| coroutine runtime | `coroutine.hpp` | frames, continuations, exceptions | `Task`, `AsyncTask`, `TimerAwaiter`, `async_run`, `sync_wait`, `co_future` |
| orchestrator | `orchestrator.cpp` | queue of handles, stop flag, loop thread | `enqueue`, `run`, `run_async`, `stop` |
| async scheduler | `async.hpp` (included by nothing) | a queue per worker with stealing, delayed handles, `handle_refs`, handles to clean up | `schedule`, `schedule_after`, `start`, `stop`, `run`; `async<T>`, `run_sync`, `fire_and_forget` |
| clients | `src/publish.py`, `src/subscribe.py` | a socket | connect, send, receive, close |
| joaat, logger, files | `util/`, `logger/`, `file_manager/` | - | a hash; I/O |

One thread runs the event loop (`main.cpp`), and with it the protocol handler and the
broker.  `publish` hands the payload of a topic with a consumer to the pool
(`consumer::call`, `queue_job`).  A worker runs the coroutine until it sleeps; `sleepCoro`
puts a timer into the scheduler, whose loop thread hands the resumption back to the pool.

What is hard here, and what makes each part correct:

- *Pool*: the deque is chosen outside the lock, one condition variable serves workers
  with different predicates, `destroy` races with callers and sleepers.  No wake-up may be
  lost, no job lost or run twice, `destroy` must return.
- *Timers*: the stop flag is read without the lock, a sleep has no predicate.  The thread
  may not sleep past a timer, lose one, or survive the stop for long.
- *Server*: edge-triggered events, one `recv` per event, descriptors that are closed and
  used again inside one batch.  Nobody may be forgotten and no table may be stale.
- *Broker*: subscribers are remembered longer than their connections.  A publication
  must reach the subscribers of its topic and nobody else.
- *Coroutines*: a frame moves from thread to thread.  It must be resumed exactly once per
  suspension, and the locals of `sync_wait` must outlive it.
- *Orchestrator*: one notification per handle, two loops on one queue, and loops that
  queue again what they resumed.  No handle may be lost between queue, loop and requeue,
  and the stop must find the queue drained.
- *Async scheduler*: workers poll, steal, and free frames whose addresses are used again.
  A started coroutine must be in exactly one queue until it ends, whoever resumes it, and
  its frame must be destroyed once, after its end.

## Modules

| module | models | notes |
|---|---|---|
| `JobExecutor` | what the pool promises: pending, running, finished, discarded | abstract |
| `ThreadPool` | the pool | implements `JobExecutor` (`ImplementsExecutor`) |
| `ThreadPoolProofs`, `ThreadPoolOnceProofs`, `ThreadPoolExecutorProofs` | theorems about `ThreadPool` | |
| `TimerScheduler` | the timer scheduler and its clock | |
| `TimerSchedulerProofs` | theorems about `TimerScheduler` | |
| `Coroutines` | the coroutine runtime and `consumer::call` over `JobExecutor` | |
| `CoroutinesProofs` | theorems about `Coroutines` | |
| `Orchestrator` | the orchestrator and the coroutines it resumes | |
| `OrchestratorProofs` | theorems about `Orchestrator` | |
| `AsyncScheduler` | `scheduler` of `async.hpp` | actions used by `AsyncTasks` |
| `AsyncTasks` | `async<T>`, its promise and the functions that use them | composed with `AsyncScheduler` |
| `AsyncTasksProofs` | theorems about `AsyncTasks`, with its scheduler | |
| `PubSub` | what the broker promises to its clients, without sockets: what they asked, in which order it is served, what they get | abstract |
| `Sockets` | clients and kernel, external | base of the server |
| `MessageBroker` | broker, protocol handler, `TcpConnection` | operators used by `TcpServer` |
| `TcpServer` | the epoll loop, composed with the two above | implements `PubSub` (`ImplementsPubSub`) as long as no subscriber leaves |
| `TcpServerProofs` | theorems about `TcpServer`, with its sockets and its broker | |
| `MCTcpServer` | symmetry sets for TLC | |

`TcpServer` EXTENDS `MessageBroker` EXTENDS `Sockets`: all three share one state, since
the broker runs inside `handle_read`.  `Coroutines` uses the pool only through
`JobExecutor`, and `ThreadPool` is shown to implement `JobExecutor`: that is how the two
are composed.  The timer thread appears in `Coroutines` as the set `timers`, from which
every element goes to the pool once and at an arbitrary later time; `TimerInOnePlace` and
`EveryTimerFires` of `TimerScheduler` justify that.

How state and actions correspond to the code:

- **ThreadPool.**  A critical section of `m_lock` is one action.  `queue_job` is
  `PickQueue` (line 65), `Push` (67-85), `Notify` (86).  `run` is `Wait`, `Take`
  (107-128), `Start`, `Finish`, `Exit`; a waiting worker becomes `"ready"` when notified
  or spuriously, and then evaluates its predicate again.  `destroy` is `DestroyStop`,
  `DestroyNotify`, `DestroyClear`.  `UseAfterClear` is `queue_job` on the cleared pool
  (undefined behaviour; the process is gone).
- **TimerScheduler.**  `Check` reads `m_running` without the lock; `EnterEmpty`, `Pop`
  and `Sleep` are the three outcomes of one pass under the lock.  `Tick` is the clock.
- **Coroutines.**  `at[c]` says where the coroutine of call c is.  `Sleep` is
  `TimerAwaiter::await_suspend`, `Continue` is `final_awaiter`, `Throw` an exception that
  travels outwards through `await_resume`.  The end of the root of `sync_wait` is split
  into lock, flag, notify, unlock because the caller may wake up in between.
- **Orchestrator.**  `enqueue` is `Enqueue` (the test of line 7), `Push` (under the
  lock), `Notify` (after it), for a thread outside, a coroutine, or the loop itself in line
  73.  The loop is `Wait`/`Exit`/`Take` under the lock, then, without it, `Skip` or
  `Resume`; the body ends in `Yield` or `Finish`, followed by `Requeue` or `Ended`.
  `stop` is `StopFlag`, `StopNotify`, `StopJoin`.  A coroutine that both loops resume at a
  time ends the behaviour (`broken`).
- **AsyncScheduler, AsyncTasks.**  A tick of a worker is `Tick` (what is due leaves
  `delayed_tasks`), one `Place` per handle, then `Take`, or `NoTask` and `Steal`, or
  `Sweep` and `Clean`.  `Sweep` is possible also while another queue holds a handle,
  because `try_lock` may fail.  A pass of `run()` is one action, since one thread does it
  all.  The body of a coroutine is a free choice among `Call`, `Await`, `Drop`, `Spawn`,
  `Sleep`, `Yield` and `Return`; `Final` is its final awaiter.  Frames have addresses,
  which are used again after `Clean`; `stale` marks a coroutine made at an address that a
  cleanup entry, or an object that will make one, still names.
- **TcpServer.**  `EpollWait` fills `batch`; `BeginAccept`, `AcceptOne`, `AcceptDone`
  are `handle_accept`; `ReadData`, `ReadEnd`, `ReadError` are `handle_read` with what
  `recv` returned; a handler runs to its end inside `ReadData`, because one thread does
  it all.  A stream is a sequence of fragments: a request is `Parts` of them, one `recv`
  returns up to `RecvCap`.

The operators named `Bug...` are slips the code might contain (a `notify_one` for a
`notify_all`, a missing `erase`, a test left out).  No action uses them; each stands
before the definition it would replace, and replacing it breaks a property.

## Runs

| configuration | checks | shows |
|---|---|---|
| `ThreadPool` | `TypeOK`, `NoLostWakeup`, `JobInOnePlace`, `BusyCount`, `RunsOnOwnQueue`, `ImplementsExecutor`, `EveryJobRuns`, `DestroyReturns` | the pool of `main.cpp` (two workers), event loop and timer thread as callers, four jobs and `destroy` in every order |
| `TimerScheduler` | `TypeOK`, `NoOversleep`, `TimerInOnePlace`, `OnePassAfterStop`, `HandedInOrder`, `EveryTimerFires`, `DestroyReturns` | two callers, two timers, four points in time |
| `Coroutines` | `TypeOK`, `OneResumer`, `SyncWaitSound`, `EveryCallEnds`, `SyncWaitReturns` | one call through each root, one worker |
| `Orchestrator` | `TypeOK`, `NoLostWakeup`, `HandleConserved`, `ExitDrained`, `EveryHandleEnds`, `StopReturns` | both loops, a coroutine queued twice, stop from everywhere |
| `AsyncTasks` | `TypeOK`, `OneHome`, `Reclaimed`, `RunDrains`, `EveryTaskEnds`, `RunSyncReturns` | two workers or `run()`, awaiting, stealing, sleeping, cleanup and address reuse |
| `TcpServer_delivery` | `NoConnectForgotten`, `NoDataForgotten`, `ImplementsPubSub` | a publisher that comes and goes, two subscribers that stay, a topic with a consumer and one without, requests that fit one `recv` |
| `TcpServer_tables` | `TypeOK`, `TablesAgree`, `EventsAreGood` | everybody may leave, too few descriptors, requests of two fragments |
| `TcpServer_live` | `EveryConnectAccepted`, `EveryRequestRead` | one publisher, one subscriber, fair event loop |
| `TcpServer_wrong_client` | `OnlySubscribersServed` | violated, see below |
| `TcpServer_reset` | `BrokerSurvives` | violated, see below |
| `TcpServer_end_unseen` | `DisconnectNoticed` | violated, see below |
| `TcpServer_handled` | `HandledNotPushed` | violated, see below |

**Bounds.** Two workers are the least for which one notification can reach a worker it is not
meant for while the other still sleeps, and they are the pool of `main.cpp`; four jobs exceed
them. Stealing needs a deque of four jobs, which two workers served round-robin reach only
with more jobs than this instance has: that no job is ever stolen is shown for every instance
by the theorem `OwnQueueCorrect`, and all safety properties of the pool are proved for every
number of workers. Two timers and four points in time allow a timer to be added before, at and
after the deadline of a sleep. One worker is the hardest pool for the coroutines, since a
sleeping call that held it would block the rest; one sleep and one inner Task give every order
of suspension, inner return and exception. Three clients and two or three descriptors allow a
descriptor to pass from a subscriber to a publisher; three requests allow a publication before
and after a subscription. In `TcpServer_delivery` two subscribers, two topics and two payloads
make order, topic and receiver of a publication observable, and two requests of a client may
be taken by one `recv`. Requests that arrive in halves are in `TcpServer_tables` only (`Parts
= 2`). Every bound is a CONSTANT (`MaxTime`, `MaxSleeps`, `MaxAwaits`, `MaxSends`, `MaxFd`,
`SendCap`, `RecvCap`, `EventCap`, `Doubles`, `MaxYields`, `MaxFrames`). Two loops are all the
orchestrator has; one handle queued twice and one queued once let both loops meet the same
coroutine and let one sleep while the other requeues. Two addresses and three coroutines give
every way in which a parent, its child and a third coroutine at the address of the child can
meet, with one suspension among them; a chain of three awaiting coroutines needs a third
address, and the safety properties were also checked with three addresses and four coroutines
(5.4 million states, not part of the runs). Deadlock checking is off where the instance has a
natural end: jobs, timers and requests are finite, and an idle broker waits in `epoll_wait`.

**Fairness.** Threads are scheduled by the operating system and `m_lock` is held only for the
length of an action, so workers, callers inside `queue_job`, the timer thread, the event loop
and `destroy` are weakly fair; a job is a function that returns. Time passes. Nobody is
obliged to call anything, no client is obliged to do anything. The loops of the orchestrator
and the workers of `async.hpp` are threads too; a coroutine that runs suspends or returns
(bodies are finite, their suspensions bounded). In `Coroutines` a job of the pool is strongly
fair: another job may be started each time the worker is free, but `EveryJobRuns` says that
each job is started at some time. The set of jobs is finite, so the starvation of an old job
by an endless stream of new ones (the deques are used as stacks, `thread_pool.cpp:69,109`) is
out of view.

**Disagreements with the code's own statements.**

- `TcpServer_wrong_client`.  `main.cpp:36` stores in each connection a handler that owns
  the connection, so no `weak_ptr` of the broker expires and the "remove disconnected" of
  `message_broker.cpp:56` is never reached.  The descriptor number of a subscriber
  that left is given to a new client, which then receives the publications.
- `TcpServer_reset`.  `tcp_server.cpp:152` keeps the result of `recv` in a `size_t`; -1
  passes the test `> 0`, and `std::string(buffer, SIZE_MAX)` throws out of `main`.  One
  client that leaves with something unread, be it an error reply or a delivery, resets its
  connection and ends the broker.
- `TcpServer_end_unseen`.  One `recv` per edge: when data and the end of the stream
  both arrive before `epoll_wait` returns the event (`publish.py`: `sendall`, `close`), the end
  is not read, `tcp_server.cpp:171` ("client disconnected") is never reached, and descriptor
  and map entry stay.
- `TcpServer_handled`.  The comment on `message_broker.cpp:11` says "if there is no handler,
  push to the subscribers"; `publish` does both, always.  `publish.py` and `subscribe.py` use a
  topic that has a consumer and rely on it, so `PubSub` promises what the code does, and
  `TcpServer_delivery` checks that with a topic of each kind.

Seen while modelling, without a run of their own: a request longer than the buffer of one `recv`
is answered with a parse error and its rest stays unread until the next edge, which
is why `NoDataForgotten` and `EveryRequestRead` are checked with requests that fit;
deliveries carry no delimiter, so two that arrive in one `recv` of `subscribe.py` end its
loop (lines 25-31); an exception that leaves `on_call` (`std::stoi` in `math.cpp:29`) ends
the process through `AsyncTask` (`coroutine.hpp:351`) and never reaches the `catch` of
`thread_pool.cpp:139`; `sleepCoro` asserts a name that does not exist and compiles only
with `NDEBUG`.

In the orchestrator: `stop` called from a coroutine on `runner_` makes `join` throw
`std::system_error`, and `runner_` stays joinable, so that the process terminates at exit;
`stopped_` is never reset, so a loop started after a stop leaves when the queue is empty;
a handle queued twice may be resumed by both loops at once (`HandleConserved` says that
nothing else leads there); a coroutine that suspended for an event outside, such as a
timer, is queued again at once and resumed before the event, by the loop and by the timer.

In `async.hpp`: `run_sync` before any `start` or `run` divides by zero (line 299); `run`
after `start` with several threads drops all queues but the first, and `run_sync` then
waits for ever if its own coroutine was there; `co_await` hands the child to the cleanup
twice (lines 556 and 821), and if its address is used again in between, the new coroutine
is never destroyed or is destroyed below its final awaiter (`Reclaimed` says that nothing
else leads there); an async object that was never started leaks its frame; a second
`co_await` on one object by another coroutine overwrites the continuation of the first;
`then` on a completed `async<T>` locks a mutex its thread holds; a yield goes to the front
of a queue, so that coroutines which yield for ever starve the others; the closure of
`spawn_task` is destroyed before the coroutine that uses it starts.  `OneHome` shows what
is sound in it: with one awaiter per object no handle is ever refused at line 304, lost
between the queues or stolen twice.

## Proofs

The theorems about `ThreadPool` hold for every number of workers, every set of callers
and every finite set of jobs (`NAssumption`, `CallersAssumption`, `JobsAssumption`);
those about `TimerScheduler` for any jobs and callers and every bound on the clock
(`MaxTimeAssumption`, `NoJobAssumption`); those about `Orchestrator` for any coroutines, any
finite set of threads outside the loops and any bound on suspensions
(`OrchestratorAssumption`); those about `Coroutines` for any calls, each through one root, and
any bounds on sleeps and awaits (`CoroutinesAssumption`); those about `AsyncTasks` for any
finite set of addresses, any number of workers and any bounds on coroutines and sleeps
(`SchedulerAssumption`, `TasksAssumption`); those about `TcpServer` for any
connections, topics and payloads and any positive sizes of the descriptor table, of the
event array and of the buffer of `recv` (`SocketsAssumption`, `ServerAssumption`).  Three of
the latter have a hypothesis of their own, explained below.

| theorem | module | states |
|---|---|---|
| `TypeCorrect` | `ThreadPoolProofs` | `Spec => []TypeOK` |
| `WakeupCorrect` | `ThreadPoolProofs` | `Spec => []NoLostWakeup` |
| `OwnQueueCorrect` | `ThreadPoolProofs` | `Spec => RunsOnOwnQueue` |
| `OnceCorrect` | `ThreadPoolOnceProofs` | `Spec => []JobInOnePlace` |
| `BusyCorrect` | `ThreadPoolExecutorProofs` | `Spec => []BusyCount` |
| `Refinement` | `ThreadPoolExecutorProofs` | `Spec => ImplementsExecutor` |
| `TypeCorrect` | `TimerSchedulerProofs` | `Spec => []TypeOK` |
| `OversleepCorrect` | `TimerSchedulerProofs` | `Spec => []NoOversleep` |
| `OrderCorrect` | `TimerSchedulerProofs` | `Spec => HandedInOrder` |
| `OnePassCorrect` | `TimerSchedulerProofs` | `Spec => []OnePassAfterStop` |
| `InOnePlaceCorrect` | `TimerSchedulerProofs` | `Spec => []TimerInOnePlace` |
| `TypeCorrect` | `OrchestratorProofs` | `Spec => []TypeOK` |
| `WakeupCorrect` | `OrchestratorProofs` | `Spec => []NoLostWakeup` |
| `DrainCorrect` | `OrchestratorProofs` | `Spec => []ExitDrained` |
| `ConserveCorrect` | `OrchestratorProofs` | `Spec => []HandleConserved` |
| `TypeCorrect` | `CoroutinesProofs` | `Spec => []TypeOK` |
| `OneHandle` | `CoroutinesProofs` | `Spec => []OneResumer` |
| `SyncWaitCorrect` | `CoroutinesProofs` | `Spec => []SyncWaitSound` |
| `TypeCorrect` | `AsyncTasksProofs` | `Spec => []TypeOK` |
| `OneHomeCorrect` | `AsyncTasksProofs` | `Spec => []OneHome` |
| `ReclaimedCorrect` | `AsyncTasksProofs` | `Spec => []Reclaimed` |
| `DrainsCorrect` | `AsyncTasksProofs` | `Spec => RunDrains` |
| `TypesCorrect` | `TcpServerProofs` | `Spec => []TypeOK` |
| `TablesCorrect` | `TcpServerProofs` | `Spec => []TablesAgree` |
| `EventsCorrect` | `TcpServerProofs` | `Spec => []EventsAreGood` |
| `NoConnectCorrect` | `TcpServerProofs` | with a descriptor per connection, `Spec => []NoConnectForgotten` |
| `NoDataCorrect` | `TcpServerProofs` | `Spec /\ []Fits => []NoDataForgotten` |
| `BrokerImplements` | `TcpServerProofs` | with one fragment per request, if no subscriber leaves, `Spec /\ []Roomy => ImplementsPubSub` |

*Types.*  `TypeOK` is not inductive: a push keeps the deques over `Jobs` only if the caller
carries a job where it pushes, which the inductive form `TypeInv` adds.  *Wake-ups.*
`NoLostWakeup` is inductive together
with the types: a deque grows only in `Push`, which leaves its caller at `"pushed"`, and
the caller leaves that place only by notifying everybody, which empties the set of
sleepers.  With `notify_one` that last step fails.  *Own deque.*  A step that takes a job
has passed the predicate of the wait and the test of `m_accept_jobs`; together they say
the own deque is not empty, so the steal branch is dead for every N.  *Once.*
`OnceInv` adds `HandsFull` (who carries a job, and who does not, by program counter) to
types and `JobInOnePlace`; each action moves one job between two of the five places.
*Busy.*  The counter equals the cardinality of the set of running workers, changed by
one element per step.  *Refinement.*  Every action maps to one action of `JobExecutor` or
to a stutter; `Start` needs that at most N jobs run (each in the hands of a different
worker) and `Discard` that no worker holds a job when all have exited (`StoppedByDestroy`).

*Timers.*  `TypeInv` adds to the types that a queued job has a time and that exactly the
callers at `"timed"` and the loop at `"handoff"` carry a job; with it `NoOversleep` and
`TimerInOnePlace` are inductive.  An earlier job enters the queue only in `Push`, which
leaves its caller at `"pushed"`, and it leaves that place only by waking the loop.  For
`OnePassAfterStop` the inductive form `LateInv` says that no late pass has been counted
while the scheduler runs, nor while the loop is between lines 88 and 90.
`NoOversleep` speaks of the time of a timer in the timed wait and of the first job and the stop
in the wait for a job; the timed wait does sleep through a stop (`DestroyReturns` says that
`destory` comes back all the same).

`HandedInOrder` is about the order in which jobs reach the pool. Its first half needs that
what the loop carries is due (`TakenIsDue`: the clock never goes back after the test of line
101). For its second half take a job k that is queued and due before a job j. `StaysAhead` is
invariant from there on: either that still holds, or the loop carries k and not j, or k has
reached the pool. The loop carries one job at a time and hands it over before it pops again,
so j cannot pass k while the lock is given away.

*Orchestrator.*  `NoLostWakeup` bounds the length of the queue by the number of loops awake
and of agents that have pushed and not yet notified.  `Push` adds one to both sides, `Notify`
moves one from the agents to the loops, `Take` removes at most one from each; a loop goes
to sleep only on an empty queue.  The inductive form `WakeInv` adds where a loop may be
inside `enqueue` (`CallSites`: a loop that queues a coroutine again owes no notification)
and that `stop` has set its flag wherever it is (`StopSites`).

`ExitDrained` needs to know who may still leave something behind.  `DrainInv` adds that
a coroutine enqueued before the stop is in the queue, in the hand of a loop or on its way
back until it is done (`EarlyInside`: what other threads push later cannot stand in for
it), and that a loop has left only with the flag set (`ExitSites`); it leaves on an empty
queue.  A loop that leaves while the other runs a coroutine is no exception: the
other queues it again itself and comes back to find it.  `HandleConserved` counts: `Entries` is
the number of places that hold a handle, each `Enqueue` adds one to it and to `given`,
and every step of a loop moves one entry from the queue to the hand, to the argument of
`enqueue` and back.

*Coroutines.*  Types, frames and `OneResumer` are one invariant, `ResumeInv`: that a `Task`
which returns has an outer frame to return to depends on nobody having resumed the
coroutine a second time.  `Begun` keeps the coroutine of a `sync_wait` from starting before
the call, `Apart` a discarded job from being run.  `SyncWaitInv` states the handshake: who holds
the mutex at which point, that the flag is set after the result is stored, and that the
caller is past its wait only when the coroutine has unlocked.

*Async scheduler.*  A suspended coroutine can wait in five ways: in a queue, in the hand of
a worker, among what a worker took out of `delayed_tasks`, in `delayed_tasks`, as the
continuation of another one.  `Single` says that it waits in one of them and there once.
That alone is not inductive: that `co_await` queues a coroutine which waits nowhere depends
on who may know it.  Hence `HomeInv`:

- `Frames` ties the state of a frame to the place of its handle.  What waits is
  suspended, what runs is on a worker, and a coroutine that is in `handle_refs`, or that
  another one awaits, does wait somewhere, unless the resize of `run()` dropped it.
- `Objects`: a coroutine that was made and not awaited is known to its maker alone, so it is
  not in `handle_refs`, and line 304 refuses nothing; a continuation is the one coroutine
  that holds the object.
- `Named` carries `Reclaimed`: a coroutine made at an address nobody named then is in
  `handle_refs` and not in the cleanup until its end.  It fails for the addresses in `stale`,
  and so does `Reclaimed`.

There is one lemma per step for where handles wait (`...Moves`) and one for the rest
(`...Keeps`). `RunDrains` needs one thing more. When `run()` leaves its loop nothing is
queued, in a hand or asleep, so a coroutine left over could only await another one, which
would be left over too. The statement is about frames: when `run()` returns, `handle_refs` is
empty and each frame is destroyed, except a coroutine that nobody ever scheduled, and one at
an address in `stale`, which an old cleanup entry takes out of `handle_refs` so that its frame
is never destroyed. TLC finds behaviours that need each of the two exceptions. `Ranked`
excludes that such a chain goes round: a coroutine that begins to be awaited has not run yet
and awaits nobody, so it can be given a rank below all others, and the one of lowest rank
among those that await has nobody to await.

*TCP server.*  `TablesInv` adds to `TablesAgree` that who waits in the backlog has no
descriptor and waits once; every action keeps it, because `accept` takes the lowest free
descriptor and enters it in all three tables, and `close_connection` removes it from all
three.  `EventsInv` says of each event still in the batch that its descriptor is open and
readable (`BatchGood`).  A handler closes the descriptor of its own event only, and the
batch holds each once, so none of the later events is stale.  With the two, an edge that
was reported is consumed only by reading or accepting.

- *No connect forgotten*: `handle_accept` loops until `accept` fails, and with a descriptor
  for every connection it fails only on an empty backlog.  With fewer the theorem is false:
  `accept` fails at `tcp_server.cpp:110`, the rest of the backlog stays, and the edge is gone.
- *No data forgotten*: `handle_read` calls `recv` once, so the theorem needs that what
  waits fits into its buffer (`Fits`).  `NoDataOfFew` derives `Fits` where the buffer takes
  everything the clients send, the case of `TcpServer_delivery`.  Without `Fits` it is false.
- *Refinement*: `ServedInv` says that `send` fails only towards clients that left, that only
  subscribers are listed, and that an accepted client that did not leave still has its
  descriptor.  `Delivery` concludes that a publication goes to exactly the clients on the
  list of its topic, once per subscription, through the right descriptors.  `PubSub` keeps per
  client what it asked and is not yet served; the mapping takes it from the stream.  A request
  sent is `Ask`; a chunk read by `ReadData` is `Subscribe`, `Publish` or `Reject` of the requests
  in it, which leave the stream in order (`BrokerTakes`); `close` is `Leave` and everything else
  a stutter.  `Reject` may take several requests at once only because `recv` may return
  several, which parse as none.  With `Parts = 1` a stream is a sequence of requests; half
  requests have no counterpart in `PubSub`.  The other hypotheses
  are those under which the code keeps the promise: a subscriber that left is served at the
  descriptor of somebody else (`TcpServer_wrong_client`), and a full buffer makes `send` fail
  with the message lost (`Roomy`).  Both hold in every behaviour of `TcpServer_delivery`, so
  that run checks the conclusion where the theorem proves it.

Model-checked only: liveness (`EveryJobRuns`, `EveryTimerFires`, `EveryCallEnds`,
`EveryHandleEnds`, `EveryTaskEnds`, the returns of `destroy`, `stop`, `sync_wait` and
`run_sync`, `EveryConnectAccepted`, `EveryRequestRead`), which the prover does not handle
under fairness.  Every safety property that a passing run checks is also proved.

## Not modelled

- The Windows loop (`tcp_server.cpp:215-253`): what `WSAPoll` reports for a closed socket,
  and what the loop reads in the `revents` of an element that `handle_accept` has just
  appended, is not determined by this repository.
- joaat: a pure function; the broker uses its value as a key only, and `MessageBroker`
  takes the set of topics that have a consumer as a constant.
- Logger and file manager: I/O.  Build files and common headers have no behaviour.
- The registration of consumers: before `main`, one thread, never changed afterwards.
- In `async.hpp`: `then` on a completed object, one object awaited by two coroutines,
  `start` or `run` while other threads schedule (a data race on the vectors of queues),
  and `AsyncTask`, which nothing uses there.  In the orchestrator: frames that destroy
  themselves at their end.  The model takes a `Task`, whose frame stays.
- A partial `send` and interrupted system calls; the contents of messages beyond type,
  topic and payload; memory and start-up failures (the constructors exit).
  `register_topic_handler` and `task_check` are never called.

## Plan

1. *(done)* `JobExecutor`, `ThreadPool`, `TimerScheduler` and their proofs; `PubSub`,
   `Sockets`, `MessageBroker`, `TcpServer`; `Coroutines`.
2. *(done)* `Orchestrator`.
3. *(done)* `AsyncScheduler` and `AsyncTasks`.
4. *(done)* Proofs of every safety property of the passing runs, in all modules.
5. Left: a specification of its own for what `Coroutines` takes from the timer scheduler
   (the set `timers`), implemented by `TimerScheduler`; what the coroutines of `AsyncTasks`
   look like to the code that uses them (made, started, ended, destroyed once), implemented
   by the scheduler with its queues; the operators of `MessageBroker` (what `Publish`
   leaves of a list of subscribers, what `Parsed` makes of fragments) as lemmas of their own.
