\* The pool of main.cpp:29: two workers, jobs from the epoll thread and from the timer
\* thread, more jobs than workers.  No symmetry: two properties are liveness properties.
CONSTANTS
  N = 2
  Jobs = {j1, j2, j3, j4}
  Callers = {main, timer}
  Main = main
  NoJob = NoJob
SPECIFICATION FairSpec
INVARIANTS TypeOK NoLostWakeup JobInOnePlace BusyCount
PROPERTIES RunsOnOwnQueue ImplementsExecutor EveryJobRuns DestroyReturns
CHECK_DEADLOCK FALSE
