\* Two coroutines, one of which may be enqueued twice, one thread outside and both
\* loops.
CONSTANTS
  Handles = {h1, h2}
  Callers = {c}
  NoHandle = NoHandle
  Doubles = {h1}
  MaxYields = 2
SPECIFICATION FairSpec
INVARIANTS TypeOK NoLostWakeup HandleConserved ExitDrained
PROPERTIES EveryHandleEnds StopReturns
CHECK_DEADLOCK FALSE
