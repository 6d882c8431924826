\* Two threads that add timers and two timers; four points in time, so that a timer may be
\* added before, at or after the deadline of a sleep, or be due at once.
CONSTANTS
  Jobs = {j1, j2}
  Callers = {t1, t2}
  MaxTime = 3
  NoJob = NoJob
SPECIFICATION FairSpec
INVARIANTS TypeOK NoOversleep TimerInOnePlace OnePassAfterStop
PROPERTIES HandedInOrder EveryTimerFires DestroyReturns
CHECK_DEADLOCK FALSE
