\* One call of each kind and a pool of one worker; each may sleep once and await one
\* inner Task, before or after.
CONSTANTS
  Runs = {r}
  Waits = {w}
  Futures = {f}
  Limit = 1
  MaxSleeps = 1
  MaxAwaits = 1
SPECIFICATION FairSpec
INVARIANTS TypeOK OneResumer SyncWaitSound
PROPERTIES EveryCallEnds SyncWaitReturns
CHECK_DEADLOCK FALSE
