\* Two workers, or run(), and two addresses, one of which is used again for the third
\* coroutine.
CONSTANTS
  Addrs = {a1, a2}
  N = 2
  None = None
  MaxFrames = 3
  MaxSleeps = 1
SPECIFICATION FairSpec
CHECK_DEADLOCK FALSE
INVARIANTS TypeOK OneHome Reclaimed
PROPERTIES RunDrains EveryTaskEnds RunSyncReturns
