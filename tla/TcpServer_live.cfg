\* One publisher that leaves and one subscriber; no symmetry.
CONSTANTS
  Conns = {p, s}
  Publishers = {p}
  Subscribers = {s}
  Leavers = {p}
  Topics = {t1}
  Payloads = {m1}
  Handled = {t1}
  Parts = 1
  MaxSends = 3
  MaxFd = 2
  SendCap = 5
  RecvCap = 4
  EventCap = 2
  NoConn = NoConn
SPECIFICATION FairSpec
PROPERTIES EveryConnectAccepted EveryRequestRead
CHECK_DEADLOCK FALSE
