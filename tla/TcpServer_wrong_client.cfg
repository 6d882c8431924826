\* A subscriber leaves, a publisher gets its descriptor.
CONSTANTS
  Conns = {p, q, s}
  Publishers = {p, q}
  Subscribers = {s}
  Leavers = {s}
  Topics = {t1}
  Payloads = {m1}
  Handled = {}
  Parts = 1
  MaxSends = 3
  MaxFd = 3
  SendCap = 5
  RecvCap = 4
  EventCap = 2
  NoConn = NoConn
SPECIFICATION Spec
INVARIANTS OnlySubscribersServed
CHECK_DEADLOCK FALSE
