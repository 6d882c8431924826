\* A publication on a topic that has a consumer, and a subscriber of that topic.
CONSTANTS
  Conns = {p, s}
  Publishers = {p}
  Subscribers = {s}
  Leavers = {p}
  Topics = {t1}
  Payloads = {m1}
  Handled = {t1}
  Parts = 1
  MaxSends = 2
  MaxFd = 2
  SendCap = 5
  RecvCap = 4
  EventCap = 2
  NoConn = NoConn
SPECIFICATION Spec
INVARIANTS HandledNotPushed
CHECK_DEADLOCK FALSE
