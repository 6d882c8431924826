\* publish.py: one request, then close.
CONSTANTS
  Conns = {p}
  Publishers = {p}
  Subscribers = {}
  Leavers = {p}
  Topics = {t1}
  Payloads = {m1}
  Handled = {t1}
  Parts = 1
  MaxSends = 1
  MaxFd = 1
  SendCap = 5
  RecvCap = 4
  EventCap = 2
  NoConn = NoConn
SPECIFICATION FairSpec
PROPERTIES DisconnectNoticed
CHECK_DEADLOCK FALSE
