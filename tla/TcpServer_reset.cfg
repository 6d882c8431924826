\* A client leaves without reading what the broker sent it, a delivery or an error reply;
\* the kernel answers with a RST.
CONSTANTS
  Conns = {p, q, s}
  Publishers = {p, q}
  Subscribers = {s}
  Leavers = {s}
  Topics = {t1}
  Payloads = {m1}
  Handled = {t1}
  Parts = 1
  MaxSends = 3
  MaxFd = 3
  SendCap = 5
  RecvCap = 4
  EventCap = 2
  NoConn = NoConn
SPECIFICATION Spec
INVARIANTS BrokerSurvives
CHECK_DEADLOCK FALSE
