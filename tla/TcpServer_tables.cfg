\* Everybody may leave and the process has fewer descriptors than there are clients, so
\* descriptors are used again and accept may fail; requests need two recvs.
CONSTANTS
  Conns = {p, q, s}
  Publishers = {p, q}
  Subscribers = {s}
  Leavers = {p, q, s}
  Topics = {t1}
  Payloads = {m1}
  Handled = {t1}
  Parts = 2
  MaxSends = 2
  MaxFd = 2
  SendCap = 1
  RecvCap = 1
  EventCap = 2
  NoConn = NoConn
SYMMETRY PublisherSymmetry
SPECIFICATION Spec
INVARIANTS TypeOK TablesAgree EventsAreGood
CHECK_DEADLOCK FALSE
