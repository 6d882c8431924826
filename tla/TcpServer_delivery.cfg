\* A publisher that comes and goes like publish.py and two subscribers that stay like
\* subscribe.py, a topic with a consumer and one without; a recv takes all that three
\* requests can leave in a stream.
CONSTANTS
  Conns = {p, s, u}
  Publishers = {p}
  Subscribers = {s, u}
  Leavers = {p}
  Topics = {t1, t2}
  Payloads = {m1, m2}
  Handled = {t1}
  Parts = 1
  MaxSends = 3
  MaxFd = 3
  SendCap = 5
  RecvCap = 4
  EventCap = 2
  NoConn = NoConn
SYMMETRY SubscriberSymmetry
SPECIFICATION Spec
INVARIANTS NoConnectForgotten NoDataForgotten
PROPERTIES ImplementsPubSub
CHECK_DEADLOCK FALSE
