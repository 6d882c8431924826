---------------------------- MODULE MessageBroker ----------------------------
(***************************************************************************)
(* MessageBroker (message_broker.cpp), ProtocolHandler                     *)
(* (protocol_handler.cpp), TcpConnection (tcp_connection.cpp) and the      *)
(* lookup of a consumer (consumers.cpp, consumer.cpp).  All of it runs in  *)
(* the thread of the event loop, inside handle_read.                       *)
(*                                                                         *)
(* A TcpConnection object is named by its connection.  The handler that    *)
(* main.cpp:36 stores in the object holds a shared_ptr to the object, so   *)
(* no object is ever destroyed and every weak_ptr of the broker locks.     *)
(* The queue of a topic is empty between two calls: dispatch drains it.    *)
(***************************************************************************)
EXTENDS Sockets

CONSTANT Handled  \* the topics whose joaat hash is that of a registered consumer

VARIABLES
  subscribers,  \* per topic, the objects subscribed, oldest first
  sock_fd,      \* the descriptor each object was made for, 0 before it was made
  tasks         \* history: publications handed to consumer::call

brokerVars == <<subscribers, sock_fd, tasks>>

BrokerInit ==
  /\ subscribers = [t \in Topics |-> << >>]
  /\ sock_fd = [c \in Conns |-> 0]
  /\ tasks = << >>

\* weak_ptr::lock, message_broker.cpp:44.
Locks(c) == sock_fd[c] # 0
Live(objects) == Kept(objects, {i \in DOMAIN objects : Locks(objects[i])})

\* message_broker.cpp:46-50: TcpConnection::send to each object, on the descriptor it
\* was made for; tcp_connection.cpp:30 ignores the result.
Descriptors(objects) == [i \in DOMAIN objects |-> sock_fd[objects[i]]]

\* message_broker.cpp:9-17 and 30-60, for a message on a topic.
Publish(r) ==
  LET live == Live(subscribers[r.topic])
  IN  /\ tasks' = IF r.topic \in Handled THEN Append(tasks, r) ELSE tasks
      /\ subscribers' = [subscribers EXCEPT ![r.topic] = live]
      /\ Send(Descriptors(live), r)
      /\ UNCHANGED sock_fd

\* message_broker.cpp:19-23.
Subscribe(r, c) ==
  /\ subscribers' = [subscribers EXCEPT ![r.topic] = Append(@, c)]
  /\ UNCHANGED <<sock_fd, tasks, outbound, fault>>

\* protocol_handler.cpp:30-38: the error reply.
Reject(c) == Send(<<sock_fd[c]>>, [type |-> "error"]) /\ UNCHANGED brokerVars

BugParsed(chunk) == {r \in Requests : \E n \in 1 .. Len(chunk) : SubSeq(chunk, 1, n) = Fragments(r)}
\* json::parse of protocol_handler.cpp:17: the data is one request and nothing else.
Parsed(chunk) == {r \in Requests : chunk = Fragments(r)}

\* protocol_handler.cpp:13-39.
HandleMessage(c, chunk) ==
  \/ \E r \in Parsed(chunk) : r.type = "publish" /\ Publish(r)
  \/ \E r \in Parsed(chunk) : r.type = "subscribe" /\ Subscribe(r, c)
  \/ (\A r \in Parsed(chunk) : r.type = "unknown") /\ Reject(c)

\* The descriptors HandleMessage sends to; one of them may raise SIGPIPE.
Targets(c, chunk) ==
  IF \E r \in Parsed(chunk) : r.type = "publish"
  THEN LET r == CHOOSE r \in Parsed(chunk) : TRUE
       IN  Descriptors(Live(subscribers[r.topic]))
  ELSE IF \E r \in Parsed(chunk) : r.type = "subscribe" THEN << >> ELSE <<sock_fd[c]>>
=============================================================================
