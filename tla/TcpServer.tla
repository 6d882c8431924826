----------------------------- MODULE TcpServer -----------------------------
(***************************************************************************)
(* TcpServer on Linux (tcp_server.cpp), composed with the broker and the   *)
(* clients: one thread, an edge-triggered epoll set, one recv per event.   *)
(* The connection handler is the one of main.cpp:35-47.                    *)
(***************************************************************************)
EXTENDS MessageBroker

CONSTANTS RecvCap,   \* fragments one recv returns (the buffer of 1024 bytes)
          EventCap   \* events one epoll_wait returns (events.resize(10))

ASSUME ServerAssumption == RecvCap \in Nat \ {0} /\ EventCap \in Nat \ {0}

VARIABLES
  connections,  \* descriptor -> object, NoConn where the map has no entry
  pc,           \* "wait" (epoll_wait), "events", "accepting" or "dead"
  batch         \* the events not yet handled

serverVars == <<connections, pc, batch>>
vars == <<netVars, brokerVars, serverVars>>

Init == /\ NetInit /\ BrokerInit
        /\ connections = [fd \in Fds |-> NoConn]
        /\ pc = "wait"
        /\ batch = << >>

-----------------------------------------------------------------------------
(* start(), lines 193-214. *)

BugNextEvent == batch' = batch
\* Line 201: on to the next event.
NextEvent == batch' = Tail(batch)

\* Line 195: epoll asks every descriptor of its ready list again, and returns those
\* that still have something; edges it reports are gone.
EpollWait ==
  /\ pc = "wait"
  /\ LET readable == Kept(ready, {i \in DOMAIN ready : Readable(ready[i])})
         n == Least(Len(readable), EventCap)
     IN  /\ n > 0
         /\ batch' = SubSeq(readable, 1, n)
         /\ ready' = SubSeq(readable, n + 1, Len(readable))
  /\ pc' = "events"
  /\ UNCHANGED <<clientVars, streamVars, backlog, fdTable, interest, brokerVars, connections>>

\* Lines 201 and 213: all events are handled.
BatchDone ==
  /\ pc = "events" /\ batch = << >>
  /\ pc' = "wait"
  /\ UNCHANGED <<netVars, brokerVars, connections, batch>>

-----------------------------------------------------------------------------
(* handle_accept(), lines 91-138. *)

BeginAccept ==
  /\ pc = "events" /\ batch # << >> /\ Head(batch) = Listener
  /\ pc' = "accepting"
  /\ UNCHANGED <<netVars, brokerVars, connections, batch>>

BugAcceptOne ==
  /\ pc = "accepting" /\ backlog # << >>
  /\ LET c  == Head(backlog)
         fd == IF FreeFds # {} THEN LowestFd ELSE -1
     IN  /\ backlog' = IF fd = -1 THEN backlog ELSE Tail(backlog)
         /\ fdTable' = [k \in Fds |-> IF k = fd THEN c ELSE fdTable[k]]
         /\ connections' = [k \in Fds \cup {fd} |-> IF k = fd THEN c ELSE connections[k]]
         /\ sock_fd' = [sock_fd EXCEPT ![c] = fd]
         /\ interest' = interest \cup {fd}
         /\ ready' = ready
  /\ UNCHANGED <<clientVars, streamVars, subscribers, tasks, pc, batch>>
\* Lines 97 and 114-130.  A descriptor that is readable when it is added is an edge.
AcceptOne ==
  /\ pc = "accepting" /\ backlog # << >> /\ FreeFds # {}
  /\ LET c  == Head(backlog)
         fd == LowestFd
     IN  /\ backlog' = Tail(backlog)
         /\ fdTable' = [fdTable EXCEPT ![fd] = c]
         /\ connections' = [connections EXCEPT ![fd] = c]
         /\ sock_fd' = [sock_fd EXCEPT ![c] = fd]
         /\ interest' = interest \cup {fd}
         /\ ready' = IF inbound[c] # << >> \/ peer[c] = "closed" THEN WithEdge(ready, {fd}) ELSE ready
  /\ UNCHANGED <<clientVars, streamVars, subscribers, tasks, pc, batch>>

BugAcceptDone ==
  /\ pc = "accepting"
  /\ pc' = "events"
  /\ NextEvent
  /\ UNCHANGED <<netVars, brokerVars, connections>>
\* Lines 99-112: nobody waits, or accept fails because the process has no descriptor
\* left; either way the loop ends.
AcceptDone ==
  /\ pc = "accepting" /\ (backlog = << >> \/ FreeFds = {})
  /\ pc' = "events"
  /\ NextEvent
  /\ UNCHANGED <<netVars, brokerVars, connections>>

-----------------------------------------------------------------------------
(* handle_read(), lines 140-187. *)

Reading(fd) == pc = "events" /\ batch # << >> /\ Head(batch) = fd

\* Lines 180-187.
BugCloseConnection(fd) ==
  /\ interest' = interest \ {fd}
  /\ ready' = Without(ready, fd)
  /\ fdTable' = [fdTable EXCEPT ![fd] = NoConn]
  /\ UNCHANGED connections
CloseConnection(fd) ==
  /\ interest' = interest \ {fd}
  /\ ready' = Without(ready, fd)
  /\ fdTable' = [fdTable EXCEPT ![fd] = NoConn]
  /\ connections' = [connections EXCEPT ![fd] = NoConn]

BugReceived(k) == SubSeq(inbound[k], 1, Least(Len(inbound[k]), 1))
\* Line 152: what recv returns from the stream of connection k.
Received(k) == SubSeq(inbound[k], 1, Least(Len(inbound[k]), RecvCap))

\* Lines 154-161: the handler gets it.  A send of the handler to a client that is
\* gone may kill the process (nothing ignores SIGPIPE).
ReadData(fd) ==
  LET k     == fdTable[fd]
      c     == connections[fd]
      chunk == Received(k)
  IN  /\ Reading(fd) /\ c # NoConn
      /\ chunk # << >>
      /\ inbound' = [inbound EXCEPT ![k] = SubSeq(@, Len(chunk) + 1, Len(@))]
      /\ HandleMessage(c, chunk)
      /\ pc' = IF SigPipe(Targets(c, chunk)) THEN "dead" ELSE pc
      /\ NextEvent
      /\ UNCHANGED <<clientVars, kernelVars, connections>>

\* Lines 162-176 after recv returned 0; lines 143-148 when the map has no entry.
ReadEnd(fd) ==
  /\ Reading(fd)
  /\ connections[fd] # NoConn =>
       LET k == fdTable[fd]
       IN  inbound[k] = << >> /\ peer[k] = "closed" /\ fault[k] # "reset"
  /\ CloseConnection(fd)
  /\ NextEvent
  /\ UNCHANGED <<clientVars, streamVars, backlog, brokerVars, pc>>

\* recv returned -1, with ECONNRESET or with EAGAIN.  bytes_read is a size_t, so line
\* 154 takes it for data and line 159 throws std::length_error, which nobody catches.
ReadError(fd) ==
  LET k == fdTable[fd]
  IN  /\ Reading(fd) /\ connections[fd] # NoConn
      /\ inbound[k] = << >>
      /\ peer[k] # "closed" \/ fault[k] = "reset"
      /\ pc' = "dead"
      /\ UNCHANGED <<netVars, brokerVars, connections, batch>>

-----------------------------------------------------------------------------
ServerNext == \/ EpollWait \/ BatchDone \/ BeginAccept \/ AcceptOne \/ AcceptDone
              \/ \E fd \in Fds : ReadData(fd) \/ ReadEnd(fd) \/ ReadError(fd)

Next == \/ ServerNext
        \/ ClientNext /\ UNCHANGED <<brokerVars, serverVars>>

Spec == Init /\ [][Next]_vars

\* The event loop runs, and a RST on its way arrives.  Clients do as they like.
Fairness == /\ WF_vars(ServerNext)
            /\ \A c \in Conns : WF_vars(RstArrives(c) /\ UNCHANGED <<brokerVars, serverVars>>)

FairSpec == Spec /\ Fairness

-----------------------------------------------------------------------------
(* Properties. *)

\* Types of the members of TcpServer and MessageBroker.
TypeOK ==
  /\ NetTypeOK
  /\ subscribers \in [Topics -> Seq(Conns)]
  /\ sock_fd \in [Conns -> Fds \cup {0}]
  /\ tasks \in Seq(Publications)
  /\ connections \in [Fds -> Conns \cup {NoConn}]
  /\ pc \in {"wait", "events", "accepting", "dead"}
  /\ batch \in Seq(Fds \cup {Listener})

\* Three tables say the same: the map connections, the descriptors of the process and
\* the epoll set; and an object in the map holds the descriptor it is filed under.  The
\* accept loop and handle_read keep it so although descriptors are used again.
TablesAgree ==
  /\ connections = fdTable
  /\ interest = {fd \in Fds : connections[fd] # NoConn}
  /\ \A fd \in interest : sock_fd[connections[fd]] = fd

\* An event that waits in the batch still has its descriptor, and something to read, no
\* matter what the events before it closed and accepted: handle_read finds its entry in
\* the map (lines 142-148 are never needed) and recv never answers EAGAIN.
EventsAreGood ==
  /\ IsInjective(batch)
  /\ pc = "events" => \A i \in DOMAIN batch : batch[i] # Listener => batch[i] \in interest
  /\ pc = "events" => \A i \in DOMAIN batch : Readable(batch[i])

\* No client is left behind in the backlog: whoever waits there is announced by an edge
\* not yet handled, because the accept loop runs until accept has nothing (lines 93-112).
\* It holds only with a descriptor for every connection: when accept fails for want of
\* one (line 110), the clients behind stay and the edge is gone.
NoConnectForgotten ==
  backlog # << >> => \/ Listener \in Range(ready) \cup Range(batch)
                     \/ pc \in {"accepting", "dead"}

\* No request is left unread: an edge-triggered descriptor that has data is announced by
\* an edge not yet handled, although handle_read calls recv only once (line 152).  It
\* holds as long as what waits in the socket fits into the buffer of that recv (RecvCap).
NoDataForgotten ==
  \A fd \in interest : inbound[fdTable[fd]] # << >> => fd \in Range(ready) \cup Range(batch)

\* A client that connects is accepted, unless the broker died (lines 91-138), although
\* connects that come close together share one edge.  It holds only with a descriptor for
\* every connection, as NoConnectForgotten.
EveryConnectAccepted ==
  \A c \in Conns : peer[c] # "none" ~> (sock_fd[c] # 0 \/ pc = "dead")

\* A request that reached the broker's socket is read, unless the broker died, as long as
\* what waits there fits into one recv.
EveryRequestRead ==
  \A c \in Conns : inbound[c] # << >> ~> (inbound[c] = << >> \/ pc = "dead")

\* The requests in a stream of requests of one fragment each.
Requested(stream) == [i \in DOMAIN stream |-> stream[i].of]

\* The broker as the clients see it.
Broker == INSTANCE PubSub WITH
  Clients <- Conns,
  subs <- subscribers,
  asked <- [c \in Conns |-> Requested(inbound[c])],
  inbox <- outbound,
  gone <- {c \in Conns : peer[c] = "closed"}

\* Publications reach the subscribers of their topic, all of them, in order, and nobody
\* else, whether or not a consumer gets them too; every request a client made is served in
\* its order, unless one recv took it together with others (message_broker.cpp:9-60,
\* protocol_handler.cpp:13-39, through the streams and the descriptors).
ImplementsPubSub == Broker!Spec

\* What the code or its comments say and the code does not do.

\* subscribe.py:38, "subscribe to the topic 'task.hello'": a client gets the publications of topics it
\* subscribed to.
OnlySubscribersServed ==
  \A c \in Conns, t \in Topics :
    (\E i \in DOMAIN outbound[c] : outbound[c][i].type = "publish" /\ outbound[c][i].topic = t)
      => c \in Range(subscribers[t])

\* tcp_server.cpp:162-176, "client disconnected": a failed recv ends one connection, not
\* the broker.
BrokerSurvives == pc # "dead"

\* message_broker.cpp:11, "if there is no handler, push to the subscribers": what a consumer
\* handles is not pushed.
HandledNotPushed ==
  \A c \in Conns : \A i \in DOMAIN outbound[c] :
    outbound[c][i].type = "publish" => outbound[c][i].topic \notin Handled

\* tcp_server.cpp:171, "client disconnected", before the entry is closed and removed: the
\* broker notices that a client it accepted is gone.
DisconnectNoticed ==
  \A c \in Conns : (peer[c] = "closed" /\ sock_fd[c] # 0)
                     ~> (c \notin Range(connections) \/ pc = "dead")
=============================================================================
