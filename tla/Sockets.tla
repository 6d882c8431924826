------------------------------ MODULE Sockets ------------------------------
(***************************************************************************)
(* The clients of the broker and the kernel between them and the broker:   *)
(* what tcp_server.cpp and tcp_connection.cpp see through accept, recv,    *)
(* send, close, epoll_ctl and epoll_wait.  External: nothing here is code  *)
(* of the broker; publish.py and subscribe.py are clients of this kind.    *)
(*                                                                         *)
(* One model value of Conns is one connection, from connect to the end.    *)
(* A byte stream is a sequence of fragments: a request is Parts fragments  *)
(* (one per recv buffer it would fill), a reply or delivery is one packet. *)
(***************************************************************************)
EXTENDS Integers, Sequences, FiniteSets, SequencesExt

CONSTANTS Conns,     \* connections
          Publishers,  \* those whose client sends publish requests (publish.py)
          Subscribers, \* those whose client sends subscribe requests (subscribe.py)
          Leavers,   \* the connections whose client may close them
          Topics,    \* topics of the requests
          Payloads,  \* payloads of the publish requests
          Parts,     \* fragments of a request
          MaxSends,  \* bound on the requests all clients send
          MaxFd,     \* descriptors the process can have for connections
          SendCap,   \* unread packets that fit into the buffers towards a client
          NoConn     \* a free descriptor

ASSUME SocketsAssumption ==
  /\ Leavers \cup Publishers \cup Subscribers \subseteq Conns /\ NoConn \notin Conns
  /\ Parts \in Nat \ {0} /\ MaxFd \in Nat \ {0} /\ SendCap \in Nat /\ MaxSends \in Nat

Fds == 1 .. MaxFd
Listener == 0                     \* server_fd

Publications == [type : {"publish"}, topic : Topics, payload : Payloads]
Subscriptions == [type : {"subscribe"}, topic : Topics]
Requests == Publications \cup Subscriptions \cup {[type |-> "unknown"]}
Fragments(r) == [i \in 1 .. Parts |-> [of |-> r, part |-> i]]
Errors == {[type |-> "error"]}

VARIABLES
  peer,      \* the client's end: "none", "open" or "closed"
  sends,     \* how many requests the clients have sent
  inbound,   \* fragments the broker has not read
  fault,     \* "none"; "poked": the broker sent to a closed client, a RST is on its
             \* way; "pipe": it arrived; "reset": the client left with a RST
  outbound,  \* packets the kernel took from the broker for the client
  taken,     \* how many of them the client has read
  backlog,   \* connections that wait for accept
  fdTable,   \* the connection behind each descriptor
  interest,  \* descriptors in the epoll set, all edge-triggered
  ready      \* the ready list of epoll, oldest edge first

clientVars == <<peer, sends, taken>>
streamVars == <<inbound, fault, outbound>>
kernelVars == <<backlog, fdTable, interest, ready>>
netVars == <<clientVars, streamVars, kernelVars>>

NetInit ==
  /\ peer = [c \in Conns |-> "none"]
  /\ sends = 0
  /\ inbound = [c \in Conns |-> << >>]
  /\ fault = [c \in Conns |-> "none"]
  /\ outbound = [c \in Conns |-> << >>]
  /\ taken = [c \in Conns |-> 0]
  /\ backlog = << >>
  /\ fdTable = [fd \in Fds |-> NoConn]
  /\ interest = {}
  /\ ready = << >>

Unread(c) == Len(outbound[c]) - taken[c]
FdsOf(c) == {fd \in interest : fdTable[fd] = c}

\* The elements of the sequence list at the indices in I, in their order.
Kept(list, I) == [n \in 1 .. Cardinality(I) |->
                    list[CHOOSE i \in I : Cardinality({j \in I : j <= i}) = n]]

\* epoll_ctl(DEL) takes the edges of a descriptor away.
Without(list, fd) == Kept(list, {i \in DOMAIN list : list[i] # fd})

\* An edge on some descriptors: they go to the end of the ready list, once each.
WithEdge(list, fds) == list \o SetToSeq(fds \ Range(list))

-----------------------------------------------------------------------------
(* Clients. *)

Connect(c) ==
  /\ peer[c] = "none"
  /\ peer' = [peer EXCEPT ![c] = "open"]
  /\ backlog' = Append(backlog, c)
  /\ ready' = WithEdge(ready, {Listener})
  /\ UNCHANGED <<sends, taken, streamVars, fdTable, interest>>

SendRequest(c, r) ==
  /\ peer[c] = "open"
  /\ sends < MaxSends
  /\ r.type = "publish" => c \in Publishers
  /\ r.type = "subscribe" => c \in Subscribers
  /\ sends' = sends + 1
  /\ inbound' = [inbound EXCEPT ![c] = @ \o Fragments(r)]
  /\ ready' = WithEdge(ready, FdsOf(c))
  /\ UNCHANGED <<peer, taken, fault, outbound, backlog, fdTable, interest>>

\* The client reads everything there is.  What subscribe.py does with it (lines 25-31) is
\* left out: two coalesced deliveries or an error reply end the script, an empty read makes
\* it spin; this client goes on reading.
ClientRecv(c) ==
  /\ peer[c] = "open" /\ Unread(c) > 0
  /\ taken' = [taken EXCEPT ![c] = Len(outbound[c])]
  /\ UNCHANGED <<peer, sends, streamVars, kernelVars>>

\* close(), or the end of the client's process: a FIN, and a RST if the client
\* leaves packets unread.
ClientClose(c) ==
  /\ c \in Leavers /\ peer[c] = "open"
  /\ peer' = [peer EXCEPT ![c] = "closed"]
  /\ fault' = [fault EXCEPT ![c] = IF Unread(c) > 0 THEN "reset" ELSE @]
  /\ ready' = WithEdge(ready, FdsOf(c))
  /\ UNCHANGED <<sends, taken, inbound, outbound, backlog, fdTable, interest>>

\* The answer of a closed client to a packet.
RstArrives(c) ==
  /\ fault[c] = "poked"
  /\ fault' = [fault EXCEPT ![c] = "pipe"]
  /\ ready' = WithEdge(ready, FdsOf(c))
  /\ UNCHANGED <<clientVars, inbound, outbound, backlog, fdTable, interest>>

ClientNext == \E c \in Conns : \/ Connect(c) \/ ClientRecv(c) \/ ClientClose(c) \/ RstArrives(c)
                               \/ \E r \in Requests : SendRequest(c, r)

-----------------------------------------------------------------------------
(* System calls of the broker, as operators for its actions. *)

\* recv would not block.
Readable(fd) == IF fd = Listener THEN backlog # << >>
                ELSE /\ fdTable[fd] # NoConn
                     /\ inbound[fdTable[fd]] # << >> \/ peer[fdTable[fd]] = "closed"

FreeFds == {fd \in Fds : fdTable[fd] = NoConn}
LowestFd == CHOOSE fd \in FreeFds : \A k \in FreeFds : fd <= k

\* send, once per element of the sequence fds.  An open client gets the packet as
\* long as the buffers have room (else EAGAIN, and the packet is lost); a free
\* descriptor is EBADF; a closed client answers with a RST; the error of a reset is
\* reported once; after that the sender gets SIGPIPE, and sends nothing more.
Copies(fds, c) == Cardinality({i \in DOMAIN fds : fdTable[fds[i]] = c})
SigPipe(fds) ==
  \E c \in Conns : \/ fault[c] = "pipe" /\ Copies(fds, c) > 0
                   \/ fault[c] = "reset" /\ Copies(fds, c) > 1
Reached(fds) == SubSeq(fds, 1, Max({n \in 0 .. Len(fds) : ~SigPipe(SubSeq(fds, 1, n))}))
Room(c) == SendCap - Unread(c)
Least(a, b) == IF a < b THEN a ELSE b
Repeat(p, n) == [i \in 1 .. n |-> p]

Send(fds, p) ==
  LET sent(c) == Copies(Reached(fds), c)
  IN  /\ outbound' = [c \in Conns |->
                        IF peer[c] = "open"
                        THEN outbound[c] \o Repeat(p, Least(sent(c), Room(c)))
                        ELSE outbound[c]]
      /\ fault' = [c \in Conns |->
                     IF peer[c] = "closed" /\ sent(c) > 0
                     THEN IF fault[c] \in {"none", "poked"} THEN "poked" ELSE "pipe"
                     ELSE fault[c]]

\* Types of the network.
NetTypeOK ==
  /\ peer \in [Conns -> {"none", "open", "closed"}]
  /\ sends \in 0 .. MaxSends
  /\ inbound \in [Conns -> Seq([of : Requests, part : 1 .. Parts])]
  /\ fault \in [Conns -> {"none", "poked", "pipe", "reset"}]
  /\ outbound \in [Conns -> Seq(Publications \cup Errors)]
  /\ taken \in [Conns -> Nat] /\ \A c \in Conns : taken[c] <= Len(outbound[c])
  /\ backlog \in Seq(Conns)
  /\ fdTable \in [Fds -> Conns \cup {NoConn}]
  /\ interest \subseteq Fds
  /\ ready \in Seq(Fds \cup {Listener})
=============================================================================
