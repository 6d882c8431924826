---------------------------- MODULE MCTcpServer ----------------------------
(* Small instances of TcpServer for TLC. *)
EXTENDS TcpServer

\* Connections that play the same part in an instance are interchangeable.
Interchanging(S) == {f \in Permutations(Conns) : \A c \in Conns \ S : f[c] = c}

PublisherSymmetry == Interchanging(Publishers \cap Leavers)
SubscriberSymmetry == Interchanging(Subscribers \ Leavers)
=============================================================================
