------------------------------- MODULE PubSub -------------------------------
(***************************************************************************)
(* What the broker promises, with no sockets.  Every request of a client   *)
(* is served once and in the order the client made them: a publication     *)
(* goes to the subscribers of its topic, once per subscription, and to     *)
(* nobody else, and to the consumer of the topic if it has one; a request  *)
(* nobody understands is answered with an error.  Requests a client makes  *)
(* without waiting may be taken for one that nobody understands.  A        *)
(* subscription lasts until its client leaves.                             *)
(*                                                                         *)
(* TcpServer implements this specification as long as no subscriber leaves *)
(* and the buffers towards the clients have room.                          *)
(***************************************************************************)
EXTENDS Naturals, Sequences, FiniteSets

CONSTANTS Clients, Topics, Payloads, Handled

Publications == [type : {"publish"}, topic : Topics, payload : Payloads]
Subscriptions == [type : {"subscribe"}, topic : Topics]
Requests == Publications \cup Subscriptions \cup {[type |-> "unknown"]}

VARIABLES subs,   \* per topic, the subscriptions in the order they came
          asked,  \* per client, its requests not yet served
          inbox,  \* per client, what it was sent
          tasks,  \* publications given to consumers
          gone    \* the clients that left

vars == <<subs, asked, inbox, tasks, gone>>

Init == /\ subs = [t \in Topics |-> << >>]
        /\ asked = [c \in Clients |-> << >>]
        /\ inbox = [c \in Clients |-> << >>]
        /\ tasks = << >>
        /\ gone = {}

Ask(c, r) == /\ c \notin gone
             /\ asked' = [asked EXCEPT ![c] = Append(@, r)]
             /\ UNCHANGED <<subs, inbox, tasks, gone>>

\* The first n requests of client c are taken.
Take(c, n) == /\ n \in 1 .. Len(asked[c])
              /\ asked' = [asked EXCEPT ![c] = SubSeq(@, n + 1, Len(@))]

Times(c, t) == Cardinality({i \in DOMAIN subs[t] : subs[t][i] = c})

Subscribe(c, t) == /\ Take(c, 1)
                   /\ Head(asked[c]) = [type |-> "subscribe", topic |-> t]
                   /\ subs' = [subs EXCEPT ![t] = Append(@, c)]
                   /\ UNCHANGED <<inbox, tasks, gone>>

Publish(c, p) ==
  /\ Take(c, 1)
  /\ Head(asked[c]) = p
  /\ inbox' = [d \in Clients |-> IF d \in gone THEN inbox[d]
                                   ELSE inbox[d] \o [i \in 1 .. Times(d, p.topic) |-> p]]
  /\ tasks' = IF p.topic \in Handled THEN Append(tasks, p) ELSE tasks
  /\ UNCHANGED <<subs, gone>>

Reject(c) == /\ \E n \in 1 .. Len(asked[c]) : /\ Take(c, n)
                                              /\ n = 1 => Head(asked[c]).type = "unknown"
             /\ inbox' = [inbox EXCEPT ![c] = IF c \in gone THEN @ ELSE Append(@, [type |-> "error"])]
             /\ UNCHANGED <<subs, tasks, gone>>

Leave(c) == /\ gone' = gone \cup {c}
            /\ UNCHANGED <<subs, asked, inbox, tasks>>

Next == \E c \in Clients :
          \/ \E r \in Requests : Ask(c, r)
          \/ \E t \in Topics : Subscribe(c, t)
          \/ \E p \in Publications : Publish(c, p)
          \/ Reject(c)
          \/ Leave(c)

Spec == Init /\ [][Next]_vars
=============================================================================
