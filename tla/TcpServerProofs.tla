---------------------------- MODULE TcpServerProofs ----------------------------
(***************************************************************************)
(* Theorems about TcpServer for any connections, topics and payloads, and  *)
(* every size of the buffers, of the event array and of the table of       *)
(* descriptors.                                                            *)
(***************************************************************************)
EXTENDS TcpServer, FiniteSetTheorems, FunctionTheorems, SequenceTheorems, TLAPS

(* Parts of a sequence. *)

\* The place of i among the members of I.
Rank(I, i) == Cardinality({j \in I : j <= i})

LEMMA Ranks ==
  ASSUME NEW n \in Nat, NEW I, I \subseteq 1 .. n
  PROVE  /\ IsFiniteSet(I) /\ Cardinality(I) \in Nat
         /\ \A i \in I : Rank(I, i) \in 1 .. Cardinality(I)
         /\ \A i, j \in I : Rank(I, i) = Rank(I, j) => i = j
         /\ \A m \in 1 .. Cardinality(I) : \E i \in I : Rank(I, i) = m
<1>. DEFINE Below(i) == {j \in I : j <= i}
            N == 1 .. Cardinality(I)
            f == [i \in I |-> Rank(I, i)]
<1>1. IsFiniteSet(I) /\ Cardinality(I) \in Nat
  <2>1. IsFiniteSet(1 .. n)
    BY FS_Interval
  <2>2. IsFiniteSet(I)
    BY <2>1, FS_Subset
  <2>. QED
    BY <2>2, FS_CardinalityType
<1>2. \A i \in I : /\ IsFiniteSet(Below(i)) /\ Cardinality(Below(i)) \in Nat
                   /\ Cardinality(Below(i)) <= Cardinality(I)
  BY <1>1, FS_Subset, FS_CardinalityType
<1>3. ASSUME NEW i \in I PROVE Rank(I, i) \in N
  <2>1. i \in Below(i)
    OBVIOUS
  <2>2. Cardinality(Below(i)) # 0
    BY <1>2, <2>1, FS_EmptySet
  <2>. QED
    BY <1>1, <1>2, <2>2 DEF Rank
<1>4. ASSUME NEW i \in I, NEW j \in I, i < j PROVE Rank(I, i) < Rank(I, j)
  <2>. i \in Int /\ j \in Int /\ \A k \in I : k \in Int
    OBVIOUS
  <2>3. ASSUME NEW k \in Below(i) PROVE k \in Below(j)
    <3>1. k \in I /\ k <= i /\ k \in Int
      OBVIOUS
    <3>2. k <= j
      BY <3>1, <1>4
    <3>. QED
      BY <3>1, <3>2
  <2>4. j \in Below(j)
    OBVIOUS
  <2>5. ~(j <= i)
    BY <1>4
  <2>1. Below(i) \subseteq Below(j) /\ j \in Below(j) /\ j \notin Below(i)
    BY <2>3, <2>4, <2>5
  <2>2. /\ Cardinality(Below(i)) <= Cardinality(Below(j))
        /\ Cardinality(Below(i)) # Cardinality(Below(j))
    BY <1>2, <2>1, FS_Subset
  <2>. QED
    BY <1>2, <2>2 DEF Rank
<1>5. ASSUME NEW i \in I, NEW j \in I, Rank(I, i) = Rank(I, j) PROVE i = j
  <2>1. Rank(I, i) \in Nat
    BY <1>1, <1>3
  <2>2. i \in Int /\ j \in Int /\ ~(i < j) /\ ~(j < i)
    BY <1>4, <1>5, <2>1
  <2>. QED
    BY <2>2
<1>6. f \in Injection(I, N)
  BY <1>3, <1>5, Fun_IsInj
<1>7. IsFiniteSet(N) /\ Cardinality(N) = Cardinality(I)
  BY <1>1, FS_Interval
<1>8. f \in Surjection(I, N)
  BY <1>6, <1>7, FS_Injection
<1>9. ASSUME NEW m \in N PROVE \E i \in I : Rank(I, i) = m
  BY <1>8 DEF Surjection
<1>. QED
  BY <1>1, <1>3, <1>5, <1>9

\* Kept has the elements it is asked to keep, and repeats none that the list does not.
LEMMA KeptProperties ==
  ASSUME NEW S, NEW list \in Seq(S), NEW I, I \subseteq DOMAIN list
  PROVE  /\ Kept(list, I) \in Seq(S)
         /\ \A n \in DOMAIN Kept(list, I) : \E i \in I : Kept(list, I)[n] = list[i]
         /\ \A i \in I : \E n \in DOMAIN Kept(list, I) : Kept(list, I)[n] = list[i]
         /\ IsInjective(list) => IsInjective(Kept(list, I))
<1>. DEFINE N == 1 .. Cardinality(I)
            at(n) == CHOOSE i \in I : Rank(I, i) = n
<1>1. Len(list) \in Nat /\ I \subseteq 1 .. Len(list)
  OBVIOUS
<1>2. Cardinality(I) \in Nat
  BY <1>1, Ranks
<1>3. Kept(list, I) = [n \in N |-> list[at(n)]]
  BY DEF Kept, Rank
<1>4. ASSUME NEW n \in N PROVE at(n) \in I /\ Rank(I, at(n)) = n
  <2>1. \E i \in I : Rank(I, i) = n
    BY <1>1, Ranks
  <2>. QED
    BY <2>1
<1>5. ASSUME NEW i \in I PROVE Rank(I, i) \in N /\ at(Rank(I, i)) = i
  <2>1. Rank(I, i) \in N
    BY <1>1, Ranks
  <2>. QED
    BY <1>1, <1>4, <2>1, Ranks
<1>6. DOMAIN Kept(list, I) = N
  BY <1>3
<1>7. Kept(list, I) \in Seq(S)
  <2>1. \A n \in N : list[at(n)] \in S
    BY <1>1, <1>4
  <2>2. Kept(list, I) \in [N -> S]
    BY <1>3, <2>1
  <2>. QED
    BY <1>2, <2>2, SeqDef
<1>8. \A n \in N : Kept(list, I)[n] = list[at(n)]
  BY <1>3
<1>9. ASSUME IsInjective(list), NEW m \in N, NEW n \in N, Kept(list, I)[m] = Kept(list, I)[n]
      PROVE  m = n
  <2>1. at(m) \in DOMAIN list /\ at(n) \in DOMAIN list /\ list[at(m)] = list[at(n)]
    BY <1>4, <1>8, <1>9
  <2>2. at(m) = at(n)
    BY <1>9, <2>1 DEF IsInjective
  <2>. QED
    BY <1>4, <2>2
<1>. QED
  BY <1>4, <1>5, <1>6, <1>7, <1>8, <1>9 DEF IsInjective

\* SetToSeq lists a finite set, each member once.
LEMMA Listing ==
  ASSUME NEW T, IsFiniteSet(T)
  PROVE  /\ SetToSeq(T) \in Seq(T)
         /\ IsInjective(SetToSeq(T))
         /\ Range(SetToSeq(T)) = T
<1>. DEFINE N == 1 .. Cardinality(T)
<1>1. Cardinality(T) \in Nat
  BY FS_CardinalityType
<1>2. PICK f \in [N -> T] : /\ \A a, b \in N : f[a] = f[b] => a = b
                           /\ \A t \in T : \E a \in N : f[a] = t
  <2>1. PICK f : f \in Bijection(N, T)
    BY FS_CardinalityType DEF ExistsBijection
  <2>. QED
    BY <2>1 DEF Bijection, Injection, Surjection, IsInjective
<1>3. IsInjective(f)
  BY <1>2 DEF IsInjective
<1>4. SetToSeq(T) \in [N -> T] /\ IsInjective(SetToSeq(T))
  BY <1>3 DEF SetToSeq
<1>5. SetToSeq(T) \in Injection(N, T)
  BY <1>4, Fun_IsInj DEF IsInjective
<1>6. Cardinality(N) = Cardinality(T)
  BY <1>1, FS_Interval
<1>7. SetToSeq(T) \in Surjection(N, T)
  BY <1>5, <1>6, FS_Injection
<1>8. Range(SetToSeq(T)) = T
  BY <1>4, <1>7 DEF Surjection, Range
<1>. QED
  BY <1>1, <1>4, <1>8, SeqDef

\* An edge comes on top of the list, once.
LEMMA EdgeAdds ==
  ASSUME NEW S, NEW list \in Seq(S), NEW fds, IsFiniteSet(fds), fds \subseteq S
  PROVE  /\ WithEdge(list, fds) \in Seq(S)
         /\ Range(WithEdge(list, fds)) = Range(list) \cup fds
         /\ IsInjective(list) => IsInjective(WithEdge(list, fds))
<1>. DEFINE new == fds \ Range(list)
            tail == SetToSeq(new)
            all == list \o tail
<1>1. IsFiniteSet(new)
  BY FS_Subset
<1>2. tail \in Seq(new) /\ IsInjective(tail) /\ Range(tail) = new
  BY <1>1, Listing
<1>3. tail \in Seq(S)
  BY <1>2, SeqMonotonic
<1>4. /\ all \in Seq(S) /\ Len(all) = Len(list) + Len(tail)
      /\ Range(all) = Range(list) \cup new
  <2>1. Range(all) = Range(list) \cup Range(tail)
    BY <1>3, RangeConcatenation
  <2>2. all \in Seq(S) /\ Len(all) = Len(list) + Len(tail)
    BY <1>3, ConcatProperties
  <2>. QED
    BY <1>2, <2>1, <2>2
<1>5. ASSUME IsInjective(list), NEW a \in DOMAIN all, NEW b \in DOMAIN all, all[a] = all[b]
      PROVE  a = b
  <2>. DEFINE m == Len(list)
              n == Len(tail)
  <2>1. /\ m \in Nat /\ n \in Nat /\ DOMAIN list = 1 .. m /\ DOMAIN tail = 1 .. n
        /\ DOMAIN all = 1 .. m + n
    BY <1>3, <1>4, LenProperties
  <2>2. \A i \in 1 .. m + n : all[i] = IF i <= m THEN list[i] ELSE tail[i - m]
    BY <1>3, ConcatProperties
  <2>3. \A i \in 1 .. m, j \in 1 .. n : list[i] # tail[j]
    <3>1. \A i \in 1 .. m : list[i] \in Range(list)
      BY <2>1 DEF Range
    <3>2. \A j \in 1 .. n : tail[j] \in new
      BY <1>2, <2>1 DEF Range
    <3>. QED
      BY <3>1, <3>2
  <2>. HIDE DEF m, n, all, tail
  <2>4. a \in 1 .. m + n /\ b \in 1 .. m + n
    BY <2>1
  <2>5. CASE a <= m /\ b <= m
    BY <1>5, <2>1, <2>2, <2>4, <2>5 DEF IsInjective
  <2>6. CASE a > m /\ b > m
    <3>1. a - m \in 1 .. n /\ b - m \in 1 .. n
      BY <2>1, <2>4, <2>6
    <3>2. tail[a - m] = tail[b - m]
      BY <1>5, <2>1, <2>2, <2>4, <2>6
    <3>3. a - m = b - m
      BY <1>2, <2>1, <3>1, <3>2 DEF IsInjective
    <3>. QED
      BY <2>1, <2>4, <3>3
  <2>7. CASE a <= m /\ b > m
    BY <1>5, <2>1, <2>2, <2>3, <2>4, <2>7
  <2>8. CASE a > m /\ b <= m
    BY <1>5, <2>1, <2>2, <2>3, <2>4, <2>8
  <2>. QED
    BY <2>1, <2>4, <2>5, <2>6, <2>7, <2>8
<1>. QED
  BY <1>4, <1>5 DEF WithEdge, IsInjective

\* A sequence and its two parts.
LEMMA Halves ==
  ASSUME NEW S, NEW list \in Seq(S), NEW n \in 0 .. Len(list)
  PROVE  LET front == SubSeq(list, 1, n)
             rest  == SubSeq(list, n + 1, Len(list))
         IN  /\ front \in Seq(S) /\ rest \in Seq(S)
             /\ Range(list) = Range(front) \cup Range(rest)
             /\ IsInjective(list) => /\ IsInjective(front) /\ IsInjective(rest)
                                     /\ Range(front) \cap Range(rest) = {}
<1>. DEFINE m == Len(list)
            front == SubSeq(list, 1, n)
            rest  == SubSeq(list, n + 1, m)
<1>1. m \in Nat /\ n \in Nat /\ n <= m /\ DOMAIN list = 1 .. m /\ \A i \in 1 .. m : list[i] \in S
  BY LenProperties
<1>2. /\ front \in Seq(S) /\ Len(front) = n /\ DOMAIN front = 1 .. n
      /\ \A i \in 1 .. n : front[i] = list[i]
  <2>1. \A i \in 1 .. n : list[i] \in S
    BY <1>1
  <2>2. /\ front \in Seq(S) /\ Len(front) = IF 1 <= n THEN n - 1 + 1 ELSE 0
        /\ \A i \in 1 .. n - 1 + 1 : front[i] = list[1 + i - 1]
    BY <1>1, <2>1, SubSeqProperties
  <2>. QED
    BY <1>1, <2>2
<1>3. /\ rest \in Seq(S) /\ Len(rest) = m - n /\ DOMAIN rest = 1 .. m - n
      /\ \A i \in 1 .. m - n : rest[i] = list[n + i]
  <2>1. \A i \in n + 1 .. m : list[i] \in S
    BY <1>1
  <2>2. /\ rest \in Seq(S) /\ Len(rest) = IF n + 1 <= m THEN m - (n + 1) + 1 ELSE 0
        /\ \A i \in 1 .. m - (n + 1) + 1 : rest[i] = list[n + 1 + i - 1]
    BY <1>1, <2>1, SubSeqProperties
  <2>. QED
    BY <1>1, <2>2
<1>. HIDE DEF m, front, rest
<1>4. ASSUME NEW x PROVE x \in Range(list) <=> x \in Range(front) \cup Range(rest)
  <2>1. ASSUME NEW i \in 1 .. m, x = list[i] PROVE x \in Range(front) \cup Range(rest)
    <3>1. CASE i <= n
      BY <1>1, <1>2, <2>1, <3>1 DEF Range
    <3>2. CASE i > n
      <4>1. i - n \in 1 .. m - n /\ n + (i - n) = i
        BY <1>1, <3>2
      <4>2. rest[i - n] = x
        BY <1>3, <2>1, <4>1
      <4>. QED
        BY <1>3, <4>1, <4>2 DEF Range
    <3>. QED
      BY <1>1, <3>1, <3>2
  <2>2. ASSUME NEW i \in 1 .. n, x = front[i] PROVE x \in Range(list)
    BY <1>1, <1>2, <2>2 DEF Range
  <2>3. ASSUME NEW i \in 1 .. m - n, x = rest[i] PROVE x \in Range(list)
    <3>1. n + i \in 1 .. m
      BY <1>1
    <3>. QED
      BY <1>1, <1>3, <2>3, <3>1 DEF Range
  <2>. QED
    BY <1>1, <1>2, <1>3, <2>1, <2>2, <2>3 DEF Range
<1>5. ASSUME IsInjective(list)
      PROVE  IsInjective(front) /\ IsInjective(rest) /\ Range(front) \cap Range(rest) = {}
  <2>1. \A i, j \in 1 .. m : list[i] = list[j] => i = j
    BY <1>1, <1>5 DEF IsInjective
  <2>2. \A i, j \in 1 .. n : front[i] = front[j] => i = j
    BY <1>1, <1>2, <2>1
  <2>3. ASSUME NEW i \in 1 .. m - n, NEW j \in 1 .. m - n, rest[i] = rest[j] PROVE i = j
    <3>1. n + i \in 1 .. m /\ n + j \in 1 .. m
      BY <1>1
    <3>2. n + i = n + j
      BY <1>3, <2>1, <2>3, <3>1
    <3>. QED
      BY <1>1, <3>2
  <2>4. ASSUME NEW i \in 1 .. n, NEW j \in 1 .. m - n PROVE front[i] # rest[j]
    <3>1. i \in 1 .. m /\ n + j \in 1 .. m /\ i # n + j
      BY <1>1
    <3>. QED
      BY <1>2, <1>3, <2>1, <3>1
  <2>. QED
    BY <1>2, <1>3, <2>2, <2>3, <2>4 DEF IsInjective, Range
<1>. QED
  BY <1>2, <1>3, <1>4, <1>5 DEF m, front, rest

\* The first element and the others.
LEMMA FirstAndRest ==
  ASSUME NEW S, NEW list \in Seq(S), list # << >>
  PROVE  /\ Head(list) \in S /\ Tail(list) \in Seq(S)
         /\ Range(list) = {Head(list)} \cup Range(Tail(list))
         /\ IsInjective(list) => IsInjective(Tail(list)) /\ Head(list) \notin Range(Tail(list))
<1>. DEFINE front == SubSeq(list, 1, 1)
            rest == SubSeq(list, 2, Len(list))
<1>1. Len(list) \in Nat /\ 1 <= Len(list)
  BY EmptySeq
<1>2. 1 \in 0 .. Len(list) /\ 1 + 1 = 2
  BY <1>1
<1>3. rest = Tail(list) /\ Head(list) \in S /\ Tail(list) \in Seq(S)
  BY TailIsSubSeq, HeadTailProperties
<1>4. Range(front) = {Head(list)}
  <2>1. Len(front) = 1 /\ front[1] = list[1] /\ DOMAIN front = 1 .. 1
    BY <1>1
  <2>2. Head(list) = list[1]
    BY <1>1
  <2>. QED
    BY <2>1, <2>2 DEF Range
<1>5. /\ Range(list) = Range(front) \cup Range(rest)
      /\ IsInjective(list) => IsInjective(rest) /\ Range(front) \cap Range(rest) = {}
  BY <1>2, Halves
<1>. QED
  BY <1>3, <1>4, <1>5

\* One element more.
LEMMA OneMore ==
  ASSUME NEW S, NEW list \in Seq(S), NEW x \in S
  PROVE  /\ Append(list, x) \in Seq(S)
         /\ Range(Append(list, x)) = Range(list) \cup {x}
         /\ IsInjective(list) /\ x \notin Range(list) => IsInjective(Append(list, x))
<1>. DEFINE m == Len(list)
            more == Append(list, x)
<1>1. /\ m \in Nat /\ DOMAIN list = 1 .. m /\ DOMAIN more = 1 .. m + 1 /\ more \in Seq(S)
      /\ more[m + 1] = x /\ \A i \in 1 .. m : more[i] = list[i]
  BY LenProperties, AppendProperties
<1>. HIDE DEF m, more
<1>2. 1 .. m + 1 = 1 .. m \cup {m + 1}
  BY <1>1
<1>3. Range(more) = Range(list) \cup {x}
  BY <1>1, <1>2 DEF Range
<1>4. IsInjective(list) /\ x \notin Range(list) => IsInjective(more)
  BY <1>1, <1>2 DEF IsInjective, Range
<1>. QED
  BY <1>1, <1>3, <1>4 DEF more

-----------------------------------------------------------------------------
(* The tables. *)

\* Who waits in the backlog has no descriptor yet, and waits once.
BacklogWaits ==
  /\ IsInjective(backlog)
  /\ \A c \in Range(backlog) : peer[c] # "none" /\ sock_fd[c] = 0
  /\ \A c \in Conns : peer[c] = "none" => sock_fd[c] = 0

TablesTypes ==
  /\ peer \in [Conns -> {"none", "open", "closed"}]
  /\ backlog \in Seq(Conns)
  /\ fdTable \in [Fds -> Conns \cup {NoConn}]
  /\ sock_fd \in [Conns -> Fds \cup {0}]

TablesInv == TablesTypes /\ BacklogWaits /\ TablesAgree

\* No descriptor stands for a connection that has none, and no two for the same.
LEMMA OneDescriptor ==
  ASSUME TablesInv
  PROVE  /\ Fds \subseteq Nat \ {0}
         /\ \A fd \in interest : /\ fd \in Fds /\ fdTable[fd] \in Conns
                                /\ sock_fd[fdTable[fd]] = fd /\ connections[fd] = fdTable[fd]
         /\ \A fd \in Fds : fdTable[fd] # NoConn <=> fd \in interest
         /\ \A fd, k \in interest : fdTable[fd] = fdTable[k] => fd = k
<1>1. Fds \subseteq Nat \ {0}
  BY SocketsAssumption DEF Fds
<1>. QED
  BY <1>1 DEF TablesInv, TablesTypes, TablesAgree

\* The descriptors of one connection are finitely many: at most one.
LEMMA FewDescriptors ==
  ASSUME TablesInv, NEW c
  PROVE  IsFiniteSet(FdsOf(c)) /\ FdsOf(c) \subseteq Fds
<1>1. IsFiniteSet(Fds)
  BY SocketsAssumption, FS_Interval DEF Fds
<1>2. FdsOf(c) \subseteq Fds
  BY OneDescriptor DEF FdsOf
<1>. QED
  BY <1>1, <1>2, FS_Subset

\* accept takes the lowest free descriptor.
LEMMA LowestIsFree ==
  ASSUME FreeFds # {}
  PROVE  LowestFd \in FreeFds
<1>1. FreeFds \subseteq Nat
  BY SocketsAssumption DEF FreeFds, Fds
<1>2. PICK fd \in FreeFds : \A k \in FreeFds : ~(<<k, fd>> \in OpToRel(<, Nat))
  BY <1>1, NatLessThanWellFounded, WFMin
<1>3. \A k \in FreeFds : ~(k < fd)
  BY <1>1, <1>2 DEF OpToRel
<1>4. \A k \in FreeFds : fd <= k
  BY <1>1, <1>3
<1>. QED
  BY <1>2, <1>4 DEF LowestFd

\* The handler changes no descriptor of an object.
LEMMA HandlerKeepsObjects ==
  ASSUME NEW c, NEW chunk, HandleMessage(c, chunk)
  PROVE  sock_fd' = sock_fd
BY DEF HandleMessage, Publish, Subscribe, Reject, brokerVars

LEMMA TablesInit == Init => TablesInv
<1>. SUFFICES ASSUME Init PROVE TablesInv
  OBVIOUS
<1>1. TablesTypes
  BY DEF Init, NetInit, BrokerInit, TablesTypes
<1>2. Range(backlog) = {} /\ IsInjective(backlog)
  BY DEF Init, NetInit, Range, IsInjective
<1>3. BacklogWaits
  BY <1>2 DEF Init, BrokerInit, BacklogWaits
<1>4. TablesAgree
  BY DEF Init, NetInit, TablesAgree
<1>. QED
  BY <1>1, <1>3, <1>4 DEF TablesInv

LEMMA TablesStep == TablesInv /\ [Next]_vars => TablesInv'
<1>. SUFFICES ASSUME TablesInv, [Next]_vars PROVE TablesInv'
  OBVIOUS
<1>. USE DEF TablesInv
<1>. DEFINE Tables == <<peer, backlog, fdTable, sock_fd, connections, interest>>
<1>0. ASSUME UNCHANGED Tables PROVE TablesInv'
  BY <1>0 DEF TablesTypes, BacklogWaits, TablesAgree
<1>1. ASSUME NEW c \in Conns, Connect(c), UNCHANGED <<brokerVars, serverVars>> PROVE TablesInv'
  <2>1. c \notin Range(backlog) /\ sock_fd[c] = 0
    BY <1>1 DEF Connect, BacklogWaits
  <2>2. /\ backlog' \in Seq(Conns) /\ Range(backlog') = Range(backlog) \cup {c}
        /\ IsInjective(backlog')
    BY <1>1, <2>1, OneMore DEF Connect, TablesTypes, BacklogWaits
  <2>3. /\ peer' = [peer EXCEPT ![c] = "open"]
        /\ UNCHANGED <<fdTable, sock_fd, connections, interest>>
    BY <1>1 DEF Connect, brokerVars, serverVars
  <2>4. TablesTypes'
    BY <2>2, <2>3 DEF TablesTypes
  <2>5. BacklogWaits'
    BY <2>1, <2>2, <2>3 DEF BacklogWaits, TablesTypes
  <2>6. TablesAgree'
    BY <2>3 DEF TablesAgree
  <2>. QED
    BY <2>4, <2>5, <2>6
<1>2. ASSUME NEW c \in Conns, ClientClose(c), UNCHANGED <<brokerVars, serverVars>> PROVE TablesInv'
  <2>1. /\ peer[c] = "open" /\ peer' = [peer EXCEPT ![c] = "closed"]
        /\ UNCHANGED <<backlog, fdTable, sock_fd, connections, interest>>
    BY <1>2 DEF ClientClose, brokerVars, serverVars
  <2>2. TablesTypes'
    BY <2>1 DEF TablesTypes
  <2>3. BacklogWaits'
    BY <2>1 DEF BacklogWaits, TablesTypes
  <2>4. TablesAgree'
    BY <2>1 DEF TablesAgree
  <2>. QED
    BY <2>2, <2>3, <2>4
<1>3. ASSUME NEW c \in Conns, ClientRecv(c) \/ RstArrives(c) \/ \E r \in Requests : SendRequest(c, r),
             UNCHANGED <<brokerVars, serverVars>>
      PROVE  TablesInv'
  <2>1. UNCHANGED Tables
    BY <1>3 DEF ClientRecv, RstArrives, SendRequest, brokerVars, serverVars, clientVars, kernelVars
  <2>. QED
    BY <1>0, <2>1
<1>4. ASSUME EpollWait \/ BatchDone \/ BeginAccept \/ AcceptDone PROVE TablesInv'
  <2>1. UNCHANGED Tables
    BY <1>4 DEF EpollWait, BatchDone, BeginAccept, AcceptDone, brokerVars, netVars, clientVars,
                kernelVars
  <2>. QED
    BY <1>0, <2>1
<1>5. CASE AcceptOne
  <2>. DEFINE c == Head(backlog)
              fd == LowestFd
  <2>1. backlog # << >> /\ FreeFds # {}
    BY <1>5 DEF AcceptOne
  <2>2. fd \in Fds /\ fdTable[fd] = NoConn
    BY <2>1, LowestIsFree DEF FreeFds
  <2>3. /\ c \in Conns /\ Tail(backlog) \in Seq(Conns)
        /\ Range(backlog) = {c} \cup Range(Tail(backlog))
        /\ IsInjective(Tail(backlog)) /\ c \notin Range(Tail(backlog))
    BY <2>1, FirstAndRest DEF TablesTypes, BacklogWaits
  <2>4. /\ backlog' = Tail(backlog)
        /\ fdTable' = [fdTable EXCEPT ![fd] = c]
        /\ connections' = [connections EXCEPT ![fd] = c]
        /\ sock_fd' = [sock_fd EXCEPT ![c] = fd]
        /\ interest' = interest \cup {fd}
        /\ peer' = peer
    BY <1>5 DEF AcceptOne, clientVars
  <2>. HIDE DEF c, fd
  <2>5. TablesTypes'
    BY <2>2, <2>3, <2>4 DEF TablesTypes
  <2>6. BacklogWaits'
    <3>1. peer[c] # "none" /\ sock_fd[c] = 0
      BY <2>3 DEF BacklogWaits
    <3>. QED
      BY <2>3, <2>4, <3>1 DEF BacklogWaits, TablesTypes
  <2>7. TablesAgree'
    <3>1. \A k \in interest : k \in Fds /\ fdTable[k] # c
      BY <2>3, OneDescriptor DEF BacklogWaits
    <3>2. connections' = fdTable'
      BY <2>4 DEF TablesAgree
    <3>3. interest' = {k \in Fds : connections'[k] # NoConn}
      BY <2>2, <2>3, <2>4, SocketsAssumption DEF TablesAgree, TablesTypes
    <3>4. ASSUME NEW k \in interest' PROVE sock_fd'[connections'[k]] = k
      BY <2>2, <2>3, <2>4, <3>1, OneDescriptor DEF TablesAgree, TablesTypes
    <3>. QED
      BY <3>2, <3>3, <3>4 DEF TablesAgree
  <2>. QED
    BY <2>5, <2>6, <2>7
<1>6. ASSUME NEW fd \in Fds, ReadData(fd) PROVE TablesInv'
  <2>1. UNCHANGED Tables
    BY <1>6, HandlerKeepsObjects DEF ReadData, clientVars, kernelVars
  <2>. QED
    BY <1>0, <2>1
<1>7. ASSUME NEW fd \in Fds, ReadEnd(fd) PROVE TablesInv'
  <2>1. /\ interest' = interest \ {fd}
        /\ fdTable' = [fdTable EXCEPT ![fd] = NoConn]
        /\ connections' = [connections EXCEPT ![fd] = NoConn]
        /\ UNCHANGED <<peer, backlog, sock_fd>>
    BY <1>7 DEF ReadEnd, CloseConnection, clientVars, brokerVars
  <2>2. TablesTypes'
    BY <2>1 DEF TablesTypes
  <2>3. BacklogWaits'
    BY <2>1 DEF BacklogWaits
  <2>4. TablesAgree'
    BY <2>1 DEF TablesAgree, TablesTypes
  <2>. QED
    BY <2>2, <2>3, <2>4
<1>8. ASSUME NEW fd \in Fds, ReadError(fd) PROVE TablesInv'
  BY <1>0, <1>8 DEF ReadError, netVars, clientVars, kernelVars, brokerVars
<1>9. CASE UNCHANGED vars
  BY <1>0, <1>9 DEF vars, netVars, clientVars, kernelVars, brokerVars, serverVars
<1>. QED
  BY <1>1, <1>2, <1>3, <1>4, <1>5, <1>6, <1>7, <1>8, <1>9 DEF Next, ServerNext, ClientNext

LEMMA TablesInvariant == Spec => []TablesInv
BY TablesInit, TablesStep, PTL DEF Spec

\* The map connections, the descriptors of the process and the epoll set agree in every
\* state, and every object in the map holds the descriptor it is filed under, however often
\* accept and close use a descriptor again (tcp_server.cpp:91-138, 180-187).
THEOREM TablesCorrect == Spec => []TablesAgree
<1>1. TablesInv => TablesAgree
  BY DEF TablesInv
<1>. QED
  BY <1>1, TablesInvariant, PTL

-----------------------------------------------------------------------------
(* The events. *)

Stream == [of : Requests, part : 1 .. Parts]

EventTypes ==
  /\ inbound \in [Conns -> Seq(Stream)]
  /\ ready \in Seq(Fds \cup {Listener}) /\ IsInjective(ready)
  /\ batch \in Seq(Fds \cup {Listener}) /\ IsInjective(batch)

\* What waits in the batch can be handled: a descriptor is still there and readable, and
\* whoever connected is still in the backlog until the accept loop begins.
BatchGood ==
  /\ pc = "wait" => batch = << >>
  /\ pc \in {"events", "accepting"} =>
       \A fd \in Range(batch) : fd # Listener => fd \in interest /\ Readable(fd)
  /\ pc = "events" /\ Listener \in Range(batch) => backlog # << >>
  /\ pc = "accepting" => batch # << >> /\ Head(batch) = Listener

EventsInv == EventTypes /\ BatchGood

\* An edge on the descriptors of a connection keeps the types.
LEMMA EdgeTypes ==
  ASSUME TablesInv, EventTypes, NEW c
  PROVE  /\ WithEdge(ready, FdsOf(c)) \in Seq(Fds \cup {Listener})
         /\ IsInjective(WithEdge(ready, FdsOf(c)))
         /\ Range(WithEdge(ready, FdsOf(c))) = Range(ready) \cup FdsOf(c)
<1>1. IsFiniteSet(FdsOf(c)) /\ FdsOf(c) \subseteq Fds \cup {Listener}
  BY FewDescriptors
<1>. QED
  BY <1>1, EdgeAdds DEF EventTypes

\* A request is a sequence of fragments.
LEMMA FragmentTypes ==
  ASSUME NEW r \in Requests
  PROVE  Fragments(r) \in Seq(Stream) /\ Len(Fragments(r)) = Parts
<1>1. Parts \in Nat
  BY SocketsAssumption
<1>2. Fragments(r) \in [1 .. Parts -> Stream]
  BY DEF Fragments, Stream
<1>. QED
  BY <1>1, <1>2, SeqDef

\* What epoll_wait finds readable, as two parts of the ready list.
LEMMA Reported ==
  ASSUME EventTypes, EpollWait
  PROVE  /\ ready' \in Seq(Fds \cup {Listener}) /\ IsInjective(ready')
         /\ batch' \in Seq(Fds \cup {Listener}) /\ IsInjective(batch')
         /\ \A fd \in Range(batch') \cup Range(ready') : fd \in Range(ready) /\ Readable(fd)
         /\ \A fd \in Range(ready) : Readable(fd) => fd \in Range(batch') \cup Range(ready')
<1>. DEFINE S == Fds \cup {Listener}
            I == {i \in DOMAIN ready : Readable(ready[i])}
            readable == Kept(ready, I)
            n == Least(Len(readable), EventCap)
<1>1. ready \in Seq(S) /\ IsInjective(ready)
  BY DEF EventTypes
<1>2. /\ readable \in Seq(S) /\ IsInjective(readable)
      /\ \A k \in DOMAIN readable : \E i \in I : readable[k] = ready[i]
      /\ \A i \in I : \E k \in DOMAIN readable : readable[k] = ready[i]
  <2>1. I \subseteq DOMAIN ready
    OBVIOUS
  <2>. HIDE DEF I
  <2>. QED
    BY <1>1, <2>1, KeptProperties
<1>3. /\ n > 0
      /\ batch' = SubSeq(readable, 1, n)
      /\ ready' = SubSeq(readable, n + 1, Len(readable))
  BY DEF EpollWait
<1>4. n \in 0 .. Len(readable)
  <2>1. Len(readable) \in Nat
    BY <1>2
  <2>. QED
    BY <2>1, <1>3, ServerAssumption DEF Least
<1>. HIDE DEF readable, n
<1>5. /\ batch' \in Seq(S) /\ ready' \in Seq(S)
      /\ Range(readable) = Range(batch') \cup Range(ready')
      /\ IsInjective(batch') /\ IsInjective(ready')
  BY <1>2, <1>3, <1>4, Halves
<1>6. \A fd \in Range(readable) : fd \in Range(ready) /\ Readable(fd)
  BY <1>2 DEF Range
<1>7. \A fd \in Range(ready) : Readable(fd) => fd \in Range(readable)
  BY <1>2 DEF Range
<1>. QED
  BY <1>5, <1>6, <1>7

\* epoll_ctl(DEL): the other edges stay.
LEMMA Deleted ==
  ASSUME EventTypes, NEW fd
  PROVE  /\ Without(ready, fd) \in Seq(Fds \cup {Listener})
         /\ IsInjective(Without(ready, fd))
         /\ \A k \in Range(ready) : k # fd => k \in Range(Without(ready, fd))
<1>. DEFINE I == {i \in DOMAIN ready : ready[i] # fd}
            rest == Kept(ready, I)
<1>1. /\ rest \in Seq(Fds \cup {Listener}) /\ IsInjective(rest)
      /\ \A i \in I : \E n \in DOMAIN rest : rest[n] = ready[i]
  <2>1. /\ I \subseteq DOMAIN ready
        /\ ready \in Seq(Fds \cup {Listener}) /\ IsInjective(ready)
    BY DEF EventTypes
  <2>. HIDE DEF I
  <2>. QED
    BY <2>1, KeptProperties
<1>2. rest = Without(ready, fd)
  BY DEF Without
<1>. HIDE DEF rest
<1>3. \A k \in Range(ready) : k # fd => k \in Range(rest)
  BY <1>1 DEF Range
<1>. QED
  BY <1>1, <1>2, <1>3

\* The batch after its first event is handled.
LEMMA Handling ==
  ASSUME EventTypes, batch # << >>, NextEvent
  PROVE  /\ batch' \in Seq(Fds \cup {Listener}) /\ IsInjective(batch')
         /\ Range(batch) = {Head(batch)} \cup Range(batch')
         /\ Head(batch) \notin Range(batch')
BY FirstAndRest DEF EventTypes, NextEvent

\* A recv takes the head of one stream.
LEMMA Receiving ==
  ASSUME EventTypes, TablesInv, NEW fd \in Fds, ReadData(fd)
  PROVE  /\ fd \in interest
         /\ inbound' \in [Conns -> Seq(Stream)]
         /\ \A c \in Conns : c # fdTable[fd] => inbound'[c] = inbound[c]
<1>. DEFINE k == fdTable[fd]
            rest == SubSeq(inbound[k], Len(Received(k)) + 1, Len(inbound[k]))
<1>1. fd \in interest /\ k \in Conns
  BY DEF ReadData, TablesInv, TablesTypes, TablesAgree
<1>2. inbound' = [inbound EXCEPT ![k] = rest]
  BY <1>1 DEF ReadData, EventTypes
<1>3. inbound[k] \in Seq(Stream)
  BY <1>1 DEF EventTypes
<1>4. Received(k) \in Seq(Stream)
  <2>1. Least(Len(inbound[k]), RecvCap) \in 0 .. Len(inbound[k])
    BY <1>3, ServerAssumption DEF Least
  <2>. QED
    BY <1>3, <2>1, Halves DEF Received
<1>5. rest \in Seq(Stream)
  <2>1. Len(Received(k)) \in Nat
    BY <1>4
  <2>2. \A i \in Len(Received(k)) + 1 .. Len(inbound[k]) : inbound[k][i] \in Stream
    BY <1>3, <2>1
  <2>. QED
    BY <1>3, <2>1, <2>2, SubSeqProperties
<1>. HIDE DEF k, rest
<1>. QED
  BY <1>1, <1>2, <1>5 DEF EventTypes, k

\* A descriptor that was readable still is, if its connection got more or was closed.
LEMMA StaysReadable ==
  ASSUME NEW fd, fd # Listener, Readable(fd), fdTable'[fd] = fdTable[fd],
         inbound[fdTable[fd]] # << >> => inbound'[fdTable[fd]] # << >>,
         peer[fdTable[fd]] = "closed" => peer'[fdTable[fd]] = "closed"
  PROVE  Readable(fd)'
BY DEF Readable

LEMMA EventsInit == Init => EventsInv
<1>. SUFFICES ASSUME Init PROVE EventsInv
  OBVIOUS
<1>1. inbound \in [Conns -> Seq(Stream)]
  BY DEF Init, NetInit
<1>2. ready = << >> /\ batch = << >> /\ pc = "wait"
  BY DEF Init, NetInit
<1>3. EventTypes
  BY <1>1, <1>2 DEF EventTypes, IsInjective
<1>4. BatchGood
  BY <1>2 DEF BatchGood
<1>. QED
  BY <1>3, <1>4 DEF EventsInv

LEMMA EventsStep == TablesInv /\ EventsInv /\ [Next]_vars => EventsInv'
<1>. SUFFICES ASSUME TablesInv, EventsInv, [Next]_vars PROVE EventsInv'
  OBVIOUS
<1>. USE DEF EventsInv
\* A step of a client: the batch stays, the streams and the backlog only grow.
<1>1. ASSUME EventTypes', UNCHANGED <<pc, batch, fdTable, interest>>,
             backlog # << >> => backlog' # << >>,
             \A c \in Conns : /\ inbound[c] # << >> => inbound'[c] # << >>
                              /\ peer[c] = "closed" => peer'[c] = "closed"
      PROVE  EventsInv'
  <2>1. ASSUME NEW fd \in interest, fd # Listener, Readable(fd) PROVE Readable(fd)'
    BY <1>1, <2>1, OneDescriptor, StaysReadable
  <2>2. BatchGood'
    BY <1>1, <2>1 DEF BatchGood
  <2>. QED
    BY <1>1, <2>2
<1>2. ASSUME NEW c \in Conns, Connect(c), UNCHANGED <<brokerVars, serverVars>> PROVE EventsInv'
  <2>1. /\ peer[c] = "none" /\ peer' = [peer EXCEPT ![c] = "open"]
        /\ backlog' = Append(backlog, c) /\ ready' = WithEdge(ready, {Listener})
        /\ UNCHANGED <<inbound, fdTable, interest, pc, batch>>
    BY <1>2 DEF Connect, streamVars, serverVars
  <2>2. IsFiniteSet({Listener})
    BY FS_Singleton
  <2>3. EventTypes'
    BY <2>1, <2>2, EdgeAdds DEF EventTypes
  <2>4. backlog' # << >>
    BY <2>1, AppendProperties DEF TablesInv, TablesTypes
  <2>5. \A d \in Conns : peer[d] = "closed" => peer'[d] = "closed"
    BY <2>1 DEF TablesInv, TablesTypes
  <2>. QED
    BY <1>1, <2>1, <2>3, <2>4, <2>5
<1>3. ASSUME NEW c \in Conns, NEW r \in Requests, SendRequest(c, r),
             UNCHANGED <<brokerVars, serverVars>>
      PROVE  EventsInv'
  <2>1. /\ inbound' = [inbound EXCEPT ![c] = @ \o Fragments(r)]
        /\ ready' = WithEdge(ready, FdsOf(c))
        /\ UNCHANGED <<peer, backlog, fdTable, interest, pc, batch>>
    BY <1>3 DEF SendRequest, serverVars
  <2>2. /\ inbound[c] \in Seq(Stream) /\ Fragments(r) \in Seq(Stream)
        /\ inbound'[c] = inbound[c] \o Fragments(r)
        /\ inbound'[c] \in Seq(Stream)
        /\ inbound[c] # << >> => inbound'[c] # << >>
    BY <2>1, FragmentTypes, ConcatEqualIffEmpty, ConcatProperties DEF EventTypes
  <2>3. \A d \in Conns : d # c => inbound'[d] = inbound[d]
    BY <2>1 DEF EventTypes
  <2>4. inbound' \in [Conns -> Seq(Stream)]
    BY <2>1, <2>2 DEF EventTypes
  <2>5. EventTypes'
    BY <2>1, <2>4, EdgeTypes DEF EventTypes
  <2>. QED
    BY <1>1, <2>1, <2>2, <2>3, <2>5
<1>4. ASSUME NEW c \in Conns, ClientClose(c) \/ RstArrives(c), UNCHANGED <<brokerVars, serverVars>>
      PROVE  EventsInv'
  <2>1. /\ ready' = WithEdge(ready, FdsOf(c))
        /\ UNCHANGED <<inbound, backlog, fdTable, interest, pc, batch>>
        /\ peer' = [peer EXCEPT ![c] = "closed"] \/ peer' = peer
    BY <1>4 DEF ClientClose, RstArrives, clientVars, serverVars
  <2>2. EventTypes'
    BY <2>1, EdgeTypes DEF EventTypes
  <2>3. \A d \in Conns : peer[d] = "closed" => peer'[d] = "closed"
    BY <2>1 DEF TablesInv, TablesTypes
  <2>. QED
    BY <1>1, <2>1, <2>2, <2>3
<1>5. ASSUME NEW c \in Conns, ClientRecv(c), UNCHANGED <<brokerVars, serverVars>> PROVE EventsInv'
  <2>1. UNCHANGED <<peer, inbound, backlog, fdTable, interest, ready, pc, batch>>
    BY <1>5 DEF ClientRecv, streamVars, kernelVars, serverVars
  <2>. QED
    BY <1>1, <2>1 DEF EventTypes
<1>6. CASE EpollWait
  <2>1. /\ pc' = "events"
        /\ UNCHANGED <<peer, inbound, backlog, fdTable, interest>>
    BY <1>6 DEF EpollWait, clientVars, streamVars
  <2>2. EventTypes'
    BY <1>6, <2>1, Reported DEF EventTypes
  <2>3. ASSUME NEW fd \in Range(batch')
        PROVE  Readable(fd)' /\ (fd # Listener => fd \in interest')
    <3>1. Readable(fd) /\ fd \in Range(ready)
      BY <1>6, <2>3, Reported
    <3>2. fd \in Fds \cup {Listener}
      BY <3>1, RangeOfSeq DEF EventTypes
    <3>3. Readable(fd)'
      BY <2>1, <3>1 DEF Readable
    <3>4. fd # Listener => fd \in interest
      BY <3>1, <3>2, OneDescriptor DEF Readable
    <3>. QED
      BY <2>1, <3>3, <3>4
  <2>4. BatchGood'
    BY <2>1, <2>3 DEF BatchGood, Readable
  <2>. QED
    BY <2>2, <2>4
<1>7. CASE BatchDone
  <2>1. /\ pc' = "wait" /\ batch = << >>
        /\ UNCHANGED <<inbound, ready, batch>>
    BY <1>7 DEF BatchDone, netVars, streamVars, kernelVars
  <2>. QED
    BY <2>1 DEF EventTypes, BatchGood
<1>8. CASE BeginAccept
  <2>1. /\ pc = "events" /\ pc' = "accepting" /\ batch # << >> /\ Head(batch) = Listener
        /\ UNCHANGED <<peer, inbound, fdTable, interest, ready, batch>>
    BY <1>8 DEF BeginAccept, netVars, clientVars, streamVars, kernelVars
  <2>2. \A fd : fd # Listener /\ Readable(fd) => Readable(fd)'
    BY <2>1 DEF Readable
  <2>. QED
    BY <2>1, <2>2 DEF EventTypes, BatchGood
<1>9. CASE AcceptOne
  <2>. DEFINE fd == LowestFd
              c == Head(backlog)
  <2>1. fd \in Fds /\ fdTable[fd] = NoConn
    BY <1>9, LowestIsFree DEF AcceptOne, FreeFds
  <2>2. /\ pc = "accepting"
        /\ fdTable' = [fdTable EXCEPT ![fd] = c]
        /\ interest' = interest \cup {fd}
        /\ ready' = WithEdge(ready, {fd}) \/ ready' = ready
        /\ UNCHANGED <<peer, inbound, pc, batch>>
    BY <1>9 DEF AcceptOne, clientVars, streamVars
  <2>. HIDE DEF fd, c
  <2>3. IsFiniteSet({fd}) /\ {fd} \subseteq Fds \cup {Listener}
    BY <2>1, FS_Singleton
  <2>4. EventTypes'
    BY <2>2, <2>3, EdgeAdds DEF EventTypes
  <2>5. ASSUME NEW k \in interest, k # Listener, Readable(k) PROVE Readable(k)'
    <3>1. k \in Fds /\ k # fd
      BY <2>1, OneDescriptor
    <3>. QED
      BY <2>2, <2>5, <3>1, StaysReadable DEF TablesInv, TablesTypes
  <2>6. BatchGood'
    BY <2>2, <2>5 DEF BatchGood
  <2>. QED
    BY <2>4, <2>6
<1>10. CASE AcceptDone
  <2>1. /\ pc = "accepting" /\ pc' = "events" /\ NextEvent
        /\ UNCHANGED <<peer, inbound, fdTable, interest, ready>>
    BY <1>10 DEF AcceptDone, netVars, clientVars, streamVars, kernelVars
  <2>2. batch # << >> /\ Head(batch) = Listener
    BY <2>1 DEF BatchGood
  <2>3. EventTypes'
    BY <2>1, <2>2, Handling DEF EventTypes
  <2>4. \A fd \in Range(batch') : fd \in Range(batch) /\ fd # Listener
    BY <2>1, <2>2, Handling
  <2>5. \A fd : fd # Listener /\ Readable(fd) => Readable(fd)'
    BY <2>1 DEF Readable
  <2>6. BatchGood'
    BY <2>1, <2>4, <2>5 DEF BatchGood
  <2>. QED
    BY <2>3, <2>6
<1>11. ASSUME NEW fd \in Fds, ReadData(fd) PROVE EventsInv'
  <2>1. /\ pc = "events" /\ batch # << >> /\ Head(batch) = fd /\ NextEvent
        /\ pc' = "dead" \/ pc' = pc
        /\ UNCHANGED <<peer, backlog, fdTable, interest, ready>>
    BY <1>11 DEF ReadData, Reading, clientVars, kernelVars
  <2>2. /\ fd \in interest
        /\ inbound' \in [Conns -> Seq(Stream)]
        /\ \A c \in Conns : c # fdTable[fd] => inbound'[c] = inbound[c]
    BY <1>11, Receiving
  <2>3. EventTypes'
    BY <2>1, <2>2, Handling DEF EventTypes
  <2>4. \A k \in Range(batch') : k \in Range(batch) /\ k # fd
    BY <2>1, Handling
  <2>5. ASSUME NEW k \in interest, k # Listener, k # fd, Readable(k) PROVE Readable(k)'
    <3>1. fdTable[k] \in Conns /\ fdTable[k] # fdTable[fd]
      BY <2>2, <2>5, OneDescriptor
    <3>. QED
      BY <2>1, <2>2, <2>5, <3>1, StaysReadable
  <2>6. BatchGood'
    BY <2>1, <2>4, <2>5 DEF BatchGood
  <2>. QED
    BY <2>3, <2>6
<1>12. ASSUME NEW fd \in Fds, ReadEnd(fd) PROVE EventsInv'
  <2>1. /\ pc = "events" /\ batch # << >> /\ Head(batch) = fd /\ NextEvent
        /\ interest' = interest \ {fd}
        /\ ready' = Without(ready, fd)
        /\ fdTable' = [fdTable EXCEPT ![fd] = NoConn]
        /\ UNCHANGED <<peer, inbound, backlog, pc>>
    BY <1>12 DEF ReadEnd, Reading, CloseConnection, clientVars, streamVars
  <2>2. EventTypes'
    BY <2>1, Handling, Deleted DEF EventTypes
  <2>3. \A k \in Range(batch') : k \in Range(batch) /\ k # fd
    BY <2>1, Handling
  <2>4. ASSUME NEW k \in interest, k # Listener, k # fd, Readable(k) PROVE Readable(k)'
    BY <2>1, <2>4, OneDescriptor, StaysReadable DEF TablesInv, TablesTypes
  <2>5. BatchGood'
    BY <2>1, <2>3, <2>4 DEF BatchGood
  <2>. QED
    BY <2>2, <2>5
<1>13. ASSUME NEW fd \in Fds, ReadError(fd) PROVE EventsInv'
  <2>1. pc' = "dead" /\ UNCHANGED <<inbound, ready, batch>>
    BY <1>13 DEF ReadError, netVars, streamVars, kernelVars
  <2>. QED
    BY <2>1 DEF EventTypes, BatchGood
<1>14. CASE UNCHANGED vars
  <2>1. UNCHANGED <<peer, inbound, backlog, fdTable, interest, ready, pc, batch>>
    BY <1>14 DEF vars, netVars, clientVars, streamVars, kernelVars, serverVars
  <2>. QED
    BY <1>1, <2>1 DEF EventTypes
<1>. QED
  BY <1>2, <1>3, <1>4, <1>5, <1>6, <1>7, <1>8, <1>9, <1>10, <1>11, <1>12, <1>13, <1>14
     DEF Next, ServerNext, ClientNext

LEMMA EventsInvariant == Spec => []EventsInv
BY TablesInvariant, EventsInit, EventsStep, PTL DEF Spec

\* Every event that waits while the batch is worked off can still be handled when its turn
\* comes: its descriptor is open, in the epoll set and readable, whatever the accepts and
\* closes before it did (tcp_server.cpp:193-214).
THEOREM EventsCorrect == Spec => []EventsAreGood
<1>1. ASSUME TablesInv, EventsInv PROVE EventsAreGood
  <2>1. \A i \in DOMAIN batch : batch[i] \in Range(batch)
    BY DEF Range
  <2>2. Readable(Listener) <=> backlog # << >>
    BY DEF Readable
  <2>. QED
    BY <1>1, <2>1, <2>2 DEF EventsInv, EventTypes, BatchGood, EventsAreGood
<1>. QED
  BY <1>1, TablesInvariant, EventsInvariant, PTL

-----------------------------------------------------------------------------
(* Nothing is forgotten. *)

\* What happens to the edges: a step takes none away that can still be read.
Announced == Range(ready) \cup Range(batch)

LEMMA EdgesKept ==
  ASSUME TablesInv, EventsInv, [Next]_vars, NEW fd \in Announced, Readable(fd)
  PROVE  \/ fd \in Announced'
         \/ fd = Listener /\ AcceptDone
         \/ fd \in Fds /\ (ReadData(fd) \/ ReadEnd(fd))
<1>. USE DEF EventsInv
<1>1. CASE \E c \in Conns : Connect(c) /\ UNCHANGED serverVars
  <2>1. ready' = WithEdge(ready, {Listener}) /\ batch' = batch
    BY <1>1 DEF Connect, serverVars
  <2>2. IsFiniteSet({Listener})
    BY FS_Singleton
  <2>3. Range(ready') = Range(ready) \cup {Listener}
    BY <2>1, <2>2, EdgeAdds DEF EventTypes
  <2>. QED
    BY <2>1, <2>3 DEF Announced
<1>2. ASSUME NEW c \in Conns,
             ClientClose(c) \/ RstArrives(c) \/ \E r \in Requests : SendRequest(c, r),
             UNCHANGED serverVars
      PROVE  fd \in Announced'
  <2>1. ready' = WithEdge(ready, FdsOf(c)) /\ batch' = batch
    BY <1>2 DEF ClientClose, RstArrives, SendRequest, serverVars
  <2>2. Range(ready') = Range(ready) \cup FdsOf(c)
    BY <2>1, EdgeTypes
  <2>. QED
    BY <2>1, <2>2 DEF Announced
<1>3. CASE UNCHANGED <<ready, batch>>
  BY <1>3 DEF Announced
<1>4. CASE EpollWait
  <2>1. batch = << >>
    BY <1>4 DEF EpollWait, BatchGood
  <2>2. fd \in Range(ready)
    BY <2>1 DEF Announced, Range
  <2>. QED
    BY <1>4, <2>2, Reported DEF Announced
<1>5. CASE AcceptOne
  <2>1. LowestFd \in Fds
    BY <1>5, LowestIsFree DEF AcceptOne, FreeFds
  <2>2. IsFiniteSet({LowestFd}) /\ {LowestFd} \subseteq Fds \cup {Listener}
    BY <2>1, FS_Singleton
  <2>3. Range(WithEdge(ready, {LowestFd})) = Range(ready) \cup {LowestFd}
    BY <2>2, EdgeAdds DEF EventTypes
  <2>4. batch' = batch /\ (ready' = ready \/ ready' = WithEdge(ready, {LowestFd}))
    BY <1>5 DEF AcceptOne
  <2>. QED
    BY <2>3, <2>4 DEF Announced
<1>6. CASE AcceptDone
  <2>1. batch # << >> /\ Head(batch) = Listener /\ NextEvent /\ ready' = ready
    BY <1>6 DEF AcceptDone, BatchGood, netVars, kernelVars
  <2>. QED
    BY <1>6, <2>1, Handling DEF Announced
<1>7. ASSUME NEW k \in Fds, ReadData(k) \/ ReadEnd(k), fd # k PROVE fd \in Announced'
  <2>1. /\ batch # << >> /\ Head(batch) = k /\ NextEvent
        /\ ready' = ready \/ ready' = Without(ready, k)
    BY <1>7 DEF ReadData, ReadEnd, Reading, CloseConnection, kernelVars
  <2>2. fd \in Range(batch) => fd \in Range(batch')
    BY <1>7, <2>1, Handling
  <2>3. fd \in Range(ready) => fd \in Range(ready')
    BY <1>7, <2>1, Deleted
  <2>. QED
    BY <2>2, <2>3 DEF Announced
<1>8. (\E c \in Conns : ClientRecv(c) /\ UNCHANGED serverVars) \/ BatchDone \/ BeginAccept
      \/ (\E k \in Fds : ReadError(k)) \/ UNCHANGED vars => UNCHANGED <<ready, batch>>
  BY DEF ClientRecv, BatchDone, BeginAccept, ReadError, vars, netVars, kernelVars, serverVars
<1>. QED
  BY <1>1, <1>2, <1>3, <1>4, <1>5, <1>6, <1>7, <1>8 DEF Next, ServerNext, ClientNext

\* With a descriptor for every connection, accept never fails while somebody waits.
LEMMA DescriptorsSuffice ==
  ASSUME IsFiniteSet(Conns), Cardinality(Conns) <= MaxFd, TablesInv, FreeFds = {}
  PROVE  backlog = << >>
<1>1. \A fd \in Fds : fd \in interest
  BY OneDescriptor DEF FreeFds
<1>2. /\ fdTable \in [Fds -> Conns]
      /\ \A fd, k \in Fds : fdTable[fd] = fdTable[k] => fd = k
  BY <1>1, OneDescriptor DEF TablesInv, TablesTypes
<1>3. fdTable \in Injection(Fds, Conns)
  BY <1>2, Fun_IsInj
<1>4. MaxFd \in Nat /\ Cardinality(Fds) = MaxFd
  BY SocketsAssumption, FS_Interval DEF Fds
<1>5. Cardinality(Fds) = Cardinality(Conns)
  BY <1>3, <1>4, FS_Injection, FS_CardinalityType
<1>6. fdTable \in Surjection(Fds, Conns)
  BY <1>3, <1>5, FS_Injection
<1>7. ASSUME NEW c \in Conns PROVE c \notin Range(backlog)
  <2>1. PICK fd \in Fds : fdTable[fd] = c
    BY <1>6 DEF Surjection
  <2>2. sock_fd[c] = fd /\ fd # 0
    BY <1>1, <2>1, OneDescriptor
  <2>. QED
    BY <2>2 DEF TablesInv, BacklogWaits
<1>. QED
  BY <1>7, FirstAndRest DEF TablesInv, TablesTypes

LEMMA NoConnectStep ==
  ASSUME IsFiniteSet(Conns), Cardinality(Conns) <= MaxFd,
         TablesInv, EventsInv, NoConnectForgotten, [Next]_vars
  PROVE  NoConnectForgotten'
<1>1. ASSUME NEW c \in Conns, Connect(c) PROVE Listener \in Announced'
  <2>1. ready' = WithEdge(ready, {Listener}) /\ IsFiniteSet({Listener})
    BY <1>1, FS_Singleton DEF Connect
  <2>2. Range(ready') = Range(ready) \cup {Listener}
    BY <2>1, EdgeAdds DEF EventsInv, EventTypes
  <2>. QED
    BY <2>2 DEF Announced
<1>2. CASE AcceptDone
  <2>1. backlog' = backlog /\ backlog = << >>
    BY <1>2, DescriptorsSuffice DEF AcceptDone, netVars, kernelVars
  <2>. QED
    BY <2>1 DEF NoConnectForgotten
<1>3. CASE AcceptOne
  BY <1>3 DEF AcceptOne, NoConnectForgotten
<1>4. ASSUME backlog' = backlog, ~AcceptDone,
             pc \in {"accepting", "dead"} => pc' \in {"accepting", "dead"}
      PROVE  NoConnectForgotten'
  <2>1. CASE backlog # << >> /\ Listener \in Announced
    <3>1. Readable(Listener) /\ Listener \notin Fds
      BY <2>1, OneDescriptor DEF Readable, Listener
    <3>2. Listener \in Announced'
      BY <1>4, <2>1, <3>1, EdgesKept
    <3>. QED
      BY <3>2 DEF NoConnectForgotten, Announced
  <2>. QED
    BY <1>4, <2>1 DEF NoConnectForgotten, Announced
<1>5. ASSUME NEW c \in Conns,
             \/ ClientRecv(c) \/ ClientClose(c) \/ RstArrives(c)
             \/ \E r \in Requests : SendRequest(c, r),
             UNCHANGED serverVars
      PROVE  backlog' = backlog /\ pc' = pc
  BY <1>5 DEF ClientRecv, ClientClose, RstArrives, SendRequest, serverVars, kernelVars
<1>6. ASSUME EpollWait \/ BatchDone \/ BeginAccept \/ UNCHANGED vars
      PROVE  /\ backlog' = backlog
             /\ pc' = pc \/ pc \notin {"accepting", "dead"}
  BY <1>6 DEF EpollWait, BatchDone, BeginAccept, vars, netVars, kernelVars, serverVars
<1>7. ASSUME NEW fd \in Fds, ReadData(fd) \/ ReadEnd(fd) \/ ReadError(fd)
      PROVE  backlog' = backlog /\ pc \notin {"accepting", "dead"}
  BY <1>7 DEF ReadData, ReadEnd, ReadError, Reading, netVars, kernelVars
<1>. QED
  BY <1>1, <1>2, <1>3, <1>4, <1>5, <1>6, <1>7
     DEF Next, ServerNext, ClientNext, NoConnectForgotten, Announced

\* As long as the process has a descriptor for every connection, nobody is left behind in
\* the backlog: its edge is in the ready list, in the batch, or the accept loop is at work
\* (tcp_server.cpp:91-112).  With fewer descriptors accept fails at line 110 and the edge of
\* those who wait is gone.
THEOREM NoConnectCorrect ==
  ASSUME IsFiniteSet(Conns), Cardinality(Conns) <= MaxFd
  PROVE  Spec => []NoConnectForgotten
<1>1. Init => NoConnectForgotten
  BY DEF Init, NetInit, NoConnectForgotten
<1>2. TablesInv /\ EventsInv /\ NoConnectForgotten /\ [Next]_vars => NoConnectForgotten'
  BY NoConnectStep
<1>. QED
  BY <1>1, <1>2, TablesInvariant, EventsInvariant, PTL DEF Spec

-----------------------------------------------------------------------------

\* What waits in each stream fits into the buffer of one recv.
Fits == \A c \in Conns : Len(inbound[c]) <= RecvCap

\* Then one recv empties the stream.
LEMMA OneRecvSuffices ==
  ASSUME EventTypes, Fits, NEW fd \in Fds, fdTable[fd] \in Conns, ReadData(fd)
  PROVE  inbound'[fdTable[fd]] = << >>
<1>. DEFINE k == fdTable[fd]
            m == Len(inbound[k])
<1>1. inbound[k] \in Seq(Stream) /\ m \in Nat /\ m <= RecvCap
  BY DEF EventTypes, Fits
<1>2. Least(m, RecvCap) = m
  BY <1>1, ServerAssumption DEF Least
<1>3. Received(k) = inbound[k]
  BY <1>1, <1>2, SubSeqFull DEF Received
<1>4. inbound'[k] = SubSeq(inbound[k], m + 1, m)
  BY <1>3 DEF ReadData, EventTypes
<1>. QED
  BY <1>1, <1>4, SubSeqEmpty

LEMMA NoDataStep ==
  ASSUME TablesInv, EventsInv, Fits, NoDataForgotten, [Next]_vars, TablesInv'
  PROVE  NoDataForgotten'
<1>. USE DEF EventsInv
<1>. SUFFICES ASSUME NEW fd \in interest', inbound'[fdTable'[fd]] # << >>
              PROVE  fd \in Announced'
  BY DEF NoDataForgotten, Announced
<1>1. Listener \notin Fds
  BY OneDescriptor DEF Listener
<1>2. ASSUME fd \in interest, fdTable'[fd] = fdTable[fd],
             inbound'[fdTable[fd]] = inbound[fdTable[fd]],
             ~ReadData(fd), ~ReadEnd(fd)
      PROVE  fd \in Announced'
  <2>1. fd # Listener /\ Readable(fd)
    BY <1>1, <1>2, OneDescriptor, SocketsAssumption DEF Readable
  <2>2. fd \in Announced
    BY <1>2 DEF NoDataForgotten, Announced
  <2>. QED
    BY <1>2, <2>1, <2>2, EdgesKept
<1>3. ASSUME NEW c \in Conns, NEW r \in Requests, SendRequest(c, r), UNCHANGED serverVars
      PROVE  fd \in Announced'
  <2>1. /\ inbound' = [inbound EXCEPT ![c] = @ \o Fragments(r)]
        /\ ready' = WithEdge(ready, FdsOf(c))
        /\ UNCHANGED <<fdTable, interest, batch>>
    BY <1>3 DEF SendRequest, serverVars
  <2>2. Range(ready') = Range(ready) \cup FdsOf(c)
    BY <2>1, EdgeTypes
  <2>3. CASE fdTable[fd] = c
    BY <2>1, <2>2, <2>3 DEF FdsOf, Announced
  <2>4. CASE fdTable[fd] # c
    <3>1. fd \in interest /\ fdTable[fd] \in Conns
      BY <2>1, OneDescriptor
    <3>2. inbound[fdTable[fd]] # << >>
      BY <2>1, <2>4, <3>1 DEF EventTypes
    <3>. QED
      BY <2>1, <2>2, <3>1, <3>2 DEF NoDataForgotten, Announced
  <2>. QED
    BY <2>3, <2>4
<1>4. CASE AcceptOne
  <2>. DEFINE k == LowestFd
              c == Head(backlog)
  <2>1. k \in Fds /\ fdTable[k] = NoConn /\ IsFiniteSet({k})
    BY <1>4, LowestIsFree, FS_Singleton DEF AcceptOne, FreeFds
  <2>2. /\ fdTable' = [fdTable EXCEPT ![k] = c]
        /\ interest' = interest \cup {k}
        /\ ready' = IF inbound[c] # << >> \/ peer[c] = "closed" THEN WithEdge(ready, {k}) ELSE ready
        /\ UNCHANGED inbound
    BY <1>4 DEF AcceptOne, streamVars
  <2>3. Range(WithEdge(ready, {k})) = Range(ready) \cup {k}
    BY <2>1, EdgeAdds DEF EventTypes
  <2>4. ~\E j \in Fds : ReadData(j) \/ ReadEnd(j)
    BY <1>4 DEF AcceptOne, ReadData, ReadEnd, Reading
  <2>. HIDE DEF k, c
  <2>5. CASE fd = k
    BY <2>1, <2>2, <2>3, <2>5 DEF Announced, TablesInv, TablesTypes
  <2>6. CASE fd # k
    <3>1. fd \in interest /\ fd \in Fds
      BY <2>2, <2>6, OneDescriptor
    <3>2. fdTable'[fd] = fdTable[fd]
      BY <2>2, <2>6, <3>1 DEF TablesInv, TablesTypes
    <3>. QED
      BY <1>2, <2>2, <2>4, <3>1, <3>2
  <2>. QED
    BY <2>5, <2>6
<1>5. ASSUME NEW k \in Fds, ReadData(k) PROVE fd \in Announced'
  <2>1. fdTable' = fdTable /\ interest' = interest
    BY <1>5 DEF ReadData, kernelVars
  <2>2. /\ k \in interest
        /\ \A c \in Conns : c # fdTable[k] => inbound'[c] = inbound[c]
    BY <1>5, Receiving
  <2>3. fdTable[k] \in Conns /\ fdTable[fd] \in Conns /\ fd \in Fds
    BY <2>1, <2>2, OneDescriptor
  <2>4. fd # k
    BY <1>5, <2>1, <2>3, OneRecvSuffices
  <2>5. ~ReadData(fd) /\ ~ReadEnd(fd)
    BY <1>5, <2>4 DEF ReadData, ReadEnd, Reading
  <2>6. inbound'[fdTable[fd]] = inbound[fdTable[fd]]
    BY <2>1, <2>2, <2>3, <2>4, OneDescriptor
  <2>. QED
    BY <1>2, <2>1, <2>5, <2>6
<1>6. ASSUME NEW k \in Fds, ReadEnd(k) PROVE fd \in Announced'
  <2>1. /\ interest' = interest \ {k}
        /\ fdTable' = [fdTable EXCEPT ![k] = NoConn]
        /\ UNCHANGED inbound
    BY <1>6 DEF ReadEnd, CloseConnection, streamVars
  <2>2. fd \in interest /\ fd # k /\ fdTable'[fd] = fdTable[fd]
    BY <2>1, OneDescriptor DEF TablesInv, TablesTypes
  <2>3. ~ReadData(fd) /\ ~ReadEnd(fd)
    BY <1>6, <2>2 DEF ReadData, ReadEnd, Reading
  <2>. QED
    BY <1>2, <2>1, <2>2, <2>3
\* The other steps leave the streams and the tables, and read nothing.
<1>7. ASSUME UNCHANGED <<inbound, fdTable, interest>>, ~\E k \in Fds : ReadData(k) \/ ReadEnd(k)
      PROVE  fd \in Announced'
  BY <1>2, <1>7, OneDescriptor
<1>8. ASSUME NEW c \in Conns, Connect(c) \/ ClientRecv(c) \/ ClientClose(c) \/ RstArrives(c)
      PROVE  UNCHANGED <<inbound, fdTable, interest>>
  BY <1>8 DEF Connect, ClientRecv, ClientClose, RstArrives, streamVars, kernelVars
<1>9. ASSUME EpollWait \/ BatchDone \/ BeginAccept \/ AcceptDone \/ UNCHANGED vars
             \/ \E k \in Fds : ReadError(k)
      PROVE  UNCHANGED <<inbound, fdTable, interest>>
  BY <1>9 DEF EpollWait, BatchDone, BeginAccept, AcceptDone, ReadError, vars, netVars, streamVars,
              kernelVars
<1>. QED
  BY <1>3, <1>4, <1>5, <1>6, <1>7, <1>8, <1>9 DEF Next, ServerNext, ClientNext

\* As long as what waits in a socket fits into the buffer of one recv, no request is left
\* unread on an edge-triggered descriptor that no edge announces, although handle_read calls
\* recv once (tcp_server.cpp:150-161).
THEOREM NoDataCorrect == Spec /\ []Fits => []NoDataForgotten
<1>1. Init => NoDataForgotten
  BY DEF Init, NetInit, NoDataForgotten
<1>2. TablesInv /\ TablesInv' /\ EventsInv /\ Fits /\ NoDataForgotten /\ [Next]_vars => NoDataForgotten'
  BY NoDataStep
<1>. QED
  BY <1>1, <1>2, TablesInvariant, EventsInvariant, PTL DEF Spec

\* It fits when a recv takes all that the clients ever send, as in the runs: what they can
\* still send is counted with what waits.
StillToSend == Parts * (MaxSends - sends)

FitsInv ==
  /\ sends \in 0 .. MaxSends
  /\ \A c \in Conns : Len(inbound[c]) + StillToSend <= RecvCap

LEMMA SendingCounts ==
  ASSUME sends \in 0 .. MaxSends
  PROVE  /\ StillToSend \in Nat
         /\ sends < MaxSends /\ sends' = sends + 1 => StillToSend' = StillToSend - Parts
<1>1. Parts \in Nat /\ MaxSends - sends \in Nat
  BY SocketsAssumption
<1>2. StillToSend \in Nat
  BY <1>1 DEF StillToSend
<1>3. ASSUME sends < MaxSends, sends' = sends + 1 PROVE StillToSend' = StillToSend - Parts
  <2>1. MaxSends - sends' = (MaxSends - sends) - 1
    BY <1>3, SocketsAssumption
  <2>. DEFINE n == MaxSends - sends
  <2>. HIDE DEF n
  <2>2. n \in Nat /\ StillToSend = Parts * n /\ StillToSend' = Parts * (n - 1)
    BY <1>1, <2>1 DEF StillToSend, n
  <2>. QED
    BY <1>1, <2>2
<1>. QED
  BY <1>2, <1>3

LEMMA FitsStep ==
  ASSUME TablesInv, EventsInv, FitsInv, [Next]_vars
  PROVE  FitsInv'
<1>. USE DEF EventsInv
<1>1. /\ Parts \in Nat /\ MaxSends \in Nat /\ RecvCap \in Nat /\ sends \in 0 .. MaxSends
      /\ StillToSend \in Nat
      /\ \A c \in Conns : inbound[c] \in Seq(Stream) /\ Len(inbound[c]) \in Nat
  BY SocketsAssumption, ServerAssumption, SendingCounts DEF EventTypes, FitsInv
<1>2. ASSUME sends' = sends, \A c \in Conns : Len(inbound'[c]) \in Nat /\ Len(inbound'[c]) <= Len(inbound[c])
      PROVE  FitsInv'
  <2>1. StillToSend' = StillToSend
    BY <1>2 DEF StillToSend
  <2>. QED
    BY <1>1, <1>2, <2>1 DEF FitsInv
<1>3. ASSUME NEW c \in Conns, NEW r \in Requests, SendRequest(c, r) PROVE FitsInv'
  <2>1. /\ inbound' = [inbound EXCEPT ![c] = @ \o Fragments(r)]
        /\ sends < MaxSends /\ sends' = sends + 1
    BY <1>3 DEF SendRequest
  <2>2. Len(inbound[c] \o Fragments(r)) = Len(inbound[c]) + Parts
    <3>1. /\ inbound[c] \in Seq(Stream)
          /\ Fragments(r) \in Seq(Stream) /\ Len(Fragments(r)) = Parts
      BY <1>1, FragmentTypes
    <3>. QED
      BY <3>1, ConcatProperties
  <2>3. StillToSend' = StillToSend - Parts
    BY <1>1, <2>1, SendingCounts
  <2>4. ASSUME NEW d \in Conns PROVE Len(inbound'[d]) + StillToSend' <= RecvCap
    <3>1. Len(inbound'[d]) = IF d = c THEN Len(inbound[c]) + Parts ELSE Len(inbound[d])
      BY <2>1, <2>2 DEF EventTypes
    <3>2. /\ Len(inbound[d]) + StillToSend <= RecvCap /\ Len(inbound[c]) + StillToSend <= RecvCap
      BY DEF FitsInv
    <3>. QED
      BY <1>1, <2>3, <3>1, <3>2
  <2>5. sends' \in 0 .. MaxSends
    BY <1>1, <2>1
  <2>. QED
    BY <2>4, <2>5 DEF FitsInv
<1>4. ASSUME NEW fd \in Fds, ReadData(fd) PROVE FitsInv'
  <2>. DEFINE k == fdTable[fd]
              n == Len(Received(k))
  <2>1. k \in Conns /\ sends' = sends
    BY <1>4, Receiving, OneDescriptor DEF ReadData, clientVars
  <2>2. n \in Nat
    <3>1. Least(Len(inbound[k]), RecvCap) \in 0 .. Len(inbound[k])
      BY <1>1, <2>1 DEF Least
    <3>. QED
      BY <1>1, <2>1, <3>1, Halves DEF Received
  <2>3. inbound'[k] = SubSeq(inbound[k], n + 1, Len(inbound[k]))
    BY <1>4, <2>1 DEF ReadData, EventTypes
  <2>. HIDE DEF n
  <2>4. Len(inbound'[k]) \in Nat /\ Len(inbound'[k]) <= Len(inbound[k])
    BY <1>1, <2>1, <2>2, <2>3
  <2>5. \A c \in Conns : c # k => inbound'[c] = inbound[c]
    BY <1>4, Receiving
  <2>. QED
    BY <1>1, <1>2, <2>1, <2>4, <2>5
<1>5. ASSUME NEW c \in Conns, Connect(c) \/ ClientRecv(c) \/ ClientClose(c) \/ RstArrives(c)
      PROVE  sends' = sends /\ inbound' = inbound
  BY <1>5 DEF Connect, ClientRecv, ClientClose, RstArrives, clientVars, streamVars
<1>6. ASSUME EpollWait \/ BatchDone \/ BeginAccept \/ AcceptOne \/ AcceptDone \/ UNCHANGED vars
             \/ \E fd \in Fds : ReadEnd(fd) \/ ReadError(fd)
      PROVE  sends' = sends /\ inbound' = inbound
  BY <1>6 DEF EpollWait, BatchDone, BeginAccept, AcceptOne, AcceptDone, ReadEnd, ReadError, vars,
              netVars, clientVars, streamVars
<1>7. sends' = sends /\ inbound' = inbound => FitsInv'
  BY <1>1, <1>2
<1>. QED
  BY <1>3, <1>4, <1>5, <1>6, <1>7 DEF Next, ServerNext, ClientNext

\* NoDataCorrect for the case the runs check: the requests of all clients fit into the
\* buffer of one recv.
THEOREM NoDataOfFew ==
  ASSUME Parts * MaxSends <= RecvCap
  PROVE  Spec => []NoDataForgotten
<1>1. Init => FitsInv
  <2>. SUFFICES ASSUME Init PROVE FitsInv
    OBVIOUS
  <2>1. sends = 0 /\ \A c \in Conns : Len(inbound[c]) = 0
    BY DEF Init, NetInit
  <2>2. StillToSend \in Nat /\ StillToSend <= RecvCap /\ MaxSends \in Nat
    BY <2>1, SocketsAssumption, SendingCounts DEF StillToSend
  <2>. QED
    BY <2>1, <2>2 DEF FitsInv
<1>2. TablesInv /\ EventsInv /\ FitsInv /\ [Next]_vars => FitsInv'
  BY FitsStep
<1>3. ASSUME EventsInv, FitsInv PROVE Fits
  <2>1. StillToSend \in Nat /\ RecvCap \in Nat /\ \A c \in Conns : Len(inbound[c]) \in Nat
    BY <1>3, ServerAssumption, SendingCounts DEF FitsInv, EventsInv, EventTypes
  <2>. QED
    BY <1>3, <2>1 DEF FitsInv, Fits
<1>. QED
  BY <1>1, <1>2, <1>3, TablesInvariant, EventsInvariant, NoDataCorrect, PTL DEF Spec

-----------------------------------------------------------------------------
(* Types. *)

Packets == Publications \cup Errors
Faults == {"none", "poked", "pipe", "reset"}

OutTypes ==
  /\ fault \in [Conns -> Faults]
  /\ outbound \in [Conns -> Seq(Packets)]
  /\ taken \in [Conns -> Nat] /\ \A c \in Conns : taken[c] <= Len(outbound[c])

BrokerTypes ==
  /\ subscribers \in [Topics -> Seq(Conns)]
  /\ tasks \in Seq(Publications)

\* Max of the community modules, of numbers that have a bound.
LEMMA Largest ==
  ASSUME NEW n \in Nat, NEW N, N \subseteq 0 .. n, N # {}
  PROVE  Max(N) \in N /\ \A k \in N : k <= Max(N)
<1>. DEFINE T == {n - k : k \in N}
<1>1. \A k \in N : k \in Nat /\ n - k \in Nat
  OBVIOUS
<1>2. T \subseteq Nat /\ T # {}
  BY <1>1
<1>3. PICK x \in T : \A y \in T : ~(<<y, x>> \in OpToRel(<, Nat))
  BY <1>2, NatLessThanWellFounded, WFMin
<1>4. \A y \in T : ~(y < x)
  BY <1>2, <1>3 DEF OpToRel
<1>5. PICK m \in N : x = n - m
  OBVIOUS
<1>6. ASSUME NEW k \in N PROVE m >= k
  <2>1. ~(n - k < n - m)
    BY <1>4, <1>5
  <2>. QED
    BY <1>1, <2>1
<1>7. Max(N) \in N /\ \A k \in N : Max(N) >= k
  BY <1>6 DEF Max
<1>. QED
  BY <1>1, <1>7

\* The number of times a connection is behind the descriptors of a sequence.
LEMMA CopiesType ==
  ASSUME NEW S, NEW fds \in Seq(S), NEW c
  PROVE  Copies(fds, c) \in Nat
<1>1. IsFiniteSet(DOMAIN fds)
  BY FS_Interval
<1>2. IsFiniteSet({i \in DOMAIN fds : fdTable[fds[i]] = c})
  BY <1>1, FS_Subset
<1>. QED
  BY <1>2, FS_CardinalityType DEF Copies

LEMMA NoPipeWithoutSend == ~SigPipe(<< >>)
<1>1. \A c : Copies(<< >>, c) = 0
  BY FS_EmptySet DEF Copies
<1>. QED
  BY <1>1 DEF SigPipe

\* What send reaches is a front of the sequence; the whole if nothing raises SIGPIPE.
LEMMA ReachedFront ==
  ASSUME NEW S, NEW fds \in Seq(S)
  PROVE  /\ Reached(fds) \in Seq(S)
         /\ \E n \in 0 .. Len(fds) : Reached(fds) = SubSeq(fds, 1, n)
         /\ ~SigPipe(fds) => Reached(fds) = fds
<1>. DEFINE N == {n \in 0 .. Len(fds) : ~SigPipe(SubSeq(fds, 1, n))}
<1>1. Len(fds) \in Nat /\ N \subseteq 0 .. Len(fds)
  OBVIOUS
<1>2. 0 \in N
  <2>1. SubSeq(fds, 1, 0) = << >>
    BY SubSeqEmpty
  <2>2. ~SigPipe(SubSeq(fds, 1, 0))
    BY <2>1, NoPipeWithoutSend, Zenon
  <2>3. 0 \in 0 .. Len(fds)
    BY <1>1
  <2>. QED
    BY <2>2, <2>3, Zenon
<1>3. Max(N) \in N /\ \A k \in N : k <= Max(N)
  <2>1. N # {}
    BY <1>2
  <2>. HIDE DEF N
  <2>. QED
    BY <1>1, <2>1, Largest
<1>4. Reached(fds) = SubSeq(fds, 1, Max(N))
  BY DEF Reached
<1>5. Max(N) \in 0 .. Len(fds)
  BY <1>3
<1>6. Reached(fds) \in Seq(S)
  <2>. HIDE DEF N
  <2>. QED
    BY <1>4, <1>5, Halves
<1>7. ASSUME ~SigPipe(fds) PROVE Reached(fds) = fds
  <2>1. SubSeq(fds, 1, Len(fds)) = fds
    BY SubSeqFull
  <2>4. ~SigPipe(SubSeq(fds, 1, Len(fds)))
    BY <1>7, <2>1, Zenon
  <2>5. Len(fds) \in 0 .. Len(fds)
    BY <1>1
  <2>2. Len(fds) \in N
    BY <2>4, <2>5, Zenon
  <2>. HIDE DEF N
  <2>3. Max(N) = Len(fds)
    BY <1>1, <1>3, <1>5, <2>2
  <2>. QED
    BY <1>4, <2>1, <2>3
<1>. QED
  BY <1>4, <1>5, <1>6, <1>7

LEMMA RepeatType ==
  ASSUME NEW S, NEW p \in S, NEW n \in Int
  PROVE  Repeat(p, n) \in Seq(S) /\ Len(Repeat(p, n)) \in Nat
<1>1. CASE n \in Nat
  BY <1>1 DEF Repeat
<1>2. CASE n < 0
  <2>1. 1 .. n = 1 .. 0
    BY <1>2
  <2>2. Repeat(p, n) = [i \in 1 .. 0 |-> p]
    BY <2>1 DEF Repeat
  <2>. QED
    BY <2>2
<1>. QED
  BY <1>1, <1>2

LEMMA SendTypes ==
  ASSUME OutTypes, NEW S, NEW fds \in Seq(S), NEW p \in Packets, Send(fds, p), taken' = taken
  PROVE  OutTypes'
<1>. DEFINE sent(c) == Copies(Reached(fds), c)
            more(c) == Repeat(p, Least(sent(c), Room(c)))
<1>1. \A c \in Conns : sent(c) \in Nat
  BY ReachedFront, CopiesType
<1>2. \A c \in Conns : Len(outbound[c]) \in Nat /\ taken[c] \in Nat
  BY DEF OutTypes
<1>3. \A c \in Conns : Least(sent(c), Room(c)) \in Int
  <2>1. \A c \in Conns : Room(c) \in Int
    BY <1>2, SocketsAssumption DEF Room, Unread
  <2>. QED
    BY <1>1, <2>1 DEF Least
<1>4. \A c \in Conns : more(c) \in Seq(Packets) /\ Len(more(c)) \in Nat
  BY <1>3, RepeatType
<1>5. outbound' = [c \in Conns |-> IF peer[c] = "open" THEN outbound[c] \o more(c) ELSE outbound[c]]
  BY DEF Send
<1>6. fault' \in [Conns -> Faults]
  BY DEF Send, OutTypes, Faults
<1>. HIDE DEF more
<1>7. ASSUME NEW c \in Conns
      PROVE  outbound'[c] \in Seq(Packets) /\ Len(outbound[c]) <= Len(outbound'[c])
  <2>1. outbound[c] \in Seq(Packets) /\ more(c) \in Seq(Packets)
    BY <1>4 DEF OutTypes
  <2>2. /\ outbound[c] \o more(c) \in Seq(Packets)
        /\ Len(outbound[c] \o more(c)) = Len(outbound[c]) + Len(more(c))
    BY <2>1, ConcatProperties
  <2>. QED
    BY <1>2, <1>4, <1>5, <2>1, <2>2
<1>8. outbound' \in [Conns -> Seq(Packets)]
  BY <1>5, <1>7
<1>9. \A c \in Conns : taken'[c] <= Len(outbound'[c])
  <2>1. \A c \in Conns : Len(outbound'[c]) \in Nat
    BY <1>8
  <2>. QED
    BY <1>2, <1>7, <2>1 DEF OutTypes
<1>. QED
  BY <1>6, <1>8, <1>9 DEF OutTypes

\* A request is what its type says.
LEMMA RequestKinds ==
  ASSUME NEW r \in Requests
  PROVE  /\ r.type = "publish" => r \in Publications /\ r.topic \in Topics
         /\ r.type = "subscribe" => r \in Subscriptions /\ r.topic \in Topics
<1>1. \A s \in Subscriptions : s.type = "subscribe" /\ s.topic \in Topics
  BY DEF Subscriptions
<1>2. \A s \in Publications : s.type = "publish" /\ s.topic \in Topics
  BY DEF Publications
<1>. QED
  BY <1>1, <1>2 DEF Requests

\* The objects of a topic, and the descriptors they were made for.
LEMMA ObjectTypes ==
  ASSUME TablesTypes, NEW objects \in Seq(Conns)
  PROVE  /\ Live(objects) \in Seq(Conns)
         /\ Descriptors(objects) \in Seq(Fds \cup {0})
         /\ Len(Descriptors(objects)) = Len(objects)
         /\ \A i \in 1 .. Len(objects) : Descriptors(objects)[i] = sock_fd[objects[i]]
<1>1. Live(objects) \in Seq(Conns)
  <2>. DEFINE I == {i \in DOMAIN objects : Locks(objects[i])}
  <2>1. I \subseteq DOMAIN objects
    OBVIOUS
  <2>2. Live(objects) = Kept(objects, I)
    BY DEF Live
  <2>. HIDE DEF I
  <2>. QED
    BY <2>1, <2>2, KeptProperties
<1>2. Len(objects) \in Nat /\ DOMAIN objects = 1 .. Len(objects)
  OBVIOUS
<1>3. \A i \in 1 .. Len(objects) : sock_fd[objects[i]] \in Fds \cup {0}
  BY <1>2 DEF TablesTypes
<1>4. Descriptors(objects) = [i \in 1 .. Len(objects) |-> sock_fd[objects[i]]]
  BY <1>2 DEF Descriptors
<1>5. Descriptors(objects) \in [1 .. Len(objects) -> Fds \cup {0}]
  BY <1>3, <1>4
<1>. QED
  BY <1>1, <1>2, <1>4, <1>5, SeqDef

LEMMA HandlerTypes ==
  ASSUME OutTypes, BrokerTypes, TablesTypes, NEW c \in Conns, NEW chunk, HandleMessage(c, chunk),
         taken' = taken
  PROVE  OutTypes' /\ BrokerTypes'
<1>1. ASSUME NEW r \in Parsed(chunk), r.type = "publish", Publish(r) PROVE OutTypes' /\ BrokerTypes'
  <2>. DEFINE live == Live(subscribers[r.topic])
  <2>1. r \in Publications /\ r.topic \in Topics
    BY <1>1, RequestKinds DEF Parsed
  <2>2. live \in Seq(Conns) /\ Descriptors(live) \in Seq(Fds \cup {0})
    BY <2>1, ObjectTypes DEF BrokerTypes
  <2>3. /\ tasks' = (IF r.topic \in Handled THEN Append(tasks, r) ELSE tasks)
        /\ subscribers' = [subscribers EXCEPT ![r.topic] = live]
        /\ Send(Descriptors(live), r)
    BY <1>1 DEF Publish
  <2>. HIDE DEF live
  <2>4. OutTypes'
    BY <2>1, <2>2, <2>3, SendTypes DEF Packets
  <2>5. BrokerTypes'
    BY <2>1, <2>2, <2>3 DEF BrokerTypes
  <2>. QED
    BY <2>4, <2>5
<1>2. ASSUME NEW r \in Parsed(chunk), r.type = "subscribe", Subscribe(r, c)
      PROVE  OutTypes' /\ BrokerTypes'
  <2>1. r.topic \in Topics
    BY <1>2, RequestKinds DEF Parsed
  <2>2. /\ subscribers' = [subscribers EXCEPT ![r.topic] = Append(@, c)]
        /\ UNCHANGED <<tasks, outbound, fault>>
    BY <1>2 DEF Subscribe
  <2>. QED
    BY <2>1, <2>2 DEF OutTypes, BrokerTypes
<1>3. ASSUME Reject(c) PROVE OutTypes' /\ BrokerTypes'
  <2>1. [type |-> "error"] \in Packets
    BY DEF Packets, Errors
  <2>2. <<sock_fd[c]>> \in Seq({sock_fd[c]})
    OBVIOUS
  <2>3. OutTypes'
    BY <1>3, <2>1, <2>2, SendTypes DEF Reject
  <2>. QED
    BY <1>3, <2>3 DEF Reject, brokerVars, BrokerTypes
<1>. QED
  BY <1>1, <1>2, <1>3 DEF HandleMessage

TypesInv ==
  /\ OutTypes /\ BrokerTypes
  /\ sends \in 0 .. MaxSends
  /\ pc \in {"wait", "events", "accepting", "dead"}

LEMMA TypesInit == Init => TypesInv
<1>. SUFFICES ASSUME Init PROVE TypesInv
  OBVIOUS
<1>1. OutTypes
  BY DEF Init, NetInit, OutTypes, Faults
<1>2. BrokerTypes
  BY DEF Init, BrokerInit, BrokerTypes
<1>. QED
  BY <1>1, <1>2, SocketsAssumption DEF Init, NetInit, TypesInv

LEMMA TypesStep == TablesInv /\ TypesInv /\ [Next]_vars => TypesInv'
<1>. SUFFICES ASSUME TablesInv, TypesInv, [Next]_vars PROVE TypesInv'
  OBVIOUS
<1>. USE DEF TypesInv
<1>. DEFINE Rest == <<fault, outbound, taken, subscribers, tasks>>
<1>1. UNCHANGED Rest => OutTypes' /\ BrokerTypes'
  BY DEF OutTypes, BrokerTypes
<1>2. ASSUME NEW c \in Conns, Connect(c) \/ \E r \in Requests : SendRequest(c, r),
             UNCHANGED <<brokerVars, serverVars>>
      PROVE  TypesInv'
  <2>1. UNCHANGED Rest /\ UNCHANGED pc
    BY <1>2 DEF Connect, SendRequest, streamVars, brokerVars, serverVars
  <2>2. sends' = sends \/ (sends < MaxSends /\ sends' = sends + 1)
    BY <1>2 DEF Connect, SendRequest
  <2>3. sends' \in 0 .. MaxSends
    BY <2>2, SocketsAssumption
  <2>. QED
    BY <1>1, <2>1, <2>3
<1>3. ASSUME NEW c \in Conns, ClientRecv(c), UNCHANGED <<brokerVars, serverVars>> PROVE TypesInv'
  <2>1. /\ taken' = [taken EXCEPT ![c] = Len(outbound[c])]
        /\ UNCHANGED <<sends, fault, outbound, subscribers, tasks, pc>>
    BY <1>3 DEF ClientRecv, streamVars, brokerVars, serverVars
  <2>2. \A d \in Conns : Len(outbound[d]) \in Nat
    BY DEF OutTypes
  <2>3. OutTypes' /\ BrokerTypes'
    BY <2>1, <2>2 DEF OutTypes, BrokerTypes
  <2>. QED
    BY <2>1, <2>3
<1>4. ASSUME NEW c \in Conns, ClientClose(c) \/ RstArrives(c), UNCHANGED <<brokerVars, serverVars>>
      PROVE  TypesInv'
  <2>1. /\ \E v \in Faults : fault' = [fault EXCEPT ![c] = v]
        /\ UNCHANGED <<sends, outbound, taken, subscribers, tasks, pc>>
    BY <1>4 DEF ClientClose, RstArrives, clientVars, brokerVars, serverVars, OutTypes, Faults
  <2>2. OutTypes' /\ BrokerTypes'
    BY <2>1 DEF OutTypes, BrokerTypes
  <2>. QED
    BY <2>1, <2>2
<1>5. ASSUME EpollWait \/ BatchDone \/ BeginAccept \/ AcceptOne \/ AcceptDone \/ UNCHANGED vars
             \/ \E fd \in Fds : ReadEnd(fd) \/ ReadError(fd)
      PROVE  TypesInv'
  <2>1. /\ UNCHANGED Rest /\ UNCHANGED sends
        /\ pc' \in {"wait", "events", "accepting", "dead"}
    BY <1>5 DEF EpollWait, BatchDone, BeginAccept, AcceptOne, AcceptDone, ReadEnd, ReadError, vars,
                netVars, clientVars, streamVars, brokerVars, serverVars
  <2>. QED
    BY <1>1, <2>1
<1>6. ASSUME NEW fd \in Fds, ReadData(fd) PROVE TypesInv'
  <2>1. /\ connections[fd] \in Conns
        /\ HandleMessage(connections[fd], Received(fdTable[fd]))
        /\ UNCHANGED <<sends, taken>>
        /\ pc' = "dead" \/ pc' = pc
    BY <1>6 DEF ReadData, clientVars, TablesInv, TablesTypes, TablesAgree
  <2>2. OutTypes' /\ BrokerTypes'
    BY <2>1, HandlerTypes DEF TablesInv
  <2>. QED
    BY <2>1, <2>2
<1>. QED
  BY <1>2, <1>3, <1>4, <1>5, <1>6 DEF Next, ServerNext, ClientNext

LEMMA TypesInvariant == Spec => []TypesInv
BY TablesInvariant, TypesInit, TypesStep, PTL DEF Spec

\* The members of TcpServer and MessageBroker keep their types, and a client never reads
\* more than it was sent.
THEOREM TypesCorrect == Spec => []TypeOK
<1>1. ASSUME TablesInv, EventsInv, TypesInv PROVE TypeOK
  <2>1. /\ connections \in [Fds -> Conns \cup {NoConn}]
        /\ interest \subseteq Fds
    BY <1>1 DEF TablesInv, TablesTypes, TablesAgree
  <2>2. NetTypeOK
    BY <1>1, <2>1 DEF NetTypeOK, TablesInv, TablesTypes, EventsInv, EventTypes, TypesInv, OutTypes,
                      Stream, Faults, Packets
  <2>. QED
    BY <1>1, <2>1, <2>2 DEF TypeOK, TablesInv, TablesTypes, EventsInv, EventTypes, TypesInv,
                            BrokerTypes
<1>. QED
  BY <1>1, TablesInvariant, EventsInvariant, TypesInvariant, PTL

-----------------------------------------------------------------------------
(* The broker implements PubSub. *)

\* Only a client that left makes send fail.
FaultsOfClosed == \A c \in Conns : fault[c] # "none" => peer[c] = "closed"

\* Subscribe requests come from subscribers.
AskedBySubscribers ==
  \A c \in Conns : \A x \in Range(inbound[c]) : x.of.type = "subscribe" => c \in Subscribers

\* Who is on a list was accepted.
ListedSubscribers ==
  \A t \in Topics : \A c \in Range(subscribers[t]) : c \in Subscribers /\ sock_fd[c] # 0

\* An accepted client that did not leave still has its descriptor.
OpenIsServed ==
  \A c \in Conns : peer[c] = "open" /\ sock_fd[c] # 0
                     => sock_fd[c] \in interest /\ fdTable[sock_fd[c]] = c

SubscribersStay == \A c \in Subscribers : peer[c] # "closed"

ServedInv ==
  FaultsOfClosed /\ AskedBySubscribers /\ ListedSubscribers /\ OpenIsServed /\ SubscribersStay

\* A list of which nothing is dropped stays what it was.
LEMMA KeptWhole ==
  ASSUME NEW S, NEW list \in Seq(S)
  PROVE  Kept(list, DOMAIN list) = list
<1>. DEFINE n == Len(list)
<1>1. n \in Nat /\ DOMAIN list = 1 .. n
  OBVIOUS
<1>2. \A i \in 1 .. n : Rank(1 .. n, i) = i
  <2>. SUFFICES ASSUME NEW i \in 1 .. n PROVE Rank(1 .. n, i) = i
    OBVIOUS
  <2>1. {j \in 1 .. n : j <= i} = 1 .. i
    BY <1>1
  <2>2. Cardinality(1 .. i) = i
    BY <1>1, FS_Interval
  <2>. QED
    BY <2>1, <2>2 DEF Rank
<1>3. Cardinality(1 .. n) = n
  BY <1>1, FS_Interval
<1>4. ASSUME NEW m \in 1 .. n PROVE (CHOOSE i \in 1 .. n : Rank(1 .. n, i) = m) = m
  BY <1>2
<1>5. Kept(list, 1 .. n) = [m \in 1 .. n |-> list[CHOOSE i \in 1 .. n : Rank(1 .. n, i) = m]]
  BY <1>3 DEF Kept, Rank
<1>6. Kept(list, 1 .. n) = [m \in 1 .. n |-> list[m]]
  BY <1>4, <1>5
<1>7. list = [m \in 1 .. n |-> list[m]]
  OBVIOUS
<1>. QED
  BY <1>1, <1>6, <1>7

\* The members of what is kept were members before.
LEMMA LiveMembers ==
  ASSUME NEW objects \in Seq(Conns)
  PROVE  Range(Live(objects)) \subseteq Range(objects)
<1>. DEFINE I == {i \in DOMAIN objects : Locks(objects[i])}
<1>1. I \subseteq DOMAIN objects
  OBVIOUS
<1>2. Live(objects) = Kept(objects, I)
  BY DEF Live
<1>. HIDE DEF I
<1>3. \A n \in DOMAIN Live(objects) : \E i \in I : Live(objects)[n] = objects[i]
  BY <1>1, <1>2, KeptProperties
<1>. QED
  BY <1>1, <1>3 DEF Range

\* What recv returns and what it leaves.
LEMMA RecvSplits ==
  ASSUME EventTypes, TablesInv, NEW fd \in Fds, ReadData(fd)
  PROVE  LET k == fdTable[fd]
         IN  /\ k \in Conns /\ connections[fd] = k /\ fd \in interest /\ sock_fd[k] = fd
             /\ Range(Received(k)) \subseteq Range(inbound[k])
             /\ Range(inbound'[k]) \subseteq Range(inbound[k])
<1>. DEFINE k == fdTable[fd]
            m == Least(Len(inbound[k]), RecvCap)
            front == SubSeq(inbound[k], 1, m)
            rest == SubSeq(inbound[k], m + 1, Len(inbound[k]))
<1>1. k \in Conns /\ connections[fd] = k /\ fd \in interest /\ sock_fd[k] = fd
  BY Receiving, OneDescriptor
<1>2. inbound[k] \in Seq(Stream)
  BY <1>1 DEF EventTypes
<1>3. m \in 0 .. Len(inbound[k])
  BY <1>2, ServerAssumption DEF Least
<1>4. Received(k) = front
  BY DEF Received
<1>5. Len(front) = m
  BY <1>2, <1>3
<1>6. inbound'[k] = rest
  BY <1>1, <1>4, <1>5 DEF ReadData, EventTypes
<1>. HIDE DEF m, front, rest
<1>7. Range(inbound[k]) = Range(front) \cup Range(rest)
  BY <1>2, <1>3, Halves DEF front, rest
<1>. QED
  BY <1>1, <1>4, <1>6, <1>7

LEMMA ServedInit == Init => ServedInv
<1>. SUFFICES ASSUME Init PROVE ServedInv
  OBVIOUS
<1>1. Range(<< >>) = {}
  BY DEF Range
<1>2. FaultsOfClosed /\ OpenIsServed
  BY DEF Init, NetInit, BrokerInit, FaultsOfClosed, OpenIsServed
<1>3. AskedBySubscribers
  BY <1>1 DEF Init, NetInit, AskedBySubscribers
<1>4. ListedSubscribers
  BY <1>1 DEF Init, BrokerInit, ListedSubscribers
<1>5. SubscribersStay
  BY SocketsAssumption DEF Init, NetInit, SubscribersStay
<1>. QED
  BY <1>2, <1>3, <1>4, <1>5 DEF ServedInv

\* The handler puts only the sender of a subscribe request on a list, and pokes only
\* clients that left.
LEMMA HandlerServes ==
  ASSUME TablesInv, EventTypes, BrokerTypes, OutTypes, ServedInv, NEW fd \in Fds, ReadData(fd)
  PROVE  ListedSubscribers' /\ FaultsOfClosed'
<1>. DEFINE k == fdTable[fd]
            chunk == Received(k)
<1>1. /\ k \in Conns /\ connections[fd] = k /\ sock_fd[k] = fd /\ fd # 0
      /\ Range(chunk) \subseteq Range(inbound[k])
  BY RecvSplits, OneDescriptor
<1>2. HandleMessage(k, chunk) /\ peer' = peer /\ sock_fd' = sock_fd
  BY <1>1, HandlerKeepsObjects DEF ReadData, clientVars
<1>. HIDE DEF k, chunk
<1>3. ASSUME NEW fds, NEW p, Send(fds, p) PROVE FaultsOfClosed'
  BY <1>2, <1>3 DEF Send, FaultsOfClosed, ServedInv
<1>4. ASSUME NEW r \in Parsed(chunk), r.type = "publish", Publish(r)
      PROVE  ListedSubscribers' /\ FaultsOfClosed'
  <2>1. r.topic \in Topics
    BY <1>4, RequestKinds DEF Parsed
  <2>2. Range(Live(subscribers[r.topic])) \subseteq Range(subscribers[r.topic])
    BY <2>1, LiveMembers DEF BrokerTypes
  <2>3. subscribers' = [subscribers EXCEPT ![r.topic] = Live(subscribers[r.topic])]
    BY <1>4 DEF Publish
  <2>4. ListedSubscribers'
    BY <1>2, <2>2, <2>3 DEF ListedSubscribers, BrokerTypes, ServedInv
  <2>. QED
    BY <1>3, <1>4, <2>4 DEF Publish
<1>5. ASSUME NEW r \in Parsed(chunk), r.type = "subscribe", Subscribe(r, k)
      PROVE  ListedSubscribers' /\ FaultsOfClosed'
  <2>1. r.topic \in Topics /\ r \in Requests /\ chunk = Fragments(r)
    BY <1>5, RequestKinds DEF Parsed
  <2>2. 1 \in DOMAIN chunk /\ chunk[1].of = r
    BY <2>1, SocketsAssumption DEF Fragments
  <2>3. chunk[1] \in Range(chunk)
    BY <2>2 DEF Range
  <2>4. k \in Subscribers
    BY <1>1, <1>5, <2>2, <2>3 DEF AskedBySubscribers, ServedInv
  <2>5. /\ subscribers' = [subscribers EXCEPT ![r.topic] = Append(@, k)]
        /\ fault' = fault
    BY <1>5 DEF Subscribe
  <2>6. Range(Append(subscribers[r.topic], k)) = Range(subscribers[r.topic]) \cup {k}
    BY <1>1, <2>1, OneMore DEF BrokerTypes
  <2>7. ListedSubscribers'
    BY <1>1, <1>2, <2>1, <2>4, <2>5, <2>6 DEF ListedSubscribers, BrokerTypes, ServedInv
  <2>. QED
    BY <1>2, <2>5, <2>7 DEF FaultsOfClosed, ServedInv
<1>6. ASSUME Reject(k) PROVE ListedSubscribers' /\ FaultsOfClosed'
  <2>1. ListedSubscribers'
    BY <1>6 DEF Reject, brokerVars, ListedSubscribers, ServedInv
  <2>. QED
    BY <1>3, <1>6, <2>1 DEF Reject
<1>. QED
  BY <1>2, <1>4, <1>5, <1>6 DEF HandleMessage

LEMMA ServedStep ==
  ASSUME Subscribers \cap Leavers = {}, TablesInv, EventTypes, BrokerTypes, OutTypes, ServedInv,
         [Next]_vars
  PROVE  ServedInv'
<1>. USE DEF ServedInv
<1>. DEFINE Seen == <<peer, fault, inbound, subscribers, sock_fd, interest, fdTable>>
<1>1. ASSUME UNCHANGED Seen PROVE ServedInv'
  BY <1>1 DEF FaultsOfClosed, AskedBySubscribers, ListedSubscribers, OpenIsServed, SubscribersStay
<1>2. ASSUME NEW c \in Conns, Connect(c), UNCHANGED <<brokerVars, serverVars>> PROVE ServedInv'
  <2>1. /\ peer[c] = "none" /\ peer' = [peer EXCEPT ![c] = "open"] /\ sock_fd[c] = 0
        /\ UNCHANGED <<fault, inbound, subscribers, sock_fd, interest, fdTable>>
    BY <1>2 DEF Connect, streamVars, brokerVars, TablesInv, BacklogWaits
  <2>. QED
    BY <2>1, SocketsAssumption
       DEF FaultsOfClosed, AskedBySubscribers, ListedSubscribers, OpenIsServed, SubscribersStay,
           TablesInv, TablesTypes
<1>3. ASSUME NEW c \in Conns, NEW r \in Requests, SendRequest(c, r), UNCHANGED <<brokerVars, serverVars>>
      PROVE  ServedInv'
  <2>1. /\ inbound' = [inbound EXCEPT ![c] = @ \o Fragments(r)]
        /\ r.type = "subscribe" => c \in Subscribers
        /\ UNCHANGED <<peer, fault, subscribers, sock_fd, interest, fdTable>>
    BY <1>3 DEF SendRequest, brokerVars
  <2>2. Range(inbound[c] \o Fragments(r)) = Range(inbound[c]) \cup Range(Fragments(r))
    BY FragmentTypes, RangeConcatenation DEF EventTypes
  <2>3. \A x \in Range(Fragments(r)) : x.of = r
    BY DEF Range, Fragments
  <2>4. AskedBySubscribers'
    BY <2>1, <2>2, <2>3 DEF AskedBySubscribers, EventTypes
  <2>. QED
    BY <2>1, <2>4 DEF FaultsOfClosed, ListedSubscribers, OpenIsServed, SubscribersStay
<1>4. ASSUME NEW c \in Conns, ClientClose(c), UNCHANGED <<brokerVars, serverVars>> PROVE ServedInv'
  <2>1. /\ c \in Leavers /\ peer' = [peer EXCEPT ![c] = "closed"]
        /\ \A d \in Conns : d # c => fault'[d] = fault[d]
        /\ UNCHANGED <<inbound, subscribers, sock_fd, interest, fdTable>>
    BY <1>4 DEF ClientClose, brokerVars, OutTypes
  <2>. QED
    BY <2>1, SocketsAssumption
       DEF FaultsOfClosed, AskedBySubscribers, ListedSubscribers, OpenIsServed, SubscribersStay,
           TablesInv, TablesTypes
<1>5. ASSUME NEW c \in Conns, RstArrives(c), UNCHANGED <<brokerVars, serverVars>> PROVE ServedInv'
  <2>1. /\ fault[c] = "poked" /\ fault' = [fault EXCEPT ![c] = "pipe"]
        /\ UNCHANGED <<peer, inbound, subscribers, sock_fd, interest, fdTable>>
    BY <1>5 DEF RstArrives, clientVars, brokerVars
  <2>. QED
    BY <2>1 DEF FaultsOfClosed, AskedBySubscribers, ListedSubscribers, OpenIsServed,
                SubscribersStay, OutTypes
<1>6. CASE AcceptOne
  <2>. DEFINE fd == LowestFd
              c == Head(backlog)
  <2>1. fd \in Fds /\ fdTable[fd] = NoConn /\ fd # 0 /\ fd \notin interest
    BY <1>6, LowestIsFree, OneDescriptor DEF AcceptOne, FreeFds
  <2>2. c \in Conns
    BY <1>6, FirstAndRest DEF AcceptOne, TablesInv, TablesTypes
  <2>3. /\ fdTable' = [fdTable EXCEPT ![fd] = c]
        /\ sock_fd' = [sock_fd EXCEPT ![c] = fd]
        /\ interest' = interest \cup {fd}
        /\ UNCHANGED <<peer, fault, inbound, subscribers>>
    BY <1>6 DEF AcceptOne, clientVars, streamVars
  <2>. HIDE DEF fd, c
  <2>4. ListedSubscribers'
    BY <2>1, <2>2, <2>3, RangeOfSeq DEF ListedSubscribers, BrokerTypes, TablesInv, TablesTypes
  <2>5. OpenIsServed'
    <3>. SUFFICES ASSUME NEW d \in Conns, peer'[d] = "open", sock_fd'[d] # 0
                  PROVE  sock_fd'[d] \in interest' /\ fdTable'[sock_fd'[d]] = d
      BY DEF OpenIsServed
    <3>1. CASE d = c
      BY <2>1, <2>2, <2>3, <3>1 DEF TablesInv, TablesTypes
    <3>2. CASE d # c
      <4>1. sock_fd'[d] = sock_fd[d]
        BY <2>3, <3>2 DEF TablesInv, TablesTypes
      <4>2. sock_fd[d] \in interest /\ fdTable[sock_fd[d]] = d /\ sock_fd[d] \in Fds
        BY <2>3, <4>1, OneDescriptor DEF OpenIsServed
      <4>. QED
        BY <2>1, <2>3, <4>1, <4>2 DEF TablesInv, TablesTypes
    <3>. QED
      BY <3>1, <3>2
  <2>. QED
    BY <2>3, <2>4, <2>5 DEF FaultsOfClosed, AskedBySubscribers, SubscribersStay
<1>7. ASSUME NEW fd \in Fds, ReadData(fd) PROVE ServedInv'
  <2>1. UNCHANGED <<peer, sock_fd, interest, fdTable>>
    BY <1>7, HandlerKeepsObjects DEF ReadData, clientVars, kernelVars
  <2>2. ListedSubscribers' /\ FaultsOfClosed'
    BY <1>7, HandlerServes
  <2>3. /\ fdTable[fd] \in Conns
        /\ Range(inbound'[fdTable[fd]]) \subseteq Range(inbound[fdTable[fd]])
        /\ \A c \in Conns : c # fdTable[fd] => inbound'[c] = inbound[c]
    BY <1>7, RecvSplits, Receiving
  <2>4. AskedBySubscribers'
    <3>1. \A c \in Conns : Range(inbound'[c]) \subseteq Range(inbound[c])
      BY <2>3
    <3>. QED
      BY <3>1 DEF AskedBySubscribers
  <2>. QED
    BY <2>1, <2>2, <2>4 DEF OpenIsServed, SubscribersStay
<1>8. ASSUME NEW fd \in Fds, ReadEnd(fd) PROVE ServedInv'
  <2>1. /\ interest' = interest \ {fd}
        /\ fdTable' = [fdTable EXCEPT ![fd] = NoConn]
        /\ connections[fd] # NoConn => peer[fdTable[fd]] = "closed"
        /\ UNCHANGED <<peer, fault, inbound, subscribers, sock_fd>>
    BY <1>8 DEF ReadEnd, CloseConnection, clientVars, streamVars, brokerVars
  <2>2. OpenIsServed'
    <3>. SUFFICES ASSUME NEW d \in Conns, peer[d] = "open", sock_fd[d] # 0
                  PROVE  sock_fd[d] \in interest' /\ fdTable'[sock_fd[d]] = d
      BY <2>1 DEF OpenIsServed
    <3>1. sock_fd[d] \in interest /\ fdTable[sock_fd[d]] = d
      BY DEF OpenIsServed
    <3>2. sock_fd[d] \in Fds /\ connections[sock_fd[d]] = d
      BY <3>1, OneDescriptor
    <3>3. sock_fd[d] # fd
      BY <2>1, <3>1, <3>2, SocketsAssumption
    <3>. QED
      BY <2>1, <3>1, <3>2, <3>3 DEF TablesInv, TablesTypes
  <2>. QED
    BY <2>1, <2>2 DEF FaultsOfClosed, AskedBySubscribers, ListedSubscribers, SubscribersStay
<1>9. ASSUME EpollWait \/ BatchDone \/ BeginAccept \/ AcceptDone \/ UNCHANGED vars
             \/ \E fd \in Fds : ReadError(fd)
      PROVE  ServedInv'
  <2>1. UNCHANGED Seen
    BY <1>9 DEF EpollWait, BatchDone, BeginAccept, AcceptDone, ReadError, vars, netVars, clientVars,
                streamVars, kernelVars, brokerVars
  <2>. QED
    BY <1>1, <2>1
<1>10. ASSUME NEW c \in Conns, ClientRecv(c), UNCHANGED <<brokerVars, serverVars>> PROVE ServedInv'
  <2>1. UNCHANGED Seen
    BY <1>10 DEF ClientRecv, streamVars, kernelVars, brokerVars
  <2>. QED
    BY <1>1, <2>1
<1>. QED
  BY <1>2, <1>3, <1>4, <1>5, <1>6, <1>7, <1>8, <1>9, <1>10 DEF Next, ServerNext, ClientNext

\* The subscriptions of a client to a topic.
Listed(c, t) == Cardinality({i \in DOMAIN subscribers[t] : subscribers[t][i] = c})

LEMMA ListedIsTimes ==
  ASSUME NEW c, NEW t
  PROVE  Broker!Times(c, t) = Listed(c, t)
BY DEF Broker!Times, Broker!Cardinality, Listed, Cardinality

\* The buffer towards each client has room for one more publication, or an error reply.
Roomy ==
  \A c \in Conns : /\ Unread(c) < SendCap
                   /\ \A t \in Topics : Unread(c) + Listed(c, t) <= SendCap

\* Every subscription of a topic is an open client behind its descriptor: nothing is
\* dropped from the list, each client is reached once per subscription, and no send fails.
LEMMA Delivery ==
  ASSUME TablesInv, BrokerTypes, ServedInv, NEW t \in Topics
  PROVE  LET fds == Descriptors(Live(subscribers[t]))
         IN  /\ Live(subscribers[t]) = subscribers[t]
             /\ fds \in Seq(Fds \cup {0})
             /\ \A c \in Conns : Copies(fds, c) = Listed(c, t)
             /\ \A c \in Conns : peer[c] # "open" => Listed(c, t) = 0
             /\ ~SigPipe(fds)
<1>. DEFINE objects == subscribers[t]
            fds == Descriptors(objects)
            n == Len(objects)
<1>1. objects \in Seq(Conns) /\ n \in Nat /\ DOMAIN objects = 1 .. n
  BY DEF BrokerTypes
<1>2. ASSUME NEW i \in 1 .. n
      PROVE  /\ objects[i] \in Conns /\ sock_fd[objects[i]] # 0 /\ peer[objects[i]] = "open"
             /\ fdTable[sock_fd[objects[i]]] = objects[i]
  <2>1. objects[i] \in Range(objects) /\ objects[i] \in Conns
    BY <1>1 DEF Range
  <2>2. objects[i] \in Subscribers /\ sock_fd[objects[i]] # 0
    BY <2>1 DEF ServedInv, ListedSubscribers
  <2>3. peer[objects[i]] \notin {"none", "closed"}
    BY <2>1, <2>2 DEF ServedInv, SubscribersStay, TablesInv, BacklogWaits
  <2>4. peer[objects[i]] = "open"
    BY <2>1, <2>3 DEF TablesInv, TablesTypes
  <2>. QED
    BY <2>1, <2>2, <2>4 DEF ServedInv, OpenIsServed
<1>3. Live(objects) = objects
  <2>1. {i \in DOMAIN objects : Locks(objects[i])} = DOMAIN objects
    BY <1>1, <1>2 DEF Locks
  <2>. QED
    BY <1>1, <2>1, KeptWhole DEF Live
<1>4. /\ fds \in Seq(Fds \cup {0}) /\ DOMAIN fds = 1 .. n
      /\ \A i \in 1 .. n : fds[i] = sock_fd[objects[i]]
  BY <1>1, ObjectTypes DEF TablesInv
<1>5. ASSUME NEW c \in Conns PROVE Copies(fds, c) = Listed(c, t)
  <2>1. {i \in DOMAIN fds : fdTable[fds[i]] = c} = {i \in DOMAIN objects : objects[i] = c}
    BY <1>1, <1>2, <1>4
  <2>. QED
    BY <2>1 DEF Copies, Listed
<1>6. ASSUME NEW c \in Conns, peer[c] # "open" PROVE Listed(c, t) = 0
  <2>1. {i \in DOMAIN objects : objects[i] = c} = {}
    BY <1>1, <1>2, <1>6
  <2>. QED
    BY <2>1, FS_EmptySet DEF Listed
<1>7. ~SigPipe(fds)
  <2>. SUFFICES ASSUME NEW c \in Conns, fault[c] # "none" PROVE Copies(fds, c) = 0
    BY DEF SigPipe
  <2>. QED
    BY <1>5, <1>6 DEF ServedInv, FaultsOfClosed
<1>. QED
  BY <1>3, <1>4, <1>5, <1>6, <1>7

\* What send adds when nothing fails and the buffers have room.
LEMMA SendInFull ==
  ASSUME TablesInv, OutTypes, NEW S, NEW fds \in Seq(S), NEW p \in Packets, Send(fds, p), ~SigPipe(fds),
         \A c \in Conns : peer[c] = "open" => Copies(fds, c) <= Room(c)
  PROVE  outbound' = [c \in Conns |-> IF peer[c] = "open"
                                     THEN outbound[c] \o Repeat(p, Copies(fds, c))
                                     ELSE outbound[c]]
<1>1. Reached(fds) = fds
  BY ReachedFront
<1>2. \A c \in Conns : Copies(fds, c) \in Nat /\ Room(c) \in Int
  BY CopiesType, SocketsAssumption DEF Room, Unread, OutTypes
<1>3. \A c \in Conns : peer[c] = "open" => Least(Copies(fds, c), Room(c)) = Copies(fds, c)
  BY <1>2 DEF Least
<1>. QED
  BY <1>1, <1>3 DEF Send

LEMMA FewCopies ==
  ASSUME NEW p \in Packets, NEW s \in Seq(Packets)
  PROVE  s \o Repeat(p, 0) = s /\ s \o Repeat(p, 1) = Append(s, p)
<1>1. Repeat(p, 0) = << >> /\ Repeat(p, 1) = <<p>>
  BY DEF Repeat
<1>. QED
  BY <1>1, ConcatEmptySeq, AppendIsConcat

\* The requests of a stream, one by one.
LEMMA RequestedSeq ==
  ASSUME NEW s \in Seq(Stream)
  PROVE  /\ Requested(s) \in Seq(Requests) /\ Len(Requested(s)) = Len(s)
         /\ \A i \in 1 .. Len(s) : Requested(s)[i] = s[i].of
<1>1. Len(s) \in Nat /\ DOMAIN s = 1 .. Len(s) /\ \A i \in 1 .. Len(s) : s[i] \in Stream
  OBVIOUS
<1>2. \A i \in 1 .. Len(s) : s[i].of \in Requests
  BY <1>1 DEF Stream
<1>3. Requested(s) = [i \in 1 .. Len(s) |-> s[i].of]
  BY <1>1 DEF Requested
<1>4. Requested(s) \in [1 .. Len(s) -> Requests]
  BY <1>2, <1>3
<1>5. Requested(s) \in Seq(Requests)
  BY <1>1, <1>4, SeqDef
<1>. QED
  BY <1>1, <1>3, <1>5

\* A stream of one fragment after another stream.
LEMMA OneFragment ==
  ASSUME NEW S, NEW s \in Seq(S), NEW f \in Seq(S), Len(f) = 1
  PROVE  /\ s \o f \in Seq(S) /\ Len(s \o f) = Len(s) + 1
         /\ \A i \in 1 .. Len(s) : (s \o f)[i] = s[i]
         /\ (s \o f)[Len(s) + 1] = f[1]
<1>1. Len(s) \in Nat
  OBVIOUS
<1>. DEFINE sf == s \o f
<1>2. /\ sf \in Seq(S) /\ Len(sf) = Len(s) + Len(f)
      /\ \A i \in 1 .. Len(s) + Len(f) : sf[i] = IF i <= Len(s) THEN s[i] ELSE f[i - Len(s)]
  BY ConcatProperties, Zenon
<1>. HIDE DEF sf
<1>3. Len(s) + 1 \in 1 .. Len(s) + Len(f) /\ ~(Len(s) + 1 <= Len(s)) /\ (Len(s) + 1) - Len(s) = 1
  BY <1>1
<1>4. sf[Len(s) + 1] = f[1]
  BY <1>2, <1>3
<1>5. \A i \in 1 .. Len(s) : sf[i] = s[i]
  BY <1>1, <1>2
<1>6. Len(sf) = Len(s) + 1
  BY <1>2
<1>. QED
  BY <1>2, <1>4, <1>5, <1>6, Zenon DEF sf

\* A client makes a request of one fragment.
LEMMA BrokerAsks ==
  ASSUME Parts = 1, TablesInv, EventTypes, NEW c \in Conns, NEW r \in Requests, SendRequest(c, r),
         UNCHANGED <<brokerVars, serverVars>>
  PROVE  Broker!Ask(c, r)
<1>. DEFINE s == inbound[c]
            t == s \o Fragments(r)
<1>1. s \in Seq(Stream) /\ Fragments(r) \in Seq(Stream) /\ Len(Fragments(r)) = 1
  BY FragmentTypes DEF EventTypes
<1>2. Fragments(r)[1].of = r
  BY DEF Fragments
<1>3. /\ peer[c] = "open" /\ peer' = peer
      /\ inbound' = [inbound EXCEPT ![c] = t]
      /\ UNCHANGED <<subscribers, outbound, tasks>>
  BY DEF SendRequest, brokerVars
<1>. HIDE DEF s
<1>4. /\ t \in Seq(Stream) /\ Len(t) = Len(s) + 1
      /\ \A i \in 1 .. Len(s) : t[i] = s[i]
      /\ t[Len(s) + 1] = Fragments(r)[1]
  BY <1>1, OneFragment, Zenon
<1>. HIDE DEF t
<1>5. /\ Requested(s) \in Seq(Requests) /\ Len(Requested(s)) = Len(s)
      /\ \A i \in 1 .. Len(s) : Requested(s)[i] = s[i].of
  BY <1>1, RequestedSeq
<1>6. /\ Requested(t) \in Seq(Requests) /\ Len(Requested(t)) = Len(t)
      /\ \A i \in 1 .. Len(t) : Requested(t)[i] = t[i].of
  BY <1>4, RequestedSeq
<1>7. Requested(t) = Append(Requested(s), r)
  <2>1. /\ Append(Requested(s), r) \in Seq(Requests)
        /\ Len(Append(Requested(s), r)) = Len(s) + 1
        /\ \A i \in 1 .. Len(s) : Append(Requested(s), r)[i] = s[i].of
        /\ Append(Requested(s), r)[Len(s) + 1] = r
    BY <1>1, <1>5
  <2>2. \A i \in 1 .. Len(s) + 1 : Requested(t)[i] = Append(Requested(s), r)[i]
    BY <1>1, <1>2, <1>4, <1>6, <2>1
  <2>. QED
    BY <1>1, <1>4, <1>6, <2>1, <2>2
<1>8. [d \in Conns |-> Requested(inbound'[d])]
        = [[d \in Conns |-> Requested(inbound[d])] EXCEPT ![c] = Append(Requested(s), r)]
  BY <1>3, <1>7 DEF EventTypes, s
<1>. QED
  BY <1>3, <1>8 DEF Broker!Ask, s

\* What a recv takes are the first requests of a client; they are understood if it takes
\* one that is.
LEMMA BrokerTakes ==
  ASSUME Parts = 1, TablesInv, EventTypes, NEW fd \in Fds, ReadData(fd)
  PROVE  LET k == fdTable[fd]
             n == Len(Received(k))
         IN  /\ Broker!Take(k, n)
             /\ \A r \in Parsed(Received(k)) : n = 1 /\ Head(Requested(inbound[k])) = r
             /\ n = 1 => Head(Requested(inbound[k])) \in Parsed(Received(k))
<1>. DEFINE k == fdTable[fd]
            s == inbound[k]
            m == Least(Len(s), RecvCap)
            chunk == SubSeq(s, 1, m)
            rest == SubSeq(s, m + 1, Len(s))
            asked == [d \in Conns |-> Requested(inbound[d])]
<1>1. k \in Conns /\ s \in Seq(Stream)
  BY Receiving, OneDescriptor DEF EventTypes
<1>2. chunk = Received(k) /\ chunk # << >> /\ m \in 0 .. Len(s)
  BY <1>1, ServerAssumption DEF ReadData, Received, Least
<1>3. Len(chunk) = m /\ m \in 1 .. Len(s) /\ chunk[1] = s[1] /\ chunk \in Seq(Stream)
  <2>1. m # 0
    BY <1>2
  <2>2. m \in 1 .. Len(s)
    BY <1>1, <1>2, <2>1
  <2>. HIDE DEF m
  <2>3. Len(chunk) = m /\ chunk[1] = s[1] /\ chunk \in Seq(Stream)
    BY <1>1, <2>2
  <2>. QED
    BY <2>2, <2>3 DEF m
<1>4. inbound' = [inbound EXCEPT ![k] = rest]
  BY <1>1, <1>2, <1>3 DEF ReadData, EventTypes
<1>5. /\ Requested(s) \in Seq(Requests) /\ Len(Requested(s)) = Len(s)
      /\ \A i \in 1 .. Len(s) : Requested(s)[i] = s[i].of
  BY <1>1, RequestedSeq
<1>6. Head(Requested(s)) = s[1].of /\ s[1] \in Stream
  BY <1>1, <1>3, <1>5
<1>7. Requested(rest) = SubSeq(Requested(s), m + 1, Len(s))
  <2>. HIDE DEF m, s
  <2>1. /\ rest \in Seq(Stream) /\ Len(rest) = Len(s) - m
        /\ \A i \in 1 .. Len(s) - m : rest[i] = s[m + i]
    BY <1>1, <1>3
  <2>2. /\ SubSeq(Requested(s), m + 1, Len(s)) \in Seq(Requests)
        /\ Len(SubSeq(Requested(s), m + 1, Len(s))) = Len(s) - m
        /\ \A i \in 1 .. Len(s) - m : SubSeq(Requested(s), m + 1, Len(s))[i] = Requested(s)[m + i]
    BY <1>1, <1>3, <1>5
  <2>. HIDE DEF rest
  <2>3. /\ Requested(rest) \in Seq(Requests) /\ Len(Requested(rest)) = Len(rest)
        /\ \A i \in 1 .. Len(rest) : Requested(rest)[i] = rest[i].of
    BY <2>1, RequestedSeq
  <2>4. \A i \in 1 .. Len(s) - m :
          Requested(rest)[i] = SubSeq(Requested(s), m + 1, Len(s))[i]
    BY <1>1, <1>3, <1>5, <2>1, <2>2, <2>3
  <2>. QED
    BY <2>1, <2>2, <2>3, <2>4
<1>. HIDE DEF rest, m, chunk
<1>8. [d \in Conns |-> Requested(inbound'[d])]
        = [asked EXCEPT ![k] = SubSeq(Requested(s), m + 1, Len(Requested(s)))]
  BY <1>1, <1>4, <1>5, <1>7 DEF EventTypes
<1>9. Broker!Take(k, m)
  BY <1>1, <1>3, <1>5, <1>8 DEF Broker!Take
<1>10. ASSUME NEW r \in Parsed(chunk) PROVE m = 1 /\ Head(Requested(s)) = r
  <2>1. chunk = Fragments(r) /\ r \in Requests
    BY DEF Parsed
  <2>2. Len(chunk) = 1 /\ chunk[1].of = r
    BY <2>1, FragmentTypes DEF Fragments
  <2>. QED
    BY <1>3, <1>6, <2>2
<1>11. ASSUME m = 1 PROVE Head(Requested(s)) \in Parsed(chunk)
  <2>. DEFINE r == s[1].of
  <2>1. r \in Requests /\ s[1] = [of |-> r, part |-> 1]
    BY <1>6 DEF Stream
  <2>. HIDE DEF r
  <2>2. Fragments(r) \in Seq(Stream) /\ Len(Fragments(r)) = 1 /\ Fragments(r)[1] = s[1]
    BY <2>1, FragmentTypes DEF Fragments
  <2>3. chunk = Fragments(r)
    BY <1>3, <1>11, <2>2
  <2>. QED
    BY <1>6, <2>1, <2>3 DEF Parsed, r
<1>. QED
  BY <1>2, <1>3, <1>9, <1>10, <1>11

LEMMA BrokerPublishes ==
  ASSUME TablesInv, BrokerTypes, OutTypes, ServedInv, Roomy, NEW r \in Publications, Publish(r),
         peer' = peer, NEW c \in Conns, Broker!Take(c, 1), Head(Requested(inbound[c])) = r
  PROVE  Broker!Publish(c, r)
<1>. DEFINE t == r.topic
            fds == Descriptors(Live(subscribers[t]))
<1>1. t \in Topics /\ r \in Packets
  BY DEF Publications, Packets
<1>2. /\ Live(subscribers[t]) = subscribers[t] /\ fds \in Seq(Fds \cup {0}) /\ ~SigPipe(fds)
      /\ \A d \in Conns : Copies(fds, d) = Listed(d, t)
      /\ \A d \in Conns : peer[d] # "open" => Listed(d, t) = 0
  BY <1>1, Delivery
<1>3. /\ tasks' = (IF t \in Handled THEN Append(tasks, r) ELSE tasks)
      /\ subscribers' = [subscribers EXCEPT ![t] = Live(subscribers[t])]
      /\ Send(fds, r)
  BY DEF Publish
<1>4. subscribers' = subscribers
  BY <1>1, <1>2, <1>3 DEF BrokerTypes
<1>. HIDE DEF fds, t
<1>5. \A d \in Conns : Copies(fds, d) <= Room(d)
  <2>1. \A d \in Conns : Copies(fds, d) \in Nat
    BY <1>2, CopiesType
  <2>2. \A d \in Conns : Unread(d) \in Int /\ SendCap \in Nat
    BY SocketsAssumption DEF Unread, OutTypes
  <2>. QED
    BY <1>1, <1>2, <2>1, <2>2 DEF Roomy, Room
<1>6. outbound' = [d \in Conns |-> IF peer[d] = "open"
                                  THEN outbound[d] \o Repeat(r, Copies(fds, d))
                                  ELSE outbound[d]]
  BY <1>1, <1>2, <1>3, <1>5, SendInFull
<1>7. ASSUME NEW e \in Conns
      PROVE  outbound'[e] = IF peer[e] = "closed" THEN outbound[e]
                            ELSE outbound[e] \o Repeat(r, Listed(e, t))
  <2>1. CASE peer[e] = "open"
    BY <1>2, <1>6, <2>1
  <2>2. CASE peer[e] = "none"
    BY <1>1, <1>2, <1>6, <2>2, FewCopies DEF OutTypes
  <2>3. CASE peer[e] = "closed"
    BY <1>6, <2>3
  <2>. QED
    BY <2>1, <2>2, <2>3 DEF TablesInv, TablesTypes
<1>8. \A e \in Conns : Repeat(r, Listed(e, t)) = [i \in 1 .. Broker!Times(e, t) |-> r]
  BY ListedIsTimes DEF Repeat
<1>9. outbound' = [e \in Conns |-> IF e \in {d \in Conns : peer[d] = "closed"} THEN outbound[e]
                                  ELSE outbound[e] \o [i \in 1 .. Broker!Times(e, t) |-> r]]
  BY <1>6, <1>7, <1>8
<1>. QED
  BY <1>1, <1>3, <1>4, <1>9 DEF Broker!Publish, t

LEMMA BrokerRejects ==
  ASSUME TablesInv, OutTypes, ServedInv, Roomy, NEW fd \in interest, NEW c \in Conns, fdTable[fd] = c,
         Reject(c), peer' = peer, NEW n \in 1 .. Len(Requested(inbound[c])), Broker!Take(c, n),
         n = 1 => Head(Requested(inbound[c])).type = "unknown"
  PROVE  Broker!Reject(c)
<1>. DEFINE p == [type |-> "error"]
            fds == <<fd>>
<1>1. sock_fd[c] = fd /\ fd # 0 /\ fd \in Fds
  BY OneDescriptor
<1>2. p \in Packets /\ fds \in Seq(Fds) /\ Len(fds) = 1 /\ DOMAIN fds = {1}
  BY <1>1 DEF Packets, Errors
<1>3. Send(fds, p) /\ UNCHANGED <<subscribers, sock_fd, tasks>>
  BY <1>1 DEF Reject, brokerVars
<1>4. \A d \in Conns : Copies(fds, d) = IF d = c THEN 1 ELSE 0
  <2>1. ASSUME NEW d \in Conns PROVE Copies(fds, d) = IF d = c THEN 1 ELSE 0
    <3>. DEFINE at == {i \in DOMAIN fds : fdTable[fds[i]] = d}
    <3>1. at = IF d = c THEN {1} ELSE {}
      OBVIOUS
    <3>. HIDE DEF at
    <3>2. Cardinality(at) = IF d = c THEN 1 ELSE 0
      BY <3>1, FS_EmptySet, FS_Singleton
    <3>. QED
      BY <3>2 DEF Copies, at
  <2>. QED
    BY <2>1
<1>. HIDE DEF fds, p
<1>5. \A d \in Conns : outbound[d] \in Seq(Packets) /\ Room(d) \in Int /\ Room(d) >= 1
  <2>1. \A d \in Conns : Unread(d) \in Int /\ SendCap \in Nat
    BY SocketsAssumption DEF Unread, OutTypes
  <2>. QED
    BY <2>1 DEF Roomy, Room, OutTypes
<1>6. CASE peer[c] = "closed"
  <2>1. \A d \in Conns : d # c => Copies(Reached(fds), d) = 0
    <3>1. PICK l \in 0 .. 1 : Reached(fds) = SubSeq(fds, 1, l)
      BY <1>2, ReachedFront
    <3>2. SubSeq(fds, 1, l) = << >> \/ SubSeq(fds, 1, l) = fds
      <4>1. l = 0 \/ l = 1
        OBVIOUS
      <4>. QED
        BY <1>2, <4>1, SubSeqFull, SubSeqEmpty
    <3>3. \A d \in Conns : Copies(<< >>, d) = 0
      BY FS_EmptySet DEF Copies
    <3>. QED
      BY <1>4, <3>1, <3>2, <3>3
  <2>2. \A d \in Conns : peer[d] = "open" => Least(Copies(Reached(fds), d), Room(d)) = 0
    BY <1>5, <1>6, <2>1 DEF Least
  <2>3. \A d \in Conns : outbound'[d] = outbound[d]
    BY <1>2, <1>3, <1>5, <2>2, FewCopies DEF Send
  <2>4. outbound' = [outbound EXCEPT ![c] = outbound[c]]
    BY <1>3, <2>3 DEF Send, OutTypes
  <2>. QED
    BY <1>3, <1>6, <2>4 DEF Broker!Reject
<1>7. CASE peer[c] # "closed"
  <2>1. peer[c] = "open"
    BY <1>1, <1>7 DEF TablesInv, TablesTypes, BacklogWaits
  <2>2. ~SigPipe(fds)
    BY <1>4, <2>1 DEF SigPipe, ServedInv, FaultsOfClosed
  <2>3. outbound' = [d \in Conns |-> IF peer[d] = "open"
                                    THEN outbound[d] \o Repeat(p, Copies(fds, d))
                                    ELSE outbound[d]]
    <3>1. \A d \in Conns : Copies(fds, d) <= Room(d)
      BY <1>4, <1>5
    <3>. QED
      BY <1>2, <1>3, <2>2, <3>1, SendInFull
  <2>4. outbound' = [outbound EXCEPT ![c] = Append(outbound[c], p)]
    <3>1. \A d \in Conns : outbound'[d] = IF d = c THEN Append(outbound[c], p) ELSE outbound[d]
      BY <1>2, <1>4, <1>5, <2>1, <2>3, FewCopies
    <3>. QED
      BY <2>3, <3>1 DEF OutTypes
  <2>. QED
    BY <1>3, <1>7, <2>4 DEF Broker!Reject, p
<1>. QED
  BY <1>6, <1>7

LEMMA BrokerInitially == Init => Broker!Init
<1>. SUFFICES ASSUME Init PROVE Broker!Init
  OBVIOUS
<1>1. {c \in Conns : peer[c] = "closed"} = {}
  BY DEF Init, NetInit
<1>2. \A c \in Conns : Requested(inbound[c]) = << >>
  BY DEF Init, NetInit, Requested
<1>. QED
  BY <1>1, <1>2 DEF Init, NetInit, BrokerInit, Broker!Init

LEMMA BrokerStep ==
  ASSUME Parts = 1, TablesInv, EventTypes, TypesInv, ServedInv, Roomy, [Next]_vars
  PROVE  [Broker!Next]_(Broker!vars)
<1>1. ASSUME UNCHANGED <<subscribers, inbound, outbound, tasks>>,
             \A c \in Conns : peer'[c] = "closed" <=> peer[c] = "closed"
      PROVE  UNCHANGED Broker!vars
  BY <1>1 DEF Broker!vars
<1>2. ASSUME NEW c \in Conns, Connect(c), UNCHANGED <<brokerVars, serverVars>>
      PROVE  UNCHANGED Broker!vars
  <2>1. /\ peer[c] = "none" /\ peer' = [peer EXCEPT ![c] = "open"]
        /\ UNCHANGED <<subscribers, inbound, outbound, tasks>>
    BY <1>2 DEF Connect, streamVars, brokerVars
  <2>. QED
    BY <1>1, <2>1 DEF TablesInv, TablesTypes
<1>3. ASSUME NEW c \in Conns, ClientClose(c), UNCHANGED <<brokerVars, serverVars>>
      PROVE  Broker!Leave(c)
  <2>1. /\ peer' = [peer EXCEPT ![c] = "closed"]
        /\ UNCHANGED <<subscribers, inbound, outbound, tasks>>
    BY <1>3 DEF ClientClose, brokerVars
  <2>2. {d \in Conns : peer'[d] = "closed"} = {d \in Conns : peer[d] = "closed"} \cup {c}
    BY <2>1 DEF TablesInv, TablesTypes
  <2>. QED
    BY <2>1, <2>2 DEF Broker!Leave
<1>4. ASSUME NEW c \in Conns, ClientRecv(c) \/ RstArrives(c),
             UNCHANGED <<brokerVars, serverVars>>
      PROVE  UNCHANGED Broker!vars
  <2>1. UNCHANGED <<subscribers, inbound, outbound, tasks, peer>>
    BY <1>4 DEF ClientRecv, RstArrives, clientVars, streamVars, brokerVars
  <2>. QED
    BY <1>1, <2>1
<1>5. ASSUME EpollWait \/ BatchDone \/ BeginAccept \/ AcceptOne \/ AcceptDone \/ UNCHANGED vars
             \/ \E fd \in Fds : ReadEnd(fd) \/ ReadError(fd)
      PROVE  UNCHANGED Broker!vars
  <2>1. UNCHANGED <<subscribers, inbound, outbound, tasks, peer>>
    BY <1>5 DEF EpollWait, BatchDone, BeginAccept, AcceptOne, AcceptDone, ReadEnd, ReadError, vars,
                netVars, clientVars, streamVars, brokerVars
  <2>. QED
    BY <1>1, <2>1
<1>6. ASSUME NEW fd \in Fds, ReadData(fd) PROVE Broker!Next
  <2>. DEFINE k == fdTable[fd]
              chunk == Received(k)
              n == Len(chunk)
              first == Head(Requested(inbound[k]))
  <2>1. k \in Conns /\ connections[fd] = k /\ fd \in interest
    BY <1>6, RecvSplits
  <2>2. HandleMessage(k, chunk) /\ peer' = peer
    BY <1>6, <2>1 DEF ReadData, clientVars
  <2>3. OutTypes /\ BrokerTypes
    BY DEF TypesInv
  <2>4. /\ Broker!Take(k, n)
        /\ \A r \in Parsed(chunk) : n = 1 /\ first = r
        /\ n = 1 => first \in Parsed(chunk)
    BY <1>6, BrokerTakes
  <2>5. n \in 1 .. Len(Requested(inbound[k]))
    BY <2>1, <2>4 DEF Broker!Take
  <2>. HIDE DEF k, chunk, n, first
  <2>6. ASSUME NEW r \in Parsed(chunk), r.type = "publish", Publish(r) PROVE Broker!Next
    <3>1. r \in Publications
      BY <2>6, RequestKinds DEF Parsed
    <3>2. Broker!Take(k, 1) /\ Head(Requested(inbound[k])) = r
      BY <2>4 DEF first
    <3>3. Broker!Publish(k, r)
      BY <2>1, <2>2, <2>3, <2>6, <3>1, <3>2, BrokerPublishes
    <3>. QED
      BY <2>1, <3>1, <3>3 DEF Broker!Next, Broker!Publications, Publications
  <2>7. ASSUME NEW r \in Parsed(chunk), r.type = "subscribe", Subscribe(r, k) PROVE Broker!Next
    <3>1. r \in Subscriptions /\ r.topic \in Topics
      BY <2>7, RequestKinds DEF Parsed
    <3>2. r = [type |-> "subscribe", topic |-> r.topic]
      BY <3>1 DEF Subscriptions
    <3>3. Broker!Take(k, 1) /\ Head(Requested(inbound[k])) = r
      BY <2>4 DEF first
    <3>4. Broker!Subscribe(k, r.topic)
      BY <2>1, <2>2, <2>7, <3>2, <3>3 DEF Subscribe, Broker!Subscribe
    <3>. QED
      BY <2>1, <3>1, <3>4 DEF Broker!Next
  <2>8. ASSUME \A r \in Parsed(chunk) : r.type = "unknown", Reject(k) PROVE Broker!Next
    <3>1. n = 1 => Head(Requested(inbound[k])).type = "unknown"
      BY <2>4, <2>8 DEF first
    <3>2. Broker!Reject(k)
      BY <2>1, <2>2, <2>3, <2>4, <2>5, <2>8, <3>1, BrokerRejects DEF k
    <3>. QED
      BY <2>1, <3>2 DEF Broker!Next
  <2>. QED
    BY <2>2, <2>6, <2>7, <2>8 DEF HandleMessage
<1>7. ASSUME NEW c \in Conns, NEW r \in Requests, SendRequest(c, r), UNCHANGED <<brokerVars, serverVars>>
      PROVE  Broker!Next
  <2>1. Broker!Ask(c, r)
    BY <1>7, BrokerAsks
  <2>2. r \in Broker!Requests
    BY DEF Requests, Publications, Subscriptions, Broker!Requests, Broker!Publications,
           Broker!Subscriptions
  <2>. QED
    BY <2>1, <2>2 DEF Broker!Next
<1>. QED
  BY <1>2, <1>3, <1>4, <1>5, <1>6, <1>7 DEF Next, ServerNext, ClientNext, Broker!Next

\* The sockets, the descriptors and the broker together do what PubSub promises: requests
\* are served once and in order, a publication reaches the subscribers of its topic, once
\* per subscription, and nobody else, and only requests that a client sends without waiting
\* are taken for one that nobody understands; as long as a request is one fragment, no
\* subscriber leaves and the buffers towards the clients have room (message_broker.cpp:9-60,
\* protocol_handler.cpp:13-39, tcp_server.cpp:91-187).
THEOREM BrokerImplements ==
  ASSUME Subscribers \cap Leavers = {}, Parts = 1
  PROVE  Spec /\ []Roomy => ImplementsPubSub
<1>1. TablesInv /\ EventsInv /\ TypesInv /\ ServedInv /\ [Next]_vars => ServedInv'
  BY ServedStep DEF EventsInv, TypesInv
<1>2. TablesInv /\ EventsInv /\ TypesInv /\ ServedInv /\ Roomy /\ [Next]_vars
        => [Broker!Next]_(Broker!vars)
  BY BrokerStep DEF EventsInv
<1>. QED
  BY <1>1, <1>2, ServedInit, BrokerInitially, TablesInvariant, EventsInvariant, TypesInvariant, PTL
     DEF Spec, ImplementsPubSub, Broker!Spec
=============================================================================
