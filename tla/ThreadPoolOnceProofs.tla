------------------------ MODULE ThreadPoolOnceProofs ------------------------
(***************************************************************************)
(* A job handed to the pool is in one place at a time, usage() counts the  *)
(* workers inside a job, and the pool implements JobExecutor.              *)
(***************************************************************************)
EXTENDS ThreadPoolProofs

(* The inductive invariant. *)

\* Hands are full exactly between the pick and the push of a caller, and between
\* the pop and the end of the job of a worker.
HandsFull ==
  /\ \A t \in Callers : carrying[t] # NoJob <=> caller[t] = "picked"
  /\ \A w \in Workers : current[w] # NoJob <=> worker[w] \in {"taken", "running"}

OnceInv == TypeInv /\ HandsFull /\ JobInOnePlace

LEMMA NoJobIsNoJob == NoJob \notin Jobs
BY JobsAssumption

LEMMA HandsInit == Init => HandsFull
BY DEF Init, HandsFull

LEMMA HandsStep ==
  ASSUME TypeInv, HandsFull, [Next]_vars
  PROVE  HandsFull'
<1>. USE NoJobIsNoJob DEF TypeInv, TypeOK, HandsFull
<1>1. ASSUME NEW t \in Callers, NEW j \in Jobs, PickQueue(t, j)
      PROVE  HandsFull'
  BY <1>1 DEF PickQueue, runVars
<1>2. ASSUME NEW t \in Callers, Push(t)
      PROVE  HandsFull'
  BY <1>2 DEF Push, runVars
<1>3. ASSUME NEW t \in Callers, Notify(t)
      PROVE  HandsFull'
  BY <1>3 DEF Notify, NotifyAll
<1>4. ASSUME NEW t \in Callers, UseAfterClear(t)
      PROVE  HandsFull'
  BY <1>4 DEF UseAfterClear, runVars, callVars
<1>5. ASSUME NEW w \in Workers, Wait(w) \/ SpuriousWake(w) \/ Exit(w)
      PROVE  HandsFull'
  BY <1>5 DEF Wait, SpuriousWake, Exit, callVars
<1>6. ASSUME NEW w \in Workers, Take(w)
      PROVE  HandsFull'
  <2>1. current' = [current EXCEPT ![w] = Head(job_stack[w])] /\ Head(job_stack[w]) \in Jobs
    BY <1>6, TakeOwn, HeadTailProperties
  <2>2. worker' = [worker EXCEPT ![w] = "taken"] /\ UNCHANGED callVars
    BY <1>6 DEF Take
  <2>. QED
    BY <2>1, <2>2 DEF callVars
<1>7. ASSUME NEW w \in Workers, Start(w) \/ Finish(w)
      PROVE  HandsFull'
  BY <1>7 DEF Start, Finish, callVars
<1>8. CASE DestroyStop \/ DestroyNotify \/ DestroyClear
  BY <1>8 DEF DestroyStop, DestroyNotify, DestroyClear, NotifyAll, runVars, callVars
<1>9. CASE UNCHANGED vars
  BY <1>9 DEF vars, runVars, callVars
<1>. QED
  BY <1>1, <1>2, <1>3, <1>4, <1>5, <1>6, <1>7, <1>8, <1>9 DEF Next

-----------------------------------------------------------------------------
(* Deques. *)

\* A push puts its job into the deque and keeps the deque free of repetitions.
LEMMA PushFront ==
  ASSUME NEW s \in Seq(Jobs), NEW j \in Jobs
  PROVE  /\ Range(<<j>> \o s) = Range(s) \cup {j}
         /\ InjectiveOn(s, DOMAIN s) /\ j \notin Range(s)
              => InjectiveOn(<<j>> \o s, DOMAIN (<<j>> \o s))
<1>. DEFINE r == <<j>> \o s
<1>1. /\ r \in Seq(Jobs)
      /\ Len(r) = Len(s) + 1
      /\ r[1] = j
      /\ \A i \in 2 .. Len(s) + 1 : r[i] = s[i - 1]
  <2>1. <<j>> \in Seq(Jobs) /\ Len(<<j>>) = 1 /\ <<j>>[1] = j
    OBVIOUS
  <2>2. Len(s) \in Nat
    BY LenProperties
  <2>. QED
    BY <2>1, <2>2, ConcatProperties
<1>2. /\ Len(s) \in Nat /\ DOMAIN s = 1 .. Len(s)
      /\ DOMAIN r = 1 .. Len(s) + 1
  BY <1>1, LenProperties
<1>3. Range(r) = Range(s) \cup {j}
  <2>1. \A x \in Range(s) : x \in Range(r)
    <3>1. SUFFICES ASSUME NEW i \in 1 .. Len(s) PROVE s[i] \in Range(r)
      BY <1>2 DEF Range
    <3>2. i + 1 \in 2 .. Len(s) + 1 /\ (i + 1) - 1 = i
      BY <1>2
    <3>3. r[i + 1] = s[i] /\ i + 1 \in DOMAIN r
      BY <1>1, <1>2, <3>2
    <3>. QED
      BY <3>3 DEF Range
  <2>2. j \in Range(r)
    BY <1>1, <1>2 DEF Range
  <2>3. \A x \in Range(r) : x \in Range(s) \cup {j}
    <3>1. SUFFICES ASSUME NEW i \in 1 .. Len(s) + 1 PROVE r[i] \in Range(s) \cup {j}
      BY <1>2 DEF Range
    <3>2. CASE i = 1
      BY <1>1, <3>2
    <3>3. CASE i \in 2 .. Len(s) + 1
      <4>1. r[i] = s[i - 1] /\ i - 1 \in DOMAIN s
        BY <1>1, <1>2, <3>3
      <4>. QED
        BY <4>1 DEF Range
    <3>. QED
      BY <1>2, <3>2, <3>3
  <2>. QED
    BY <2>1, <2>2, <2>3
<1>4. ASSUME InjectiveOn(s, DOMAIN s), j \notin Range(s)
      PROVE  InjectiveOn(r, DOMAIN r)
  <2>1. SUFFICES ASSUME NEW x \in 1 .. Len(s) + 1, NEW y \in 1 .. Len(s) + 1, r[x] = r[y]
                 PROVE  x = y
    BY <1>2 DEF InjectiveOn
  <2>2. \A i \in 2 .. Len(s) + 1 : i - 1 \in DOMAIN s /\ r[i] = s[i - 1] /\ r[i] # j
    BY <1>1, <1>2, <1>4 DEF Range
  <2>3. CASE x = 1 \/ y = 1
    BY <1>1, <1>2, <2>1, <2>2, <2>3
  <2>4. CASE x \in 2 .. Len(s) + 1 /\ y \in 2 .. Len(s) + 1
    <3>1. s[x - 1] = s[y - 1] /\ x - 1 \in DOMAIN s /\ y - 1 \in DOMAIN s
      BY <2>1, <2>2, <2>4
    <3>2. x - 1 = y - 1
      BY <1>4, <3>1 DEF InjectiveOn
    <3>. QED
      BY <3>2
  <2>. QED
    BY <1>2, <2>3, <2>4
<1>. QED
  BY <1>3, <1>4

\* A pop takes its job out of the deque, and it was there once.
LEMMA PopFront ==
  ASSUME NEW s \in Seq(Jobs), s # << >>
  PROVE  /\ Range(s) = Range(Tail(s)) \cup {Head(s)}
         /\ InjectiveOn(s, DOMAIN s)
              => Head(s) \notin Range(Tail(s)) /\ InjectiveOn(Tail(s), DOMAIN Tail(s))
<1>1. /\ Head(s) \in Jobs /\ Head(s) = s[1]
      /\ Tail(s) \in Seq(Jobs)
      /\ Len(Tail(s)) = Len(s) - 1
      /\ \A i \in 1 .. Len(Tail(s)) : Tail(s)[i] = s[i + 1]
  BY HeadTailProperties
<1>2. /\ Len(s) \in Nat \ {0} /\ DOMAIN s = 1 .. Len(s)
      /\ DOMAIN Tail(s) = 1 .. Len(s) - 1
  BY <1>1, LenProperties, EmptySeq
<1>3. Range(s) = Range(Tail(s)) \cup {Head(s)}
  <2>1. \A i \in 1 .. Len(s) : s[i] \in Range(Tail(s)) \cup {Head(s)}
    <3>1. SUFFICES ASSUME NEW i \in 1 .. Len(s), i # 1 PROVE s[i] \in Range(Tail(s))
      BY <1>1
    <3>2. i - 1 \in 1 .. Len(s) - 1 /\ (i - 1) + 1 = i
      BY <1>2, <3>1
    <3>3. Tail(s)[i - 1] = s[i] /\ i - 1 \in DOMAIN Tail(s)
      BY <1>1, <1>2, <3>2
    <3>. QED
      BY <3>3 DEF Range
  <2>2. \A i \in 1 .. Len(s) - 1 : Tail(s)[i] \in Range(s)
    <3>1. SUFFICES ASSUME NEW i \in 1 .. Len(s) - 1 PROVE Tail(s)[i] \in Range(s)
      OBVIOUS
    <3>2. i + 1 \in DOMAIN s /\ Tail(s)[i] = s[i + 1]
      BY <1>1, <1>2
    <3>. QED
      BY <3>2 DEF Range
  <2>3. Head(s) \in Range(s)
    BY <1>1, <1>2 DEF Range
  <2>. QED
    BY <1>2, <2>1, <2>2, <2>3 DEF Range
<1>4. ASSUME InjectiveOn(s, DOMAIN s)
      PROVE  Head(s) \notin Range(Tail(s)) /\ InjectiveOn(Tail(s), DOMAIN Tail(s))
  <2>1. \A i \in 1 .. Len(s) - 1 : /\ i + 1 \in DOMAIN s /\ i + 1 # 1
                                   /\ Tail(s)[i] = s[i + 1]
    BY <1>1, <1>2
  <2>2. 1 \in DOMAIN s
    BY <1>2
  <2>3. Head(s) \notin Range(Tail(s))
    BY <1>1, <1>2, <1>4, <2>1, <2>2 DEF Range, InjectiveOn
  <2>4. ASSUME NEW x \in 1 .. Len(s) - 1, NEW y \in 1 .. Len(s) - 1, Tail(s)[x] = Tail(s)[y]
        PROVE  x = y
    <3>1. x + 1 = y + 1
      BY <1>4, <2>1, <2>4 DEF InjectiveOn
    <3>. QED
      BY <3>1
  <2>. QED
    BY <1>2, <2>3, <2>4 DEF InjectiveOn
<1>. QED
  BY <1>3, <1>4

-----------------------------------------------------------------------------
(* One place per job. *)

LEMMA OnceInit == Init => JobInOnePlace
<1>. SUFFICES ASSUME Init PROVE JobInOnePlace
  OBVIOUS
<1>1. Carried = {} /\ InHand = {} /\ Holding = {}
  BY DEF Init, Carried, InHand, Holding
<1>2. \A w \in Workers : DOMAIN job_stack[w] = {}
  BY DEF Init
<1>3. Queued = {}
  BY <1>2 DEF Queued, Range
<1>4. Accounted /\ Apart
  BY <1>1, <1>3 DEF Init, Accounted, Apart
<1>5. NoTwins
  BY <1>1, <1>2 DEF Init, NoTwins, InjectiveOn, Range
<1>. QED
  BY <1>4, <1>5 DEF JobInOnePlace

\* Steps that move no job.
LEMMA OnceFrame ==
  ASSUME JobInOnePlace, UNCHANGED <<carrying, job_stack, current, history>>
  PROVE  JobInOnePlace'
<1>1. UNCHANGED <<Carried, Queued, InHand, Holding, issued, done, dropped>>
  BY DEF history, Carried, Queued, InHand, Holding
<1>2. Accounted' /\ Apart'
  BY <1>1 DEF JobInOnePlace, Accounted, Apart
<1>3. NoTwins'
  BY <1>1 DEF JobInOnePlace, NoTwins, InjectiveOn, history
<1>. QED
  BY <1>2, <1>3 DEF JobInOnePlace

\* Carried, Queued and InHand as predicates.
LEMMA Places ==
  ASSUME TypeInv
  PROVE  /\ Carried \subseteq Jobs /\ Queued \subseteq Jobs /\ InHand \subseteq Jobs
         /\ NoJob \notin Carried \cup Queued \cup InHand
         /\ \A t \in Callers : carrying[t] # NoJob => carrying[t] \in Carried
         /\ \A w \in Workers : Range(job_stack[w]) \subseteq Queued
         /\ \A w \in Workers : current[w] # NoJob => current[w] \in InHand
<1>1. Carried \subseteq Jobs /\ InHand \subseteq Jobs
  BY DEF TypeInv, TypeOK, Carried, InHand
<1>2. Queued \subseteq Jobs
  BY RangeOfSeq DEF TypeInv, TypeOK, Queued
<1>3. \A t \in Callers : carrying[t] # NoJob => carrying[t] \in Carried
  BY DEF Carried
<1>4. \A w \in Workers : current[w] # NoJob => current[w] \in InHand
  BY DEF InHand
<1>5. \A w \in Workers : Range(job_stack[w]) \subseteq Queued
  BY DEF Queued
<1>. QED
  BY <1>1, <1>2, <1>3, <1>4, <1>5, NoJobIsNoJob

LEMMA OncePick ==
  ASSUME OnceInv, NEW t \in Callers, NEW j \in Jobs, PickQueue(t, j)
  PROVE  JobInOnePlace'
<1>1. /\ carrying \in [Callers -> Jobs \cup {NoJob}] /\ carrying[t] = NoJob
      /\ carrying' = [carrying EXCEPT ![t] = j]
      /\ issued' = issued \cup {j} /\ j \notin issued /\ j # NoJob
      /\ UNCHANGED <<job_stack, current, done, dropped>>
  BY NoJobIsNoJob DEF OnceInv, TypeInv, TypeOK, HandsFull, PickQueue, runVars
<1>2. UNCHANGED <<Queued, InHand, Holding>>
  BY <1>1 DEF Queued, InHand, Holding
<1>3. Carried' = Carried \cup {j}
  BY <1>1 DEF Carried
<1>4. j \notin Carried \cup Queued \cup InHand \cup done \cup dropped
  BY <1>1 DEF OnceInv, JobInOnePlace, Accounted
<1>5. Accounted' /\ Apart'
  BY <1>1, <1>2, <1>3, <1>4 DEF OnceInv, JobInOnePlace, Accounted, Apart
<1>6. InjectiveOn(carrying, {u \in Callers : carrying[u] # NoJob})'
  <2>1. SUFFICES ASSUME NEW x \in Callers, NEW y \in Callers,
                        carrying'[x] # NoJob, carrying'[y] = carrying'[x]
                 PROVE  x = y
    BY DEF InjectiveOn
  <2>2. \A u \in Callers : carrying[u] # j
    BY <1>1, <1>4 DEF Carried
  <2>. QED
    BY <1>1, <2>1, <2>2 DEF OnceInv, JobInOnePlace, NoTwins, InjectiveOn
<1>7. NoTwins'
  BY <1>1, <1>2, <1>6 DEF OnceInv, JobInOnePlace, NoTwins, InjectiveOn
<1>. QED
  BY <1>5, <1>7 DEF JobInOnePlace

LEMMA OncePush ==
  ASSUME OnceInv, NEW t \in Callers, Push(t)
  PROVE  /\ JobInOnePlace'
         /\ Queued' = Queued \cup {carrying[t]}
<1>. DEFINE j == carrying[t]
            q == slot[t]
<1>1. /\ carrying \in [Callers -> Jobs \cup {NoJob}] /\ j \in Jobs /\ j # NoJob
      /\ carrying' = [carrying EXCEPT ![t] = NoJob]
      /\ q \in Workers /\ job_stack \in [Workers -> Seq(Jobs)]
      /\ job_stack' = [job_stack EXCEPT ![q] = <<j>> \o job_stack[q]]
      /\ UNCHANGED <<current, issued, done, dropped>>
  BY NoJobIsNoJob DEF OnceInv, TypeInv, TypeOK, CarriesJob, Push, runVars, history
<1>2. UNCHANGED <<InHand, Holding>>
  BY <1>1 DEF InHand, Holding
<1>3. Carried' = Carried \ {j} /\ j \in Carried
  <2>1. \A u \in Callers : u # t => carrying[u] # j
    BY <1>1 DEF OnceInv, JobInOnePlace, NoTwins, InjectiveOn
  <2>. QED
    BY <1>1, <2>1 DEF Carried
<1>4. /\ \A w \in Workers : w # q => job_stack'[w] = job_stack[w]
      /\ job_stack'[q] = <<j>> \o job_stack[q]
      /\ Range(job_stack'[q]) = Range(job_stack[q]) \cup {j}
  <2>1. job_stack'[q] = <<j>> \o job_stack[q] /\ job_stack[q] \in Seq(Jobs)
    BY <1>1
  <2>2. Range(<<j>> \o job_stack[q]) = Range(job_stack[q]) \cup {j}
    BY <1>1, <2>1, PushFront
  <2>. QED
    BY <1>1, <2>1, <2>2
<1>5. Queued' = Queued \cup {j}
  <2>. DEFINE R(w) == Range(job_stack[w])
  <2>1. \A w \in Workers : Range(job_stack'[w]) = IF w = q THEN R(w) \cup {j} ELSE R(w)
    BY <1>4
  <2>2. \A x : x \in Queued <=> \E w \in Workers : x \in R(w)
    BY Zenon DEF Queued
  <2>3. \A x : x \in Queued' <=> \E w \in Workers : x \in Range(job_stack'[w])
    BY Zenon DEF Queued
  <2>. HIDE DEF R
  <2>4. ASSUME NEW x
        PROVE  x \in Queued' <=> x \in Queued \/ x = j
    <3>1. q \in Workers
      BY <1>1
    <3>2. \A w \in Workers : x \in Range(job_stack'[w]) <=> x \in R(w) \/ (w = q /\ x = j)
      BY <2>1
    <3>. HIDE DEF j, q
    <3>. QED
      BY <2>2, <2>3, <3>1, <3>2
  <2>. QED
    BY <2>4
<1>6. j \notin Queued \cup InHand \cup done \cup dropped
  BY <1>3 DEF OnceInv, JobInOnePlace, Apart
<1>7. Accounted' /\ Apart'
  BY <1>1, <1>2, <1>3, <1>5, <1>6 DEF OnceInv, JobInOnePlace, Accounted, Apart
<1>8. InjectiveOn(carrying, {u \in Callers : carrying[u] # NoJob})'
  BY <1>1 DEF OnceInv, JobInOnePlace, NoTwins, InjectiveOn
<1>9. \A w \in Workers : InjectiveOn(job_stack'[w], DOMAIN job_stack'[w])
  <2>1. j \notin Range(job_stack[q])
    BY <1>1, <1>6 DEF Queued
  <2>2. InjectiveOn(job_stack'[q], DOMAIN job_stack'[q])
    BY <1>1, <1>4, <2>1, PushFront DEF OnceInv, JobInOnePlace, NoTwins
  <2>. QED
    BY <1>4, <2>2 DEF OnceInv, JobInOnePlace, NoTwins
<1>10. \A v, w \in Workers : v # w => Range(job_stack'[v]) \cap Range(job_stack'[w]) = {}
  <2>1. \A w \in Workers : j \notin Range(job_stack[w])
    BY <1>6 DEF Queued
  <2>2. \A w \in Workers : \/ Range(job_stack'[w]) = Range(job_stack[w])
                           \/ w = q /\ Range(job_stack'[w]) = Range(job_stack[w]) \cup {j}
    BY <1>4
  <2>3. \A v, w \in Workers : v # w => Range(job_stack[v]) \cap Range(job_stack[w]) = {}
    BY DEF OnceInv, JobInOnePlace, NoTwins
  <2>. HIDE DEF j, q
  <2>. QED
    BY <2>1, <2>2, <2>3
<1>11. NoTwins'
  BY <1>1, <1>2, <1>8, <1>9, <1>10 DEF OnceInv, JobInOnePlace, NoTwins, InjectiveOn
<1>. QED
  BY <1>5, <1>7, <1>11 DEF JobInOnePlace

LEMMA OnceTake ==
  ASSUME OnceInv, NEW w \in Workers, Take(w)
  PROVE  /\ JobInOnePlace'
         /\ Head(job_stack[w]) \in Queued
         /\ Queued' = Queued \ {Head(job_stack[w])}
         /\ InHand' = InHand \cup {Head(job_stack[w])}
<1>. DEFINE s == job_stack[w]
            h == Head(s)
<1>1. /\ job_stack \in [Workers -> Seq(Jobs)] /\ s \in Seq(Jobs) /\ s # << >> /\ h \in Jobs
      /\ job_stack' = [job_stack EXCEPT ![w] = Tail(s)]
      /\ current \in [Workers -> Jobs \cup {NoJob}] /\ current[w] = NoJob /\ h # NoJob
      /\ current' = [current EXCEPT ![w] = h]
  <2>1. job_stack \in [Workers -> Seq(Jobs)] /\ current \in [Workers -> Jobs \cup {NoJob}]
    BY DEF OnceInv, TypeInv, TypeOK
  <2>2. current[w] = NoJob
    BY DEF OnceInv, HandsFull, Take, MayTake
  <2>3. h \in Jobs
    BY <2>1, TakeOwn, HeadTailProperties
  <2>. QED
    BY <2>1, <2>2, <2>3, TakeOwn, NoJobIsNoJob
<1>2. UNCHANGED <<carrying, issued, done, dropped, Carried>>
  BY DEF Take, callVars, history, Carried
<1>3. /\ \A v \in Workers : v # w => job_stack'[v] = job_stack[v]
      /\ job_stack'[w] = Tail(s)
  BY <1>1
<1>4. /\ Range(s) = Range(Tail(s)) \cup {h} /\ h \notin Range(Tail(s))
      /\ InjectiveOn(Tail(s), DOMAIN Tail(s))
  BY <1>1, PopFront DEF OnceInv, JobInOnePlace, NoTwins
<1>5. \A v \in Workers : v # w => h \notin Range(job_stack[v])
  BY <1>4 DEF OnceInv, JobInOnePlace, NoTwins
<1>6. h \in Queued /\ Queued' = Queued \ {h}
  BY <1>3, <1>4, <1>5 DEF Queued
<1>7. InHand' = InHand \cup {h}
  BY <1>1 DEF InHand
<1>8. h \notin InHand \cup done \cup dropped \cup Carried
  BY <1>6 DEF OnceInv, JobInOnePlace, Apart
<1>9. Accounted' /\ Apart'
  BY <1>2, <1>6, <1>7, <1>8 DEF OnceInv, JobInOnePlace, Accounted, Apart
<1>10. InjectiveOn(current, Holding)'
  <2>1. \A v \in Workers : current[v] # h
    BY <1>1, <1>8 DEF InHand
  <2>2. SUFFICES ASSUME NEW x \in Workers, NEW y \in Workers,
                        current'[x] # NoJob, current'[y] = current'[x]
                 PROVE  x = y
    BY DEF InjectiveOn, Holding
  <2>. QED
    BY <1>1, <2>1, <2>2 DEF OnceInv, JobInOnePlace, NoTwins, InjectiveOn, Holding
<1>11. \A v \in Workers : InjectiveOn(job_stack'[v], DOMAIN job_stack'[v])
  BY <1>3, <1>4 DEF OnceInv, JobInOnePlace, NoTwins
<1>12. \A u, v \in Workers : u # v => Range(job_stack'[u]) \cap Range(job_stack'[v]) = {}
  BY <1>3, <1>4 DEF OnceInv, JobInOnePlace, NoTwins
<1>13. NoTwins'
  BY <1>2, <1>10, <1>11, <1>12 DEF OnceInv, JobInOnePlace, NoTwins, InjectiveOn
<1>. QED
  BY <1>6, <1>7, <1>9, <1>13 DEF JobInOnePlace

LEMMA OnceFinish ==
  ASSUME OnceInv, NEW w \in Workers, Finish(w)
  PROVE  /\ JobInOnePlace'
         /\ current[w] \in InHand
         /\ InHand' = InHand \ {current[w]}
         /\ done' = done \cup {current[w]}
<1>. DEFINE j == current[w]
<1>1. /\ current \in [Workers -> Jobs \cup {NoJob}] /\ j # NoJob
      /\ current' = [current EXCEPT ![w] = NoJob]
      /\ done' = done \cup {j}
      /\ UNCHANGED <<carrying, job_stack, issued, dropped>>
  BY DEF OnceInv, TypeInv, TypeOK, HandsFull, Finish, callVars
<1>2. UNCHANGED <<Carried, Queued>>
  BY <1>1 DEF Carried, Queued
<1>3. \A v \in Workers : v # w => current[v] # j
  BY <1>1 DEF OnceInv, JobInOnePlace, NoTwins, InjectiveOn, Holding
<1>4. j \in InHand /\ InHand' = InHand \ {j}
  BY <1>1, <1>3 DEF InHand
<1>5. Accounted' /\ Apart'
  BY <1>1, <1>2, <1>4 DEF OnceInv, JobInOnePlace, Accounted, Apart
<1>6. InjectiveOn(current, Holding)'
  BY <1>1 DEF OnceInv, JobInOnePlace, NoTwins, InjectiveOn, Holding
<1>7. NoTwins'
  BY <1>1, <1>6 DEF OnceInv, JobInOnePlace, NoTwins, InjectiveOn
<1>. QED
  BY <1>1, <1>4, <1>5, <1>7 DEF JobInOnePlace

LEMMA OnceClear ==
  ASSUME OnceInv, DestroyClear
  PROVE  /\ JobInOnePlace'
         /\ Queued' = {}
         /\ dropped' = dropped \cup Queued
<1>1. /\ \A w \in Workers : DOMAIN job_stack'[w] = {}
      /\ dropped' = dropped \cup Queued
      /\ UNCHANGED <<carrying, current, issued, done>>
  BY DEF DestroyClear, runVars, callVars
<1>2. UNCHANGED <<Carried, InHand, Holding>>
  BY <1>1 DEF Carried, InHand, Holding
<1>3. Queued' = {}
  BY <1>1 DEF Queued, Range
<1>4. Accounted' /\ Apart'
  BY <1>1, <1>2, <1>3 DEF OnceInv, JobInOnePlace, Accounted, Apart
<1>5. NoTwins'
  BY <1>1, <1>2 DEF OnceInv, JobInOnePlace, NoTwins, InjectiveOn, Range
<1>. QED
  BY <1>1, <1>3, <1>4, <1>5 DEF JobInOnePlace

LEMMA OnceStep ==
  ASSUME OnceInv, [Next]_vars
  PROVE  OnceInv'
<1>1. TypeInv'
  BY TypeStep DEF OnceInv
<1>2. HandsFull'
  BY HandsStep DEF OnceInv
<1>3. ASSUME NEW t \in Callers,
             (\E j \in Jobs : PickQueue(t, j)) \/ Push(t) \/ Notify(t) \/ UseAfterClear(t)
      PROVE  JobInOnePlace'
  <2>1. CASE (\E j \in Jobs : PickQueue(t, j)) \/ Push(t)
    BY <2>1, OncePick, OncePush
  <2>2. CASE Notify(t) \/ UseAfterClear(t)
    <3>1. UNCHANGED <<carrying, job_stack, current, history>>
      BY <2>2 DEF Notify, UseAfterClear, poolVars, runVars, callVars
    <3>. QED
      BY <3>1, OnceFrame DEF OnceInv
  <2>. QED
    BY <1>3, <2>1, <2>2
<1>4. ASSUME NEW w \in Workers,
             Wait(w) \/ SpuriousWake(w) \/ Exit(w) \/ Take(w) \/ Start(w) \/ Finish(w)
      PROVE  JobInOnePlace'
  <2>1. CASE Take(w) \/ Finish(w)
    BY <2>1, OnceTake, OnceFinish
  <2>2. CASE Wait(w) \/ SpuriousWake(w) \/ Exit(w) \/ Start(w)
    <3>1. UNCHANGED <<carrying, job_stack, current, history>>
      BY <2>2 DEF Wait, SpuriousWake, Exit, Start, poolVars, callVars
    <3>. QED
      BY <3>1, OnceFrame DEF OnceInv
  <2>. QED
    BY <1>4, <2>1, <2>2
<1>5. ASSUME DestroyStop \/ DestroyNotify \/ UNCHANGED vars
      PROVE  JobInOnePlace'
  <2>1. UNCHANGED <<carrying, job_stack, current, history>>
    BY <1>5 DEF DestroyStop, DestroyNotify, vars, poolVars, runVars, callVars
  <2>. QED
    BY <2>1, OnceFrame DEF OnceInv
<1>6. ASSUME DestroyClear
      PROVE  JobInOnePlace'
  BY <1>6, OnceClear
<1>. QED
  BY <1>1, <1>2, <1>3, <1>4, <1>5, <1>6 DEF Next, OnceInv

\* For every number of workers and callers and every finite set of jobs: no job is
\* duplicated, lost or run twice on its way through queue_job, the deques, run and
\* destroy (thread_pool.cpp:45-148).
THEOREM OnceCorrect == Spec => []JobInOnePlace
<1>1. Init => OnceInv
  BY TypeInit, HandsInit, OnceInit DEF OnceInv
<1>2. OnceInv => JobInOnePlace
  BY DEF OnceInv
<1>. QED
  BY <1>1, <1>2, OnceStep, PTL DEF Spec
=============================================================================
