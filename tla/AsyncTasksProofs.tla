---------------------------- MODULE AsyncTasksProofs ----------------------------
(***************************************************************************)
(* Theorems about AsyncTasks, with its scheduler, for any finite set of    *)
(* addresses, any number of workers and every bound on frames and sleeps.  *)
(***************************************************************************)
EXTENDS AsyncTasks, FiniteSetTheorems, FunctionTheorems, SequenceTheorems, TLAPS

(* A queue in which no handle is twice. *)

\* One more at the end.
LEMMA Appended ==
  ASSUME NEW S, NEW list \in Seq(S), NEW x \in S, IsInjective(list), x \notin Range(list)
  PROVE  /\ Append(list, x) \in Seq(S)
         /\ Range(Append(list, x)) = Range(list) \cup {x}
         /\ IsInjective(Append(list, x))
<1>. DEFINE m == Len(list)
            more == Append(list, x)
<1>1. m \in Nat /\ DOMAIN list = 1 .. m
  OBVIOUS
<1>2. /\ more \in Seq(S) /\ DOMAIN more = 1 .. m + 1
      /\ more[m + 1] = x /\ \A i \in 1 .. m : more[i] = list[i]
  OBVIOUS
<1>. HIDE DEF m, more
<1>3. \A i \in 1 .. m : more[i] \in Range(list)
  BY <1>1, <1>2 DEF Range
<1>4. ASSUME NEW i \in 1 .. m + 1, NEW j \in 1 .. m + 1, more[i] = more[j] PROVE i = j
  <2>1. (i \in 1 .. m \/ i = m + 1) /\ (j \in 1 .. m \/ j = m + 1)
    BY <1>1
  <2>. QED
    BY <1>1, <1>2, <1>3, <1>4, <2>1 DEF IsInjective
<1>5. ASSUME NEW y PROVE y \in Range(more) <=> y \in Range(list) \cup {x}
  <2>1. ASSUME NEW i \in 1 .. m PROVE i \in 1 .. m + 1
    BY <1>1
  <2>2. m + 1 \in 1 .. m + 1
    BY <1>1
  <2>3. ASSUME NEW i \in 1 .. m + 1 PROVE i \in 1 .. m \/ i = m + 1
    BY <1>1
  <2>. QED
    BY <1>1, <1>2, <1>3, <2>1, <2>2, <2>3 DEF Range
<1>. QED
  BY <1>2, <1>4, <1>5 DEF IsInjective, more

\* Two queues without a common handle, one before the other.
LEMMA Joined ==
  ASSUME NEW S, NEW list \in Seq(S), NEW more \in Seq(S), IsInjective(list), IsInjective(more),
         Range(list) \cap Range(more) = {}
  PROVE  /\ list \o more \in Seq(S)
         /\ Range(list \o more) = Range(list) \cup Range(more)
         /\ IsInjective(list \o more)
<1>. DEFINE m == Len(list)
            n == Len(more)
            all == list \o more
<1>1. /\ m \in Nat /\ n \in Nat /\ DOMAIN list = 1 .. m /\ DOMAIN more = 1 .. n
      /\ all \in Seq(S) /\ DOMAIN all = 1 .. m + n
  BY ConcatProperties, LenProperties
<1>2. \A i \in 1 .. m + n : all[i] = IF i <= m THEN list[i] ELSE more[i - m]
  BY ConcatProperties
<1>3. Range(all) = Range(list) \cup Range(more)
  BY RangeConcatenation
<1>4. \A i \in 1 .. m, j \in 1 .. n : list[i] # more[j]
  <2>1. \A i \in 1 .. m : list[i] \in Range(list)
    BY <1>1 DEF Range
  <2>2. \A j \in 1 .. n : more[j] \in Range(more)
    BY <1>1 DEF Range
  <2>. QED
    BY <2>1, <2>2
<1>. HIDE DEF m, n, all
<1>5. ASSUME NEW a \in 1 .. m + n, NEW b \in 1 .. m + n, all[a] = all[b] PROVE a = b
  <2>1. CASE a <= m /\ b <= m
    <3>1. a \in 1 .. m /\ b \in 1 .. m
      BY <1>1, <2>1
    <3>2. list[a] = list[b]
      BY <1>2, <1>5, <2>1
    <3>. QED
      BY <1>1, <3>1, <3>2 DEF IsInjective
  <2>2. CASE a > m /\ b > m
    <3>1. a - m \in 1 .. n /\ b - m \in 1 .. n
      BY <1>1, <2>2
    <3>2. more[a - m] = more[b - m]
      BY <1>1, <1>2, <1>5, <2>2
    <3>3. a - m = b - m
      BY <1>1, <3>1, <3>2 DEF IsInjective
    <3>. QED
      BY <1>1, <3>3
  <2>3. CASE a <= m /\ b > m
    BY <1>1, <1>2, <1>4, <1>5, <2>3
  <2>4. CASE a > m /\ b <= m
    BY <1>1, <1>2, <1>4, <1>5, <2>4
  <2>. QED
    BY <1>1, <2>1, <2>2, <2>3, <2>4
<1>. QED
  BY <1>1, <1>3, <1>5 DEF IsInjective, all

\* One more at the front.
LEMMA Prefixed ==
  ASSUME NEW S, NEW list \in Seq(S), NEW x \in S, IsInjective(list), x \notin Range(list)
  PROVE  /\ <<x>> \o list \in Seq(S)
         /\ Range(<<x>> \o list) = Range(list) \cup {x}
         /\ IsInjective(<<x>> \o list)
<1>1. <<x>> \in Seq(S) /\ DOMAIN <<x>> = 1 .. 1 /\ <<x>>[1] = x
  OBVIOUS
<1>2. Range(<<x>>) = {x} /\ IsInjective(<<x>>)
  BY <1>1 DEF Range, IsInjective
<1>3. Range(<<x>>) \cap Range(list) = {}
  BY <1>2
<1>4. /\ <<x>> \o list \in Seq(S)
      /\ Range(<<x>> \o list) = Range(<<x>>) \cup Range(list)
      /\ IsInjective(<<x>> \o list)
  BY <1>1, <1>2, <1>3, Joined
<1>. QED
  BY <1>2, <1>4

\* The first one leaves.
LEMMA HeadLeaves ==
  ASSUME NEW S, NEW list \in Seq(S), list # << >>, IsInjective(list)
  PROVE  /\ Head(list) \in S /\ Head(list) \in Range(list)
         /\ Tail(list) \in Seq(S) /\ IsInjective(Tail(list))
         /\ Range(Tail(list)) = Range(list) \ {Head(list)}
<1>. DEFINE m == Len(list)
            rest == Tail(list)
<1>1. /\ m \in Nat /\ m > 0 /\ DOMAIN list = 1 .. m /\ Head(list) = list[1] /\ list[1] \in S
      /\ rest \in Seq(S) /\ DOMAIN rest = 1 .. m - 1
      /\ \A i \in 1 .. m - 1 : rest[i] = list[i + 1]
  BY EmptySeq, HeadTailProperties
<1>. HIDE DEF m, rest
<1>2. \A i, j \in 1 .. m : list[i] = list[j] => i = j
  BY <1>1 DEF IsInjective
<1>3. ASSUME NEW i \in 1 .. m - 1, NEW j \in 1 .. m - 1, rest[i] = rest[j] PROVE i = j
  <2>1. i + 1 \in 1 .. m /\ j + 1 \in 1 .. m
    BY <1>1
  <2>2. i + 1 = j + 1
    BY <1>1, <1>2, <1>3, <2>1
  <2>. QED
    BY <2>2
<1>4. ASSUME NEW y PROVE y \in Range(rest) <=> y \in Range(list) \ {list[1]}
  <2>1. ASSUME NEW i \in 1 .. m - 1, y = rest[i] PROVE y \in Range(list) \ {list[1]}
    <3>1. i + 1 \in 1 .. m /\ 1 \in 1 .. m /\ i + 1 # 1
      BY <1>1
    <3>. QED
      BY <1>1, <1>2, <2>1, <3>1 DEF Range
  <2>2. ASSUME NEW i \in 1 .. m, y = list[i], y # list[1] PROVE y \in Range(rest)
    <3>1. i - 1 \in 1 .. m - 1 /\ i - 1 + 1 = i
      BY <1>1, <2>2
    <3>2. rest[i - 1] = y
      BY <1>1, <2>2, <3>1
    <3>. QED
      BY <1>1, <3>1, <3>2 DEF Range
  <2>. QED
    BY <1>1, <2>1, <2>2 DEF Range
<1>5. list[1] \in Range(list)
  BY <1>1 DEF Range
<1>. QED
  BY <1>1, <1>3, <1>4, <1>5 DEF IsInjective, rest

\* The last one leaves.
LEMMA LastLeaves ==
  ASSUME NEW S, NEW list \in Seq(S), list # << >>, IsInjective(list)
  PROVE  /\ Last(list) \in S /\ Last(list) \in Range(list)
         /\ Front(list) \in Seq(S) /\ IsInjective(Front(list))
         /\ Range(Front(list)) = Range(list) \ {Last(list)}
<1>. DEFINE m == Len(list)
            rest == SubSeq(list, 1, m - 1)
<1>1. /\ m \in Nat /\ m > 0 /\ DOMAIN list = 1 .. m /\ list[m] \in S
      /\ \A i \in 1 .. m - 1 : list[i] \in S
  BY EmptySeq
<1>2. /\ rest \in Seq(S) /\ DOMAIN rest = 1 .. m - 1
      /\ \A i \in 1 .. m - 1 : rest[i] = list[i]
  <2>1. /\ rest \in Seq(S) /\ Len(rest) = IF 1 <= m - 1 THEN m - 1 - 1 + 1 ELSE 0
        /\ \A i \in 1 .. m - 1 - 1 + 1 : rest[i] = list[1 + i - 1]
    BY <1>1, SubSeqProperties
  <2>. QED
    BY <1>1, <2>1
<1>3. Last(list) = list[m] /\ Front(list) = rest
  BY DEF Last, Front
<1>. HIDE DEF m, rest
<1>4. \A i, j \in 1 .. m : list[i] = list[j] => i = j
  BY <1>1 DEF IsInjective
<1>5. ASSUME NEW i \in 1 .. m - 1 PROVE i \in 1 .. m /\ i # m
  BY <1>1
<1>6. ASSUME NEW i \in 1 .. m, i # m PROVE i \in 1 .. m - 1
  BY <1>1, <1>6
<1>7. m \in 1 .. m
  BY <1>1
<1>8. \A i, j \in 1 .. m - 1 : rest[i] = rest[j] => i = j
  BY <1>2, <1>4, <1>5
<1>9. ASSUME NEW y PROVE y \in Range(rest) <=> y \in Range(list) \ {list[m]}
  BY <1>1, <1>2, <1>4, <1>5, <1>6, <1>7 DEF Range
<1>. QED
  BY <1>1, <1>2, <1>3, <1>7, <1>8, <1>9 DEF IsInjective, Range

\* Any order of a finite set.
LEMMA Ordered ==
  ASSUME NEW S, IsFiniteSet(S), NEW list \in SetToSeqs(S)
  PROVE  list \in Seq(S) /\ Range(list) = S /\ IsInjective(list)
<1>. DEFINE D == 1 .. Cardinality(S)
<1>1. Cardinality(S) \in Nat
  BY FS_CardinalityType
<1>2. list \in [D -> S] /\ \A i, j \in D : i # j => list[i] # list[j]
  BY DEF SetToSeqs
<1>3. IsInjective(list)
  BY <1>2 DEF IsInjective
<1>4. list \in Injection(D, S)
  BY <1>2, Fun_IsInj
<1>5. IsFiniteSet(D) /\ Cardinality(D) = Cardinality(S)
  BY <1>1, FS_Interval
<1>6. list \in Surjection(D, S)
  BY <1>4, <1>5, FS_Injection
<1>7. Range(list) = S
  BY <1>2, <1>6 DEF Surjection, Range
<1>. QED
  BY <1>1, <1>2, <1>3, <1>7, SeqDef

\* It is no longer than there are handles.
LEMMA Bounded ==
  ASSUME NEW S, IsFiniteSet(S), NEW list \in Seq(S), IsInjective(list)
  PROVE  Len(list) <= Cardinality(S)
<1>. DEFINE m == Len(list)
<1>1. m \in Nat /\ list \in [1 .. m -> S]
  OBVIOUS
<1>3. IsFiniteSet(1 .. m) /\ Cardinality(1 .. m) = m
  BY <1>1, FS_Interval
<1>2. list \in Injection(1 .. m, S)
  BY <1>1, Fun_IsInj DEF IsInjective
<1>. QED
  BY <1>1, <1>2, <1>3, FS_Injection

-----------------------------------------------------------------------------
(* The invariant. *)

\* The ways in which a coroutine can wait to be resumed.
Queued(a) == \E w \in Workers : a \in Range(tasks[w])
InHand(a) == \E w \in Workers : at[w] = "resume" /\ hand[w] = a
Readied(a) == \E w \in Workers : a \in ready[w]
Delayed(a) == a \in sleeping \/ a \in due
Awaiting(a) == \E c \in Addrs : Live(c) /\ cont[c] = a

Waits(a) == Queued(a) \/ InHand(a) \/ Readied(a) \/ Delayed(a) \/ Awaiting(a)

\* It waits in one of these ways only.
Alone(a) ==
  /\ Queued(a) => ~InHand(a) /\ ~Readied(a) /\ ~Delayed(a) /\ ~Awaiting(a)
  /\ InHand(a) => ~Readied(a) /\ ~Delayed(a) /\ ~Awaiting(a)
  /\ Readied(a) => ~Delayed(a) /\ ~Awaiting(a)
  /\ Delayed(a) => ~Awaiting(a)
  /\ ~(a \in sleeping /\ a \in due)

\* The cleanup knows it.
Swept(a) == a \in cleanup \/ \E w \in Workers : a \in swept[w]

\* The object p holds was made and not awaited yet.
Fresh(p) == child[p] # None /\ ~awaited[p]

\* A coroutine that was made and nothing more.
Unknown(c) ==
  frame[c] = "suspended" /\ c \notin refs /\ ~Waits(c) /\ cont[c] = None /\ child[c] = None

Types ==
  /\ frame \in [Addrs -> {"free", "suspended", "running", "final", "done"}]
  /\ threads \in {0, 1, N} /\ running \in BOOLEAN /\ sync \in BOOLEAN
  /\ tasks \in [Workers -> Seq(Addrs)] /\ next \in Workers
  /\ sleeping \subseteq Addrs /\ due \subseteq Addrs
  /\ refs \subseteq Addrs /\ cleanup \subseteq Addrs
  /\ at \in [Workers -> {"off", "tick", "place", "steal", "resume", "body", "final", "clean",
                         "pass"}]
  /\ hand \in [Workers -> Addrs \cup {None}]
  /\ ready \in [Workers -> SUBSET Addrs] /\ swept \in [Workers -> SUBSET Addrs]
  /\ crashed \in BOOLEAN /\ dropped \subseteq Addrs
  /\ child \in [Addrs -> Addrs \cup {None}] /\ awaited \in [Addrs -> BOOLEAN]
  /\ cont \in [Addrs -> Addrs \cup {None}]
  /\ caller \in {"idle", "scheduled", "looping", "waiting"}
  /\ syncTask \in Addrs \cup {None} /\ answer \in BOOLEAN
  /\ stale \subseteq Addrs /\ made \in 0 .. MaxFrames /\ slept \in 0 .. MaxSleeps

\* What a worker holds, and where; there are queues wherever a worker runs; and inside
\* run() there is one worker and one queue.
Post(w) ==
  /\ hand[w] # None <=> at[w] \in {"resume", "body", "final"}
  /\ ready[w] # {} => at[w] = "place"
  /\ swept[w] # {} => at[w] = "clean"
  /\ at[w] # "off" => threads # 0
  /\ at[w] = "pass" => w = 0 /\ sync
  /\ sync /\ w # 0 => at[w] = "off"

Posts ==
  /\ \A w \in Workers : Post(w) /\ (sync /\ w # 0 => tasks[w] = << >>)
  /\ sync => threads = 1 /\ running
  /\ caller # "idle" => syncTask # None

\* Nothing is twice in the queues, in the hands or among what a worker took out of
\* delayed_tasks, and nothing is in two of these places.
Queues ==
  /\ \A w \in Workers : IsInjective(tasks[w])
  /\ \A v, w \in Workers : v # w => Range(tasks[v]) \cap Range(tasks[w]) = {}

Single ==
  /\ Queues
  /\ \A v, w \in Workers : v # w => ready[v] \cap ready[w] = {}
  /\ \A v, w \in Workers : hand[v] = hand[w] /\ hand[v] # None => v = w
  /\ \A a \in Addrs : Alone(a)

\* The state of a frame and who has its handle.  A coroutine that is in handle_refs, or
\* that another one awaits, was started: it will be resumed from somewhere.
Frames ==
  /\ \A a \in Addrs :
       /\ Waits(a) => frame[a] = "suspended"
       /\ frame[a] = "running" => \E w \in Workers : at[w] = "body" /\ hand[w] = a
       /\ frame[a] = "final" => \E w \in Workers : at[w] = "final" /\ hand[w] = a
       /\ frame[a] = "free" => a \notin refs
       /\ frame[a] = "suspended" /\ (a \in refs \/ cont[a] # None) => Waits(a) \/ a \in dropped
       /\ frame[a] = "done" /\ a \in refs => Swept(a)
  /\ \A w \in Workers :
       /\ at[w] = "body" => frame[hand[w]] = "running"
       /\ at[w] = "final" => frame[hand[w]] = "final"

\* A coroutine that was made and not awaited yet is known to nobody but the one that made
\* it; the continuation of a coroutine is the one that awaits it.
Objects ==
  /\ \A p \in Addrs : IF child[p] = None THEN ~awaited[p] ELSE frame[p] \in {"suspended", "running"}
  /\ \A p, c \in Addrs : Fresh(p) /\ child[p] = c => Unknown(c)
  /\ \A p, q \in Addrs : Fresh(p) /\ Fresh(q) /\ child[p] = child[q] => p = q
  /\ \A c \in Addrs : Live(c) /\ cont[c] # None => child[cont[c]] = c /\ awaited[cont[c]]

\* A coroutine made at an address nobody named then: while it waits or runs it is in
\* handle_refs and not in the cleanup, and who still names it is the one that awaits it.
Named ==
  \A a \in Addrs \ stale :
    /\ Waits(a) \/ frame[a] \in {"running", "final"} => a \in refs /\ ~Swept(a)
    /\ \A p \in Addrs : child[p] = a /\ Live(a) =>
          IF Fresh(p) THEN ~Swept(a) ELSE cont[a] = p
    /\ syncTask = a /\ answer => ~Live(a)

Sound == Frames /\ Objects /\ Named

HomeInv == Types /\ Posts /\ Single /\ Reclaimed /\ (~crashed => Sound)

-----------------------------------------------------------------------------
(* Types and posts. *)

LEMMA SlotInRange ==
  ASSUME Types, threads # 0
  PROVE  next % threads \in Workers /\ (threads = 1 => next % threads = 0)
<1>1. threads \in Nat \ {0} /\ threads <= N /\ next \in Nat
  BY SchedulerAssumption DEF Types, Workers
<1>2. next % threads \in 0 .. threads - 1
  BY <1>1
<1>. QED
  BY <1>1, <1>2, SchedulerAssumption DEF Workers

LEMMA NextInRange == ASSUME Types PROVE (next + 1) % N \in Workers
BY SchedulerAssumption DEF Types, Workers

LEMMA InitTypes == Init => Types /\ Posts
<1>. SUFFICES ASSUME Init PROVE Types /\ Posts
  OBVIOUS
<1>. USE SchedulerAssumption, TasksAssumption DEF Init, SchedInit, Workers
<1>1. 0 \in 0 .. N - 1 /\ 0 \in 0 .. MaxFrames /\ 0 \in 0 .. MaxSleeps
  OBVIOUS
<1>2. tasks \in [Workers -> Seq(Addrs)]
  OBVIOUS
<1>. QED
  BY <1>1, <1>2 DEF Types, Posts, Post

\* schedule_impl, whether it queues the handle or not.
LEMMA ScheduleTypes ==
  ASSUME Types, Posts, NEW h \in Addrs, Schedule(h)
  PROVE  /\ tasks' \in [Workers -> Seq(Addrs)] /\ next' \in Workers
         /\ refs' \subseteq Addrs /\ crashed' \in BOOLEAN
         /\ sync => \A w \in Workers : w # 0 => tasks'[w] = << >>
<1>1. next' \in Workers
  BY NextInRange DEF Schedule
<1>2. CASE UNCHANGED <<tasks, refs>>
  BY <1>1, <1>2 DEF Schedule, Types, Posts
<1>3. CASE /\ threads # 0
           /\ tasks' = [tasks EXCEPT ![next % threads] = Append(@, h)]
           /\ refs' = refs \cup {h}
  <2>1. next % threads \in Workers /\ (threads = 1 => next % threads = 0)
    BY <1>3, SlotInRange
  <2>. DEFINE n == next % threads
  <2>2. tasks' = [tasks EXCEPT ![n] = Append(@, h)] /\ n \in Workers /\ (threads = 1 => n = 0)
    BY <1>3, <2>1
  <2>. HIDE DEF n
  <2>3. tasks[n] \in Seq(Addrs)
    BY <2>2 DEF Types
  <2>4. Append(tasks[n], h) \in Seq(Addrs)
    BY <2>3
  <2>5. tasks' \in [Workers -> Seq(Addrs)]
    BY <2>2, <2>4 DEF Types
  <2>6. sync => \A w \in Workers : w # 0 => tasks'[w] = << >>
    BY <2>2 DEF Types, Posts
  <2>7. refs' \subseteq Addrs /\ crashed' \in BOOLEAN
    BY <1>3 DEF Types, Schedule
  <2>. QED
    BY <1>1, <2>5, <2>6, <2>7
<1>. QED
  BY <1>2, <1>3 DEF Schedule

LEMMA FreeTypes ==
  ASSUME Types, NEW list, Free(list)
  PROVE  /\ frame' \in [Addrs -> {"free", "suspended", "running", "final", "done"}]
         /\ refs' \subseteq Addrs /\ crashed' \in BOOLEAN
BY DEF Free, Types

LEMMA TypesStep == Types /\ Posts /\ [Next]_vars => Types'
<1>. SUFFICES ASSUME Types, Posts, [Next]_vars PROVE Types'
  OBVIOUS
<1>. USE SchedulerAssumption, TasksAssumption DEF Types
<1>1. CASE UNCHANGED vars
  BY <1>1 DEF vars, schedVars, ctlVars, queueVars, delayVars, refVars, workVars, taskVars, objectVars,
              callerVars, bounds
<1>. USE DEF ctlVars, queueVars, delayVars, refVars, workVars, taskVars, objectVars, callerVars, bounds
<1>2. CASE Control
  BY <1>2 DEF Control, Start, Stop, Quiet
<1>3. CASE EnterRun
  <2>1. /\ tasks' = [w \in Workers |-> IF w = 0 THEN tasks[0] ELSE << >>]
        /\ dropped' = dropped \cup UNION {Range(tasks[w]) : w \in Workers \ {0}}
        /\ threads' = 1 /\ running' /\ sync' /\ at' = [at EXCEPT ![0] = "pass"]
        /\ caller' \in {"looping", "idle"}
    BY <1>3 DEF EnterRun, RunBegin
  <2>2. 0 \in Workers /\ << >> \in Seq(Addrs)
    BY DEF Workers
  <2>3. tasks' \in [Workers -> Seq(Addrs)]
    BY <2>1, <2>2
  <2>4. \A w \in Workers : Range(tasks[w]) \subseteq Addrs
    BY RangeOfSeq
  <2>. QED
    BY <1>3, <2>1, <2>2, <2>3, <2>4 DEF EnterRun, RunBegin
<1>4. CASE RunPass
  <2>1. PICK s \in SetToSeqs(due) : tasks' = [tasks EXCEPT ![0] = s \o @]
    BY <1>4 DEF RunPass, Pass
  <2>2. s \in Seq(Addrs)
    <3>1. s \in Seq(due)
      BY <2>1, FS_Subset, Ordered
    <3>. QED
      BY <3>1, SeqMonotonic
  <2>3. 0 \in Workers
    BY DEF Workers
  <2>4. tasks' \in [Workers -> Seq(Addrs)]
    BY <2>1, <2>2, <2>3
  <2>5. /\ at' \in [Workers -> {"off", "tick", "place", "steal", "resume", "body", "final", "clean",
                               "pass"}]
        /\ sync' \in BOOLEAN /\ running' \in BOOLEAN
    BY <1>4 DEF RunPass, Pass
  <2>6. caller' \in {"idle", "scheduled", "looping", "waiting"}
    BY <1>4 DEF RunPass
  <2>7. Free(cleanup)
    BY <1>4 DEF RunPass, Pass
  <2>. QED
    BY <1>4, <2>4, <2>5, <2>6, <2>7, FreeTypes DEF RunPass, Pass
<1>5. CASE RunSyncEnd
  BY <1>5 DEF RunSyncEnd, Posts
<1>6. ASSUME NEW h \in Addrs, Expire(h), UNCHANGED taskVars PROVE Types'
  BY <1>6 DEF Expire
<1>7. ASSUME NEW c \in Addrs, Launch(c) PROVE Types'
  <2>1. Schedule(c)
    BY <1>7 DEF Launch, Make
  <2>2. /\ tasks' \in [Workers -> Seq(Addrs)] /\ next' \in Workers
        /\ refs' \subseteq Addrs /\ crashed' \in BOOLEAN
    BY <2>1, ScheduleTypes
  <2>. QED
    BY <1>7, <2>2 DEF Launch, Make
<1>8. ASSUME NEW c \in Addrs, RunSync(c) PROVE Types'
  <2>1. Schedule(c)
    BY <1>8 DEF RunSync
  <2>2. /\ tasks' \in [Workers -> Seq(Addrs)] /\ next' \in Workers
        /\ refs' \subseteq Addrs /\ crashed' \in BOOLEAN
    BY <2>1, ScheduleTypes
  <2>3. /\ awaited' \in [Addrs -> BOOLEAN] /\ cont' \in [Addrs -> Addrs \cup {None}]
        /\ stale' \subseteq Addrs /\ made' \in 0 .. MaxFrames
    BY <1>8 DEF RunSync, Make
  <2>. QED
    BY <1>8, <2>2, <2>3 DEF RunSync
<1>9. ASSUME NEW w \in Workers, Exit(w), UNCHANGED taskVars PROVE Types'
  BY <1>9 DEF Exit
<1>10. ASSUME NEW w \in Workers, Tick(w), UNCHANGED taskVars PROVE Types'
  BY <1>10 DEF Tick
<1>11. ASSUME NEW w \in Workers, Take(w), UNCHANGED taskVars PROVE Types'
  <2>1. tasks[w] \in Seq(Addrs) /\ tasks[w] # << >>
    BY <1>11 DEF Take, Looking
  <2>2. Head(tasks[w]) \in Addrs /\ Tail(tasks[w]) \in Seq(Addrs)
    BY <2>1
  <2>3. tasks' \in [Workers -> Seq(Addrs)] /\ hand' \in [Workers -> Addrs \cup {None}]
    BY <1>11, <2>2 DEF Take, Looking
  <2>. QED
    BY <1>11, <2>3 DEF Take, Looking
<1>12. ASSUME NEW w \in Workers, NoTask(w), UNCHANGED taskVars PROVE Types'
  BY <1>12 DEF NoTask, Looking
<1>13. ASSUME NEW w \in Workers, Sweep(w), UNCHANGED taskVars PROVE Types'
  BY <1>13 DEF Sweep
<1>14. ASSUME NEW w \in Workers, Clean(w), UNCHANGED taskVars PROVE Types'
  <2>1. Free(swept[w])
    BY <1>14 DEF Clean
  <2>. QED
    BY <1>14, <2>1, FreeTypes DEF Clean
<1>15. ASSUME NEW w \in Workers, Resume(w), UNCHANGED taskVars PROVE Types'
  BY <1>15 DEF Resume
<1>16. ASSUME NEW w \in Workers, NEW h \in Addrs, Place(w, h), UNCHANGED taskVars PROVE Types'
  <2>. DEFINE n == next % threads
  <2>1. n \in Workers
    BY <1>16, SlotInRange DEF Place, Posts, Post
  <2>2. next' \in Workers
    BY <1>16, NextInRange DEF Place
  <2>3. tasks' = [tasks EXCEPT ![n] = <<h>> \o @]
    BY <1>16 DEF Place
  <2>. HIDE DEF n
  <2>4. <<h>> \o tasks[n] \in Seq(Addrs)
    BY <2>1
  <2>5. tasks' \in [Workers -> Seq(Addrs)]
    BY <2>1, <2>3, <2>4
  <2>. QED
    BY <1>16, <2>2, <2>5 DEF Place
<1>17. ASSUME NEW w \in Workers, NEW i \in Workers, Steal(w, i), UNCHANGED taskVars PROVE Types'
  <2>1. tasks[i] \in Seq(Addrs) /\ tasks[i] # << >>
    BY <1>17 DEF Steal
  <2>2. Last(tasks[i]) \in Addrs /\ Front(tasks[i]) \in Seq(Addrs)
    BY <2>1 DEF Last, Front
  <2>3. tasks' \in [Workers -> Seq(Addrs)] /\ hand' \in [Workers -> Addrs \cup {None}]
    BY <1>17, <2>2 DEF Steal
  <2>. QED
    BY <1>17, <2>3 DEF Steal
<1>18. ASSUME NEW w \in Workers, Await(w) PROVE Types'
  <2>1. hand[w] \in Addrs /\ child[hand[w]] \in Addrs /\ Schedule(child[hand[w]])
    BY <1>18 DEF Await, InBody, Posts, Post
  <2>2. /\ tasks' \in [Workers -> Seq(Addrs)] /\ next' \in Workers
        /\ refs' \subseteq Addrs /\ crashed' \in BOOLEAN
    BY <2>1, ScheduleTypes
  <2>. QED
    BY <1>18, <2>1, <2>2 DEF Await, InBody, ContinueWith, GoHome, Home
<1>19. ASSUME NEW w \in Workers, Drop(w) PROVE Types'
  <2>1. hand[w] \in Addrs
    BY <1>19 DEF Drop, InBody, Posts, Post
  <2>. QED
    BY <1>19, <2>1 DEF Drop, InBody
<1>20. ASSUME NEW w \in Workers, Sleep(w) PROVE Types'
  <2>1. hand[w] \in Addrs
    BY <1>20 DEF Sleep, Suspend, InBody, Posts, Post
  <2>. QED
    BY <1>20, <2>1 DEF Sleep, Suspend, InBody, GoHome, Home
<1>21. ASSUME NEW w \in Workers, Yield(w) PROVE Types'
  <2>1. hand[w] \in Addrs
    BY <1>21 DEF Yield, Suspend, InBody, Posts, Post
  <2>. QED
    BY <1>21, <2>1 DEF Yield, Suspend, InBody, GoHome, Home
<1>22. ASSUME NEW w \in Workers, Return(w) PROVE Types'
  <2>1. /\ frame' \in [Addrs -> {"free", "suspended", "running", "final", "done"}]
        /\ at' \in [Workers -> {"off", "tick", "place", "steal", "resume", "body", "final", "clean",
                               "pass"}]
    BY <1>22 DEF Return
  <2>. QED
    BY <1>22, <2>1 DEF Return
<1>23. ASSUME NEW w \in Workers, NEW c \in Addrs, Call(w, c) PROVE Types'
  <2>1. /\ awaited' \in [Addrs -> BOOLEAN] /\ cont' \in [Addrs -> Addrs \cup {None}]
        /\ stale' \subseteq Addrs /\ made' \in 0 .. MaxFrames
    BY <1>23 DEF Call, Make
  <2>2. /\ frame' \in [Addrs -> {"free", "suspended", "running", "final", "done"}]
        /\ child' \in [Addrs -> Addrs \cup {None}]
    BY <1>23 DEF Call
  <2>. QED
    BY <1>23, <2>1, <2>2 DEF Call
<1>24. ASSUME NEW w \in Workers, NEW c \in Addrs, Spawn(w, c) PROVE Types'
  BY <1>7, <1>24 DEF Spawn
<1>25. ASSUME NEW w \in Workers, Final(w) PROVE Types'
  <2>1. hand[w] \in Addrs
    BY <1>25 DEF Final, Posts, Post
  <2>. QED
    BY <1>25, <2>1 DEF Final, Complete, HandOver, GoHome, Home
<1>. QED
  BY <1>1, <1>2, <1>3, <1>4, <1>5, <1>6, <1>7, <1>8, <1>9, <1>10, <1>11, <1>12, <1>13, <1>14, <1>15, <1>16, <1>17, <1>18, <1>19, <1>20, <1>21, <1>22, <1>23, <1>24, <1>25
     DEF Next, Time, Worker, WorkerStep, Body

\* A step of one worker.
LEMMA PostsOfOne ==
  ASSUME Posts, NEW w \in Workers,
         \A v \in Workers : v # w => /\ at'[v] = at[v] /\ hand'[v] = hand[v]
                                    /\ ready'[v] = ready[v] /\ swept'[v] = swept[v],
         UNCHANGED <<threads, running, sync, caller, syncTask>>, Post(w)',
         sync => \A v \in Workers : v # 0 => tasks'[v] = << >>
  PROVE  Posts'
<1>1. \A v \in Workers : v # w => Post(v)'
  BY DEF Posts, Post
<1>. QED
  BY <1>1 DEF Posts

\* A step that leaves the workers where they are.
LEMMA PostsKept ==
  ASSUME Posts, UNCHANGED <<at, hand, ready, swept, threads, running, sync>>,
         sync => \A v \in Workers : v # 0 => tasks'[v] = << >>,
         caller' # "idle" => syncTask' # None
  PROVE  Posts'
BY DEF Posts, Post

LEMMA PostsStep == Types /\ Posts /\ [Next]_vars => Posts'
<1>. SUFFICES ASSUME Types, Posts, [Next]_vars PROVE Posts'
  OBVIOUS
<1>1. CASE UNCHANGED vars
  <2>1. UNCHANGED <<at, hand, ready, swept, threads, running, sync, tasks, caller, syncTask>>
    BY <1>1 DEF vars, schedVars, ctlVars, queueVars, delayVars, refVars, workVars, taskVars, objectVars,
                callerVars, bounds
  <2>. QED
    BY <2>1, PostsKept DEF Posts
<1>. USE DEF ctlVars, queueVars, delayVars, refVars, workVars, taskVars, objectVars, callerVars, bounds
<1>2. CASE Control
  <2>1. CASE Start
    <3>1. \A w \in Workers : Post(w)' /\ (sync' /\ w # 0 => tasks'[w] = << >>)
      BY <1>2, <2>1, SchedulerAssumption DEF Start, Quiet, Posts, Post, Control, Types
    <3>. QED
      BY <1>2, <2>1, <3>1 DEF Start, Posts, Control
  <2>2. CASE Stop
    BY <1>2, <2>2 DEF Stop, Posts, Post, Control
  <2>. QED
    BY <1>2, <2>1, <2>2 DEF Control
<1>3. CASE EnterRun
  <2>1. \A w \in Workers : Post(w)' /\ (sync' /\ w # 0 => tasks'[w] = << >>)
    BY <1>3 DEF EnterRun, RunBegin, Quiet, Posts, Post, Types
  <2>. QED
    BY <1>3, <2>1 DEF EnterRun, RunBegin, Posts
<1>4. CASE RunPass
  <2>1. PICK s \in SetToSeqs(due) : tasks' = [tasks EXCEPT ![0] = s \o @]
    BY <1>4 DEF RunPass, Pass
  <2>2. /\ sync /\ at[0] = "pass" /\ 0 \in Workers
        /\ \A w \in Workers : w # 0 => at'[w] = at[w] /\ tasks'[w] = tasks[w]
        /\ at'[0] \in {"tick", "off"} \/ (at'[0] = "pass" /\ sync')
        /\ sync' => running'
        /\ UNCHANGED <<threads, hand, ready, swept>>
    <3>1. PICK leave \in BOOLEAN :
            /\ at' = [at EXCEPT ![0] = IF tasks[0] # << >> THEN "tick"
                                      ELSE IF leave THEN "off" ELSE "pass"]
            /\ sync' = ~leave /\ running' = ~leave
      BY <1>4 DEF RunPass, Pass
    <3>2. 0 \in Workers /\ at \in [Workers -> {"off", "tick", "place", "steal", "resume", "body",
                                             "final", "clean", "pass"}]
      BY SchedulerAssumption DEF Types, Workers
    <3>3. at'[0] \in {"tick", "off"} \/ (at'[0] = "pass" /\ sync')
      BY <3>1, <3>2
    <3>4. /\ \A w \in Workers : w # 0 => at'[w] = at[w] /\ tasks'[w] = tasks[w]
          /\ sync' => running'
      BY <2>1, <3>1, <3>2 DEF Types
    <3>. QED
      BY <1>4, <3>2, <3>3, <3>4 DEF RunPass, Pass
  <2>3. \A w \in Workers : Post(w)' /\ (sync' /\ w # 0 => tasks'[w] = << >>)
    BY <2>2 DEF Posts, Post
  <2>. QED
    BY <1>4, <2>2, <2>3 DEF RunPass, Posts
<1>5. CASE RunSyncEnd
  BY <1>5, PostsKept DEF RunSyncEnd, Posts
<1>6. ASSUME NEW h \in Addrs, Expire(h), UNCHANGED taskVars PROVE Posts'
  BY <1>6, PostsKept DEF Expire, Posts
<1>7. ASSUME NEW c \in Addrs, Launch(c) PROVE Posts'
  <2>1. sync => \A v \in Workers : v # 0 => tasks'[v] = << >>
    BY <1>7, ScheduleTypes DEF Launch
  <2>. QED
    BY <1>7, <2>1, PostsKept DEF Launch, Posts
<1>8. ASSUME NEW c \in Addrs, RunSync(c) PROVE Posts'
  <2>1. sync => \A v \in Workers : v # 0 => tasks'[v] = << >>
    BY <1>8, ScheduleTypes DEF RunSync
  <2>. QED
    BY <1>8, <2>1, PostsKept, SchedulerAssumption DEF RunSync
<1>9. ASSUME NEW w \in Workers, Exit(w), UNCHANGED taskVars PROVE Posts'
  <2>1. Post(w)'
    BY <1>9 DEF Exit, Types, Posts, Post
  <2>2. /\ \A v \in Workers : v # w => /\ at'[v] = at[v] /\ hand'[v] = hand[v]
                                     /\ ready'[v] = ready[v] /\ swept'[v] = swept[v]
        /\ sync => \A v \in Workers : v # 0 => tasks'[v] = << >>
        /\ UNCHANGED <<threads, running, sync, caller, syncTask>>
    BY <1>9 DEF Exit, Types, Posts, Post
  <2>. QED
    BY <2>1, <2>2, PostsOfOne
<1>10. ASSUME NEW w \in Workers, Tick(w), UNCHANGED taskVars PROVE Posts'
  <2>1. Post(w)'
    BY <1>10 DEF Tick, Types, Posts, Post
  <2>2. /\ \A v \in Workers : v # w => /\ at'[v] = at[v] /\ hand'[v] = hand[v]
                                     /\ ready'[v] = ready[v] /\ swept'[v] = swept[v]
        /\ sync => \A v \in Workers : v # 0 => tasks'[v] = << >>
        /\ UNCHANGED <<threads, running, sync, caller, syncTask>>
    BY <1>10 DEF Tick, Types, Posts, Post
  <2>. QED
    BY <2>1, <2>2, PostsOfOne
<1>11. ASSUME NEW w \in Workers, Take(w), UNCHANGED taskVars PROVE Posts'
  <2>0. hand'[w] \in Addrs
    BY <1>11 DEF Take, Types
  <2>1. Post(w)'
    BY <1>11, <2>0, SchedulerAssumption DEF Take, Looking, Types, Posts, Post
  <2>2. /\ \A v \in Workers : v # w => /\ at'[v] = at[v] /\ hand'[v] = hand[v]
                                     /\ ready'[v] = ready[v] /\ swept'[v] = swept[v]
        /\ sync => \A v \in Workers : v # 0 => tasks'[v] = << >>
        /\ UNCHANGED <<threads, running, sync, caller, syncTask>>
    BY <1>11 DEF Take, Looking, Types, Posts, Post
  <2>. QED
    BY <2>1, <2>2, PostsOfOne
<1>12. ASSUME NEW w \in Workers, NoTask(w), UNCHANGED taskVars PROVE Posts'
  <2>1. Post(w)'
    BY <1>12 DEF NoTask, Looking, Types, Posts, Post
  <2>2. /\ \A v \in Workers : v # w => /\ at'[v] = at[v] /\ hand'[v] = hand[v]
                                     /\ ready'[v] = ready[v] /\ swept'[v] = swept[v]
        /\ sync => \A v \in Workers : v # 0 => tasks'[v] = << >>
        /\ UNCHANGED <<threads, running, sync, caller, syncTask>>
    BY <1>12 DEF NoTask, Looking, Types, Posts, Post
  <2>. QED
    BY <2>1, <2>2, PostsOfOne
<1>13. ASSUME NEW w \in Workers, Sweep(w), UNCHANGED taskVars PROVE Posts'
  <2>1. Post(w)'
    BY <1>13 DEF Sweep, Types, Posts, Post
  <2>2. /\ \A v \in Workers : v # w => /\ at'[v] = at[v] /\ hand'[v] = hand[v]
                                     /\ ready'[v] = ready[v] /\ swept'[v] = swept[v]
        /\ sync => \A v \in Workers : v # 0 => tasks'[v] = << >>
        /\ UNCHANGED <<threads, running, sync, caller, syncTask>>
    BY <1>13 DEF Sweep, Types, Posts, Post
  <2>. QED
    BY <2>1, <2>2, PostsOfOne
<1>14. ASSUME NEW w \in Workers, Clean(w), UNCHANGED taskVars PROVE Posts'
  <2>1. Post(w)'
    BY <1>14 DEF Clean, Types, Posts, Post
  <2>2. /\ \A v \in Workers : v # w => /\ at'[v] = at[v] /\ hand'[v] = hand[v]
                                     /\ ready'[v] = ready[v] /\ swept'[v] = swept[v]
        /\ sync => \A v \in Workers : v # 0 => tasks'[v] = << >>
        /\ UNCHANGED <<threads, running, sync, caller, syncTask>>
    BY <1>14 DEF Clean, Types, Posts, Post
  <2>. QED
    BY <2>1, <2>2, PostsOfOne
<1>15. ASSUME NEW w \in Workers, Resume(w), UNCHANGED taskVars PROVE Posts'
  <2>1. Post(w)'
    BY <1>15 DEF Resume, Types, Posts, Post
  <2>2. /\ \A v \in Workers : v # w => /\ at'[v] = at[v] /\ hand'[v] = hand[v]
                                     /\ ready'[v] = ready[v] /\ swept'[v] = swept[v]
        /\ sync => \A v \in Workers : v # 0 => tasks'[v] = << >>
        /\ UNCHANGED <<threads, running, sync, caller, syncTask>>
    BY <1>15 DEF Resume, Types, Posts, Post
  <2>. QED
    BY <2>1, <2>2, PostsOfOne
<1>16. ASSUME NEW w \in Workers, NEW h \in Addrs, Place(w, h), UNCHANGED taskVars PROVE Posts'
  <2>1. Post(w)'
    BY <1>16 DEF Place, Types, Posts, Post
  <2>2. /\ \A v \in Workers : v # w => /\ at'[v] = at[v] /\ hand'[v] = hand[v]
                                     /\ ready'[v] = ready[v] /\ swept'[v] = swept[v]
        /\ sync => \A v \in Workers : v # 0 => tasks'[v] = << >>
        /\ UNCHANGED <<threads, running, sync, caller, syncTask>>
    <3>. DEFINE n == next % threads
    <3>1. n \in Workers /\ (threads = 1 => n = 0)
      BY <1>16, SlotInRange DEF Place, Posts, Post
    <3>2. tasks' = [tasks EXCEPT ![n] = <<h>> \o @]
      BY <1>16 DEF Place
    <3>. HIDE DEF n
    <3>3. sync => \A v \in Workers : v # 0 => tasks'[v] = << >>
      BY <3>1, <3>2 DEF Types, Posts
    <3>. QED
      BY <1>16, <3>3 DEF Place, Types
  <2>. QED
    BY <2>1, <2>2, PostsOfOne
<1>17. ASSUME NEW w \in Workers, NEW i \in Workers, Steal(w, i), UNCHANGED taskVars PROVE Posts'
  <2>0. hand'[w] \in Addrs
    <3>1. tasks[i] \in Seq(Addrs) /\ tasks[i] # << >>
      BY <1>17 DEF Steal, Types
    <3>. QED
      BY <1>17, <3>1 DEF Steal, Types, Last
  <2>1. Post(w)'
    BY <1>17, <2>0, SchedulerAssumption DEF Steal, Types, Posts, Post
  <2>2. /\ \A v \in Workers : v # w => /\ at'[v] = at[v] /\ hand'[v] = hand[v]
                                     /\ ready'[v] = ready[v] /\ swept'[v] = swept[v]
        /\ sync => \A v \in Workers : v # 0 => tasks'[v] = << >>
        /\ UNCHANGED <<threads, running, sync, caller, syncTask>>
    BY <1>17 DEF Steal, Types, Posts, Post
  <2>. QED
    BY <2>1, <2>2, PostsOfOne
<1>18. ASSUME NEW w \in Workers, Await(w) PROVE Posts'
  <2>1. Post(w)'
    BY <1>18 DEF Await, InBody, GoHome, Home, Types, Posts, Post
  <2>2. /\ \A v \in Workers : v # w => /\ at'[v] = at[v] /\ hand'[v] = hand[v]
                                     /\ ready'[v] = ready[v] /\ swept'[v] = swept[v]
        /\ sync => \A v \in Workers : v # 0 => tasks'[v] = << >>
        /\ UNCHANGED <<threads, running, sync, caller, syncTask>>
    <3>1. child[hand[w]] \in Addrs /\ Schedule(child[hand[w]])
      BY <1>18 DEF Await, InBody, Types, Posts, Post
    <3>. QED
      BY <1>18, <3>1, ScheduleTypes DEF Await, GoHome, Types
  <2>. QED
    BY <2>1, <2>2, PostsOfOne
<1>19. ASSUME NEW w \in Workers, Drop(w) PROVE Posts'
  <2>1. Post(w)'
    BY <1>19 DEF Drop, InBody, Types, Posts, Post
  <2>2. /\ \A v \in Workers : v # w => /\ at'[v] = at[v] /\ hand'[v] = hand[v]
                                     /\ ready'[v] = ready[v] /\ swept'[v] = swept[v]
        /\ sync => \A v \in Workers : v # 0 => tasks'[v] = << >>
        /\ UNCHANGED <<threads, running, sync, caller, syncTask>>
    BY <1>19 DEF Drop, InBody, Types, Posts, Post
  <2>. QED
    BY <2>1, <2>2, PostsOfOne
<1>20. ASSUME NEW w \in Workers, Sleep(w) PROVE Posts'
  <2>1. Post(w)'
    BY <1>20 DEF Sleep, Suspend, InBody, GoHome, Home, Types, Posts, Post
  <2>2. /\ \A v \in Workers : v # w => /\ at'[v] = at[v] /\ hand'[v] = hand[v]
                                     /\ ready'[v] = ready[v] /\ swept'[v] = swept[v]
        /\ sync => \A v \in Workers : v # 0 => tasks'[v] = << >>
        /\ UNCHANGED <<threads, running, sync, caller, syncTask>>
    BY <1>20 DEF Sleep, Suspend, InBody, GoHome, Home, Types, Posts, Post
  <2>. QED
    BY <2>1, <2>2, PostsOfOne
<1>21. ASSUME NEW w \in Workers, Yield(w) PROVE Posts'
  <2>1. Post(w)'
    BY <1>21 DEF Yield, Suspend, InBody, GoHome, Home, Types, Posts, Post
  <2>2. /\ \A v \in Workers : v # w => /\ at'[v] = at[v] /\ hand'[v] = hand[v]
                                     /\ ready'[v] = ready[v] /\ swept'[v] = swept[v]
        /\ sync => \A v \in Workers : v # 0 => tasks'[v] = << >>
        /\ UNCHANGED <<threads, running, sync, caller, syncTask>>
    BY <1>21 DEF Yield, Suspend, InBody, GoHome, Home, Types, Posts, Post
  <2>. QED
    BY <2>1, <2>2, PostsOfOne
<1>22. ASSUME NEW w \in Workers, Return(w) PROVE Posts'
  <2>1. Post(w)'
    BY <1>22 DEF Return, InBody, Types, Posts, Post
  <2>2. /\ \A v \in Workers : v # w => /\ at'[v] = at[v] /\ hand'[v] = hand[v]
                                     /\ ready'[v] = ready[v] /\ swept'[v] = swept[v]
        /\ sync => \A v \in Workers : v # 0 => tasks'[v] = << >>
        /\ UNCHANGED <<threads, running, sync, caller, syncTask>>
    BY <1>22 DEF Return, InBody, Types, Posts, Post
  <2>. QED
    BY <2>1, <2>2, PostsOfOne
<1>23. ASSUME NEW w \in Workers, NEW c \in Addrs, Call(w, c) PROVE Posts'
  <2>1. Post(w)'
    BY <1>23 DEF Call, InBody, Types, Posts, Post
  <2>2. /\ \A v \in Workers : v # w => /\ at'[v] = at[v] /\ hand'[v] = hand[v]
                                     /\ ready'[v] = ready[v] /\ swept'[v] = swept[v]
        /\ sync => \A v \in Workers : v # 0 => tasks'[v] = << >>
        /\ UNCHANGED <<threads, running, sync, caller, syncTask>>
    BY <1>23 DEF Call, InBody, Types, Posts, Post
  <2>. QED
    BY <2>1, <2>2, PostsOfOne
<1>24. ASSUME NEW w \in Workers, NEW c \in Addrs, Spawn(w, c) PROVE Posts'
  BY <1>7, <1>24 DEF Spawn
<1>25. ASSUME NEW w \in Workers, Final(w) PROVE Posts'
  <2>1. Post(w)'
    BY <1>25 DEF Final, GoHome, Home, Types, Posts, Post
  <2>2. /\ \A v \in Workers : v # w => /\ at'[v] = at[v] /\ hand'[v] = hand[v]
                                     /\ ready'[v] = ready[v] /\ swept'[v] = swept[v]
        /\ sync => \A v \in Workers : v # 0 => tasks'[v] = << >>
        /\ UNCHANGED <<threads, running, sync, caller, syncTask>>
    BY <1>25 DEF Final, GoHome, Home, Types, Posts, Post
  <2>. QED
    BY <2>1, <2>2, PostsOfOne
<1>. QED
  BY <1>1, <1>2, <1>3, <1>4, <1>5, <1>6, <1>7, <1>8, <1>9, <1>10, <1>11, <1>12, <1>13, <1>14, <1>15, <1>16, <1>17, <1>18, <1>19, <1>20, <1>21, <1>22, <1>23, <1>24, <1>25
     DEF Next, Time, Worker, WorkerStep, Body

-----------------------------------------------------------------------------
(* Places: what each step does to the ways in which a coroutine waits. *)

LEMMA QueuedSame ==
  ASSUME UNCHANGED tasks
  PROVE  (Queues => Queues') /\ \A a : Queued(a)' <=> Queued(a)
BY DEF Queues, Queued

LEMMA ReadiedSame ==
  ASSUME UNCHANGED ready
  PROVE  \A a : Readied(a)' <=> Readied(a)
BY DEF Readied

LEMMA DelayedSame ==
  ASSUME UNCHANGED <<sleeping, due>>
  PROVE  \A a : Delayed(a)' <=> Delayed(a)
BY DEF Delayed

LEMMA InHandSame ==
  ASSUME \A w \in Workers : /\ at'[w] = "resume" <=> at[w] = "resume"
                            /\ at[w] = "resume" => hand'[w] = hand[w]
  PROVE  \A a : InHand(a)' <=> InHand(a)
BY DEF InHand

LEMMA AwaitingSame ==
  ASSUME UNCHANGED cont, \A c \in Addrs : Live(c)' <=> Live(c)
  PROVE  \A a : Awaiting(a)' <=> Awaiting(a)
BY DEF Awaiting

\* A queue takes handles that are in none.
LEMMA QueueTakes ==
  ASSUME Types, Queues, NEW n \in Workers, NEW D, \A h \in D : ~Queued(h), NEW list \in Seq(Addrs),
         IsInjective(list), Range(list) = Range(tasks[n]) \cup D, tasks' = [tasks EXCEPT ![n] = list]
  PROVE  Queues' /\ \A a : Queued(a)' <=> Queued(a) \/ a \in D
<1>1. tasks'[n] = list /\ \A w \in Workers : w # n => tasks'[w] = tasks[w]
  BY DEF Types
<1>2. \A w \in Workers : D \cap Range(tasks[w]) = {}
  BY DEF Queued
<1>3. Queues'
  <2>1. \A w \in Workers : IsInjective(tasks'[w])
    BY <1>1 DEF Queues
  <2>2. ASSUME NEW v \in Workers, NEW w \in Workers, v # w
        PROVE  Range(tasks'[v]) \cap Range(tasks'[w]) = {}
    <3>1. Range(tasks[v]) \cap Range(tasks[w]) = {}
      BY <2>2 DEF Queues
    <3>. QED
      BY <1>1, <1>2, <2>2, <3>1
  <2>. QED
    BY <2>1, <2>2 DEF Queues
<1>4. ASSUME NEW a PROVE Queued(a)' <=> Queued(a) \/ a \in D
  <2>1. \A w \in Workers : a \in Range(tasks'[w]) <=> a \in Range(tasks[w]) \/ (w = n /\ a \in D)
    BY <1>1
  <2>. QED
    BY <2>1 DEF Queued
<1>. QED
  BY <1>3, <1>4

\* A queue loses one.
LEMMA QueueGives ==
  ASSUME Types, Queues, NEW n \in Workers, NEW h \in Range(tasks[n]), NEW list \in Seq(Addrs),
         IsInjective(list), Range(list) = Range(tasks[n]) \ {h}, tasks' = [tasks EXCEPT ![n] = list]
  PROVE  Queues' /\ Queued(h) /\ \A a : Queued(a)' <=> Queued(a) /\ a # h
<1>1. tasks'[n] = list /\ \A w \in Workers : w # n => tasks'[w] = tasks[w]
  BY DEF Types
<1>2. \A w \in Workers : w # n => h \notin Range(tasks[w])
  BY DEF Queues
<1>3. Queues'
  BY <1>1 DEF Queues
<1>4. ASSUME NEW a PROVE Queued(a)' <=> Queued(a) /\ a # h
  <2>1. \A w \in Workers : a \in Range(tasks'[w]) <=> a \in Range(tasks[w]) /\ a # h
    BY <1>1, <1>2
  <2>. QED
    BY <2>1 DEF Queued
<1>5. Queued(h)
  BY DEF Queued
<1>. QED
  BY <1>3, <1>4, <1>5

\* schedule_impl of a handle that is in no queue and not in handle_refs.
LEMMA ScheduleMoves ==
  ASSUME Types, Queues, NEW h \in Addrs, h \notin refs, ~Queued(h), Schedule(h)
  PROVE  /\ Queues' /\ \A a : Queued(a)' => Queued(a) \/ a = h
         /\ ~crashed' => /\ \A a : Queued(a)' <=> Queued(a) \/ a = h
                         /\ refs' = refs \cup {h}
<1>1. CASE threads = 0
  <2>1. UNCHANGED tasks /\ crashed'
    BY <1>1 DEF Schedule
  <2>. QED
    BY <2>1, QueuedSame
<1>2. CASE threads # 0
  <2>. DEFINE n == next % threads
  <2>1. /\ refs' = refs \cup {h}
        /\ tasks' = [tasks EXCEPT ![n] = Append(@, h)] /\ n \in Workers
    BY <1>2, SlotInRange DEF Schedule, Listed
  <2>. HIDE DEF n
  <2>2. /\ tasks[n] \in Seq(Addrs) /\ IsInjective(tasks[n]) /\ h \notin Range(tasks[n])
        /\ tasks' = [tasks EXCEPT ![n] = Append(tasks[n], h)]
    BY <2>1 DEF Types, Queues, Queued
  <2>3. /\ Append(tasks[n], h) \in Seq(Addrs) /\ IsInjective(Append(tasks[n], h))
        /\ Range(Append(tasks[n], h)) = Range(tasks[n]) \cup {h}
    BY <2>2, Appended
  <2>4. Queues' /\ \A a : Queued(a)' <=> Queued(a) \/ a \in {h}
    BY <2>1, <2>2, <2>3, QueueTakes
  <2>. QED
    BY <2>1, <2>4
<1>. QED
  BY <1>1, <1>2

LEMMA Shrunk ==
  ASSUME Single, Queues',
         \A a \in Addrs : /\ Queued(a)' => Queued(a)
                          /\ InHand(a)' => InHand(a)
                          /\ Readied(a)' => Readied(a)
                          /\ Awaiting(a)' => Awaiting(a),
         sleeping' \subseteq sleeping, due' \subseteq due,
         \A v, w \in Workers : v # w => ready'[v] \cap ready'[w] = {},
         \A v, w \in Workers : hand'[v] = hand'[w] /\ hand'[v] # None => v = w
  PROVE  Single'
<1>1. \A a \in Addrs : Delayed(a)' => Delayed(a)
  BY DEF Delayed
<1>2. ASSUME NEW a \in Addrs PROVE Alone(a)'
  <2>1. Alone(a)
    BY DEF Single
  <2>2. ~(a \in sleeping' /\ a \in due')
    BY <2>1 DEF Alone
  <2>. QED
    BY <1>1, <2>1, <2>2 DEF Alone
<1>. QED
  BY <1>2 DEF Single

\* Steps that move nothing.
LEMMA Still ==
  ASSUME Single, UNCHANGED <<tasks, ready, sleeping, due, hand>>,
         \A w \in Workers : at'[w] = "resume" <=> at[w] = "resume",
         \A a \in Addrs : Awaiting(a)' <=> Awaiting(a)
  PROVE  Single' /\ \A a \in Addrs : Waits(a)' <=> Waits(a)
<1>1. Queues' /\ \A a : Queued(a)' <=> Queued(a)
  BY QueuedSame DEF Single
<1>2. \A a : Readied(a)' <=> Readied(a)
  BY ReadiedSame
<1>3. \A a : InHand(a)' <=> InHand(a)
  BY InHandSame
<1>4. \A a : Delayed(a)' <=> Delayed(a)
  BY DelayedSame
<1>5. Single'
  <2>1. /\ \A v, w \in Workers : v # w => ready'[v] \cap ready'[w] = {}
        /\ \A v, w \in Workers : hand'[v] = hand'[w] /\ hand'[v] # None => v = w
        /\ sleeping' \subseteq sleeping /\ due' \subseteq due
    BY DEF Single
  <2>. QED
    BY <1>1, <1>2, <1>3, <2>1, Shrunk
<1>6. \A a \in Addrs : Waits(a)' <=> Waits(a)
  BY <1>1, <1>2, <1>3, <1>4 DEF Waits
<1>. QED
  BY <1>5, <1>6

\* The time of a delayed handle comes.
LEMMA ExpireMoves ==
  ASSUME Types, Posts, Single, NEW h \in Addrs, Expire(h), UNCHANGED taskVars
  PROVE  Single' /\ \A a \in Addrs : Waits(a)' <=> Waits(a)
<1>. USE DEF ctlVars, queueVars, delayVars, refVars, workVars, taskVars, objectVars, callerVars, bounds
<1>1. Queues' /\ \A a : Queued(a)' <=> Queued(a)
  BY QueuedSame DEF Single, Expire
<1>2. \A a : Readied(a)' <=> Readied(a)
  BY ReadiedSame DEF Expire
<1>3. \A a : InHand(a)' <=> InHand(a)
  BY InHandSame DEF Expire
<1>4. \A a : Awaiting(a)' <=> Awaiting(a)
  BY AwaitingSame DEF Expire, Live
<1>5. \A a : Delayed(a)' <=> Delayed(a)
  BY DEF Expire, Delayed
<1>6. ASSUME NEW a \in Addrs PROVE Alone(a)'
  <2>1. Alone(a)
    BY DEF Single
  <2>2. ~(a \in sleeping' /\ a \in due')
    BY <2>1 DEF Alone, Expire
  <2>. QED
    BY <1>1, <1>2, <1>3, <1>4, <1>5, <2>1, <2>2 DEF Alone
<1>7. Single'
  BY <1>1, <1>6 DEF Single, Expire
<1>. QED
  BY <1>1, <1>2, <1>3, <1>4, <1>5, <1>7 DEF Waits

\* A worker takes what is due.
LEMMA TickMoves ==
  ASSUME Types, Posts, Single, NEW w \in Workers, Tick(w), UNCHANGED taskVars
  PROVE  Single' /\ \A a \in Addrs : Waits(a)' <=> Waits(a)
<1>. USE DEF ctlVars, queueVars, delayVars, refVars, workVars, taskVars, objectVars, callerVars, bounds
<1>1. Queues' /\ \A a : Queued(a)' <=> Queued(a)
  BY QueuedSame DEF Single, Tick
<1>2. \A a : InHand(a)' <=> InHand(a)
  BY InHandSame DEF Tick, Types
<1>3. \A a : Awaiting(a)' <=> Awaiting(a)
  BY AwaitingSame DEF Tick, Live
<1>4. /\ ready[w] = {} /\ ready'[w] = due
      /\ \A v \in Workers : v # w => ready'[v] = ready[v]
      /\ sleeping' = sleeping /\ due' = {}
  BY DEF Tick, Types, Posts, Post
<1>5. \A a : Readied(a)' <=> Readied(a) \/ a \in due
  BY <1>4 DEF Readied
<1>6. \A a \in Addrs : Delayed(a)' <=> a \in sleeping
  BY <1>4 DEF Delayed
<1>7. ASSUME NEW a \in Addrs PROVE Alone(a)'
  <2>1. Alone(a)
    BY DEF Single
  <2>2. ~(a \in sleeping' /\ a \in due')
    BY <1>4
  <2>3. (a \in sleeping => Delayed(a)) /\ (a \in due => Delayed(a)) /\ ~(a \in sleeping /\ a \in due)
    BY <2>1 DEF Delayed, Alone
  <2>. QED
    BY <1>1, <1>2, <1>3, <1>5, <1>6, <2>1, <2>2, <2>3 DEF Alone
<1>8. Single'
  <2>1. ASSUME NEW u \in Workers, NEW v \in Workers, u # v PROVE ready'[u] \cap ready'[v] = {}
    <3>1. \A x \in Workers : x # w => ready[x] \cap due = {}
      <4>1. \A a \in Addrs : Readied(a) => ~Delayed(a)
        BY DEF Single, Alone
      <4>. QED
        BY <4>1 DEF Readied, Delayed, Types
    <3>. QED
      BY <1>4, <2>1, <3>1 DEF Single
  <2>2. hand' = hand
    BY DEF Tick
  <2>. QED
    BY <1>1, <1>7, <2>1, <2>2 DEF Single
<1>9. ASSUME NEW a \in Addrs PROVE Waits(a)' <=> Waits(a)
  BY <1>1, <1>2, <1>3, <1>5, <1>6 DEF Waits, Delayed
<1>. QED
  BY <1>8, <1>9

\* It puts one of them into a queue.
LEMMA PlaceMoves ==
  ASSUME Types, Posts, Single, NEW w \in Workers, NEW h \in Addrs, Place(w, h), UNCHANGED taskVars
  PROVE  Single' /\ \A a \in Addrs : Waits(a)' <=> Waits(a)
<1>. USE DEF ctlVars, queueVars, delayVars, refVars, workVars, taskVars, objectVars, callerVars, bounds
<1>. DEFINE n == next % threads
<1>1. n \in Workers /\ tasks' = [tasks EXCEPT ![n] = <<h>> \o @]
  BY SlotInRange DEF Place, Posts, Post
<1>. HIDE DEF n
<1>2. Readied(h) /\ Alone(h) /\ ~Queued(h)
  BY DEF Readied, Place, Single, Alone
<1>3. Queues' /\ \A a : Queued(a)' <=> Queued(a) \/ a = h
  <2>1. tasks[n] \in Seq(Addrs) /\ IsInjective(tasks[n]) /\ h \notin Range(tasks[n]) /\ Queues
    BY <1>1, <1>2 DEF Types, Single, Queues, Queued
  <2>2. /\ <<h>> \o tasks[n] \in Seq(Addrs) /\ IsInjective(<<h>> \o tasks[n])
        /\ Range(<<h>> \o tasks[n]) = Range(tasks[n]) \cup {h}
    BY <2>1, Prefixed
  <2>3. tasks' = [tasks EXCEPT ![n] = <<h>> \o tasks[n]]
    BY <1>1
  <2>4. Queues' /\ \A a : Queued(a)' <=> Queued(a) \/ a \in {h}
    BY <1>1, <1>2, <2>1, <2>2, <2>3, QueueTakes
  <2>. QED
    BY <2>4
<1>4. \A a : InHand(a)' <=> InHand(a)
  BY InHandSame DEF Place
<1>5. \A a : Awaiting(a)' <=> Awaiting(a)
  BY AwaitingSame DEF Place, Live
<1>6. \A a : Delayed(a)' <=> Delayed(a)
  BY DelayedSame DEF Place
<1>7. /\ h \in ready[w] /\ ready'[w] = ready[w] \ {h}
      /\ \A v \in Workers : v # w => ready'[v] = ready[v] /\ h \notin ready[v]
  BY DEF Place, Types, Single
<1>8. \A a : Readied(a)' <=> Readied(a) /\ a # h
  BY <1>7 DEF Readied
<1>9. ASSUME NEW a \in Addrs PROVE Alone(a)'
  <2>1. Alone(a)
    BY DEF Single
  <2>2. ~(a \in sleeping' /\ a \in due')
    BY <2>1 DEF Alone, Place
  <2>. QED
    BY <1>2, <1>3, <1>4, <1>5, <1>6, <1>8, <2>1, <2>2 DEF Alone
<1>10. Single'
  <2>1. \A u, v \in Workers : u # v => ready'[u] \cap ready'[v] = {}
    BY <1>7 DEF Single
  <2>2. hand' = hand
    BY DEF Place
  <2>. QED
    BY <1>3, <1>9, <2>1, <2>2 DEF Single
<1>. QED
  BY <1>2, <1>3, <1>4, <1>5, <1>6, <1>8, <1>10 DEF Waits

\* A handle goes from a queue into the hand of a worker that had none.
LEMMA GripMoves ==
  ASSUME Types, Posts, Single, NEW w \in Workers, at[w] \in {"place", "steal"},
         NEW i \in Workers, NEW h \in Range(tasks[i]), NEW list \in Seq(Addrs), IsInjective(list),
         Range(list) = Range(tasks[i]) \ {h}, tasks' = [tasks EXCEPT ![i] = list],
         hand' = [hand EXCEPT ![w] = h], at' = [at EXCEPT ![w] = "resume"],
         UNCHANGED <<frame, cont, ready, sleeping, due>>,
         \A v \in Workers : hand[v] # h
  PROVE  Single' /\ \A a \in Addrs : Waits(a)' <=> Waits(a)
<1>1. Queues' /\ Queued(h) /\ \A a : Queued(a)' <=> Queued(a) /\ a # h
  BY QueueGives DEF Single
<1>2. \A a : Readied(a)' <=> Readied(a)
  BY ReadiedSame
<1>3. \A a : Awaiting(a)' <=> Awaiting(a)
  BY AwaitingSame DEF Live
<1>4. \A a : Delayed(a)' <=> Delayed(a)
  BY DelayedSame
<1>5. h \in Addrs
  BY RangeOfSeq DEF Types
<1>6. \A a : InHand(a)' <=> InHand(a) \/ a = h
  BY DEF InHand, Types, Posts, Post
<1>7. ASSUME NEW a \in Addrs PROVE Alone(a)'
  <2>1. Alone(a)
    BY DEF Single
  <2>2. ~(a \in sleeping' /\ a \in due')
    BY <2>1 DEF Alone
  <2>. QED
    BY <1>1, <1>2, <1>3, <1>4, <1>6, <2>1, <2>2 DEF Alone
<1>8. Single'
  <2>1. \A u, v \in Workers : hand'[u] = hand'[v] /\ hand'[u] # None => u = v
    BY DEF Single, Types
  <2>. QED
    BY <1>1, <1>7, <2>1 DEF Single
<1>. QED
  BY <1>1, <1>2, <1>3, <1>4, <1>6, <1>8 DEF Waits

\* What waits in a queue is in no hand.
LEMMA QueuedNotHeld ==
  ASSUME Posts, Single, Frames, NEW h \in Addrs, Queued(h)
  PROVE  \A v \in Workers : hand[v] # h
<1>. SUFFICES ASSUME NEW v \in Workers, hand[v] = h PROVE FALSE
  OBVIOUS
<1>1. frame[h] = "suspended" /\ ~InHand(h)
  BY DEF Frames, Waits, Single, Alone
<1>2. at[v] \in {"resume", "body", "final"}
  BY SchedulerAssumption DEF Posts, Post
<1>. QED
  BY <1>1, <1>2 DEF InHand, Frames

LEMMA TakeMoves ==
  ASSUME Types, Posts, Single, Frames, NEW w \in Workers, Take(w), UNCHANGED taskVars
  PROVE  Single' /\ \A a \in Addrs : Waits(a)' <=> Waits(a)
<1>. USE DEF ctlVars, queueVars, delayVars, refVars, workVars, taskVars, objectVars, callerVars, bounds
<1>. DEFINE h == Head(tasks[w])
            list == Tail(tasks[w])
<1>1. tasks[w] \in Seq(Addrs) /\ tasks[w] # << >> /\ IsInjective(tasks[w])
  BY DEF Types, Single, Queues, Take
<1>2. /\ h \in Addrs /\ h \in Range(tasks[w]) /\ list \in Seq(Addrs) /\ IsInjective(list)
      /\ Range(list) = Range(tasks[w]) \ {h}
  BY <1>1, HeadLeaves
<1>3. /\ tasks' = [tasks EXCEPT ![w] = list] /\ hand' = [hand EXCEPT ![w] = h]
      /\ at' = [at EXCEPT ![w] = "resume"] /\ at[w] = "place"
      /\ UNCHANGED <<frame, cont, ready, sleeping, due>>
  BY DEF Take, Looking
<1>. HIDE DEF h, list
<1>4. \A v \in Workers : hand[v] # h
  BY <1>2, QueuedNotHeld DEF Queued
<1>. QED
  BY <1>2, <1>3, <1>4, GripMoves

LEMMA StealMoves ==
  ASSUME Types, Posts, Single, Frames, NEW w \in Workers, NEW i \in Workers, Steal(w, i),
         UNCHANGED taskVars
  PROVE  Single' /\ \A a \in Addrs : Waits(a)' <=> Waits(a)
<1>. USE DEF ctlVars, queueVars, delayVars, refVars, workVars, taskVars, objectVars, callerVars, bounds
<1>. DEFINE h == Last(tasks[i])
            list == Front(tasks[i])
<1>1. tasks[i] \in Seq(Addrs) /\ tasks[i] # << >> /\ IsInjective(tasks[i])
  BY DEF Types, Single, Queues, Steal
<1>2. /\ h \in Addrs /\ h \in Range(tasks[i]) /\ list \in Seq(Addrs) /\ IsInjective(list)
      /\ Range(list) = Range(tasks[i]) \ {h}
  BY <1>1, LastLeaves
<1>3. /\ tasks' = [tasks EXCEPT ![i] = list] /\ hand' = [hand EXCEPT ![w] = h]
      /\ at' = [at EXCEPT ![w] = "resume"] /\ at[w] = "steal"
      /\ UNCHANGED <<frame, cont, ready, sleeping, due>>
  BY DEF Steal
<1>. HIDE DEF h, list
<1>4. \A v \in Workers : hand[v] # h
  BY <1>2, QueuedNotHeld DEF Queued
<1>. QED
  BY <1>2, <1>3, <1>4, GripMoves

\* The cleanup destroys what is done, or the process is gone.
LEMMA FreeLive ==
  ASSUME Types, NEW list, Free(list)
  PROVE  \A c \in Addrs : /\ Live(c)' => Live(c)
                          /\ ~crashed' => (Live(c)' <=> Live(c))
BY DEF Free, Finished, Live, Types

LEMMA CleanMoves ==
  ASSUME Types, Posts, Single, NEW w \in Workers, Clean(w), UNCHANGED taskVars
  PROVE  Single' /\ (~crashed' => \A a \in Addrs : Waits(a)' <=> Waits(a))
<1>. USE DEF ctlVars, queueVars, delayVars, refVars, workVars, taskVars, objectVars, callerVars, bounds
<1>1. \A c \in Addrs : /\ Live(c)' => Live(c)
                       /\ ~crashed' => (Live(c)' <=> Live(c))
  BY FreeLive DEF Clean
<1>2. /\ UNCHANGED <<tasks, ready, sleeping, due, hand, cont>>
      /\ \A v \in Workers : at'[v] = "resume" <=> at[v] = "resume"
  BY DEF Clean, Types
<1>3. CASE ~crashed'
  BY <1>1, <1>2, <1>3, Still, AwaitingSame
<1>4. CASE crashed'
  <2>1. \A a \in Addrs : Awaiting(a)' => Awaiting(a)
    BY <1>1, <1>2 DEF Awaiting
  <2>2. /\ Queues' /\ \A a : Queued(a)' => Queued(a)
        /\ \A a : InHand(a)' => InHand(a)
        /\ \A a : Readied(a)' => Readied(a)
    BY <1>2, QueuedSame, InHandSame, ReadiedSame DEF Single
  <2>. QED
    BY <1>2, <1>4, <2>1, <2>2, Shrunk DEF Single
<1>. QED
  BY <1>3, <1>4

\* run() begins: what was in the other queues is lost.
LEMMA EnterRunMoves ==
  ASSUME Types, Posts, Single, EnterRun
  PROVE  /\ Single'
         /\ \A a \in Addrs : (Waits(a)' => Waits(a)) /\ (Waits(a) => Waits(a)' \/ a \in dropped')
<1>. USE DEF delayVars, refVars, workVars, objectVars
<1>1. /\ tasks' = [w \in Workers |-> IF w = 0 THEN tasks[0] ELSE << >>]
      /\ dropped' = dropped \cup UNION {Range(tasks[w]) : w \in Workers \ {0}}
      /\ UNCHANGED <<ready, sleeping, due, hand, cont, frame>>
      /\ \A v \in Workers : at'[v] # "resume" /\ at[v] # "resume"
      /\ 0 \in Workers
  BY SchedulerAssumption DEF EnterRun, RunBegin, Quiet, Types, Workers
<1>2. \A w \in Workers : tasks'[w] = IF w = 0 THEN tasks[0] ELSE << >>
  BY <1>1
<1>3. Range(<< >>) = {} /\ IsInjective(<< >>)
  BY DEF Range, IsInjective
<1>4. Queues'
  BY <1>1, <1>2, <1>3 DEF Queues, Single
<1>5. \A a : (Queued(a)' => Queued(a)) /\ (Queued(a) => Queued(a)' \/ a \in dropped')
  BY <1>1, <1>2, <1>3 DEF Queued
<1>6. /\ \A a : InHand(a)' <=> InHand(a)
      /\ \A a : Readied(a)' <=> Readied(a)
      /\ \A a : Delayed(a)' <=> Delayed(a)
      /\ \A a : Awaiting(a)' <=> Awaiting(a)
  BY <1>1, InHandSame, ReadiedSame, DelayedSame, AwaitingSame DEF Live
<1>7. Single'
  BY <1>1, <1>4, <1>5, <1>6, Shrunk DEF Single
<1>. QED
  BY <1>5, <1>6, <1>7 DEF Waits

\* A pass of run() queues all that is due.
LEMMA RunPassMoves ==
  ASSUME Types, Posts, Single, RunPass
  PROVE  Single' /\ (~crashed' => \A a \in Addrs : Waits(a)' <=> Waits(a))
<1>. USE DEF delayVars, refVars, workVars, objectVars
<1>1. PICK s \in SetToSeqs(due) : tasks' = [tasks EXCEPT ![0] = s \o @]
  BY DEF RunPass, Pass
<1>2. /\ UNCHANGED <<ready, sleeping, hand, cont>> /\ due' = {}
      /\ \A v \in Workers : at'[v] # "resume" /\ at[v] # "resume"
      /\ 0 \in Workers
  <2>1. 0 \in Workers /\ sync /\ at[0] = "pass"
    BY SchedulerAssumption DEF RunPass, Pass, Workers
  <2>2. \A v \in Workers : at[v] # "resume"
    BY <2>1 DEF Posts, Post
  <2>3. /\ at'[0] \in {"tick", "off", "pass"} /\ \A v \in Workers : v # 0 => at'[v] = at[v]
        /\ UNCHANGED <<ready, sleeping, hand, cont>> /\ due' = {}
    BY <2>1 DEF RunPass, Pass, Types
  <2>. QED
    BY <2>1, <2>2, <2>3
<1>3. \A c \in Addrs : /\ Live(c)' => Live(c)
                       /\ ~crashed' => (Live(c)' <=> Live(c))
  BY FreeLive DEF RunPass, Pass
<1>4. /\ \A a \in Addrs : Awaiting(a)' => Awaiting(a)
      /\ ~crashed' => \A a : Awaiting(a)' <=> Awaiting(a)
  BY <1>2, <1>3, AwaitingSame DEF Awaiting
<1>5. /\ \A a : InHand(a)' <=> InHand(a)
      /\ \A a : Readied(a)' <=> Readied(a)
  BY <1>2, InHandSame, ReadiedSame
<1>6. \A a \in Addrs : /\ Alone(a) /\ (a \in due => Delayed(a) /\ ~Queued(a))
                       /\ (a \in sleeping => Delayed(a) /\ a \notin due)
  BY DEF Single, Alone, Delayed
<1>7. Queues' /\ \A a : Queued(a)' <=> Queued(a) \/ a \in due
  <2>1. s \in Seq(due) /\ Range(s) = due /\ IsInjective(s)
    BY FS_Subset, Ordered, SchedulerAssumption DEF Types
  <2>2. s \in Seq(Addrs)
    BY <2>1, SeqMonotonic DEF Types
  <2>3. tasks[0] \in Seq(Addrs) /\ IsInjective(tasks[0]) /\ Queues
    BY <1>2 DEF Types, Single, Queues
  <2>4. \A h \in due : ~Queued(h)
    BY <1>6 DEF Types
  <2>5. Range(s) \cap Range(tasks[0]) = {}
    BY <1>2, <2>1, <2>4 DEF Queued
  <2>6. /\ s \o tasks[0] \in Seq(Addrs) /\ IsInjective(s \o tasks[0])
        /\ Range(s \o tasks[0]) = Range(tasks[0]) \cup due
    BY <2>1, <2>2, <2>3, <2>5, Joined
  <2>7. tasks' = [tasks EXCEPT ![0] = s \o tasks[0]]
    BY <1>1
  <2>. QED
    BY <1>2, <2>3, <2>4, <2>6, <2>7, QueueTakes
<1>8. \A a : Delayed(a)' <=> a \in sleeping
  BY <1>2 DEF Delayed
<1>9. ASSUME NEW a \in Addrs PROVE Alone(a)'
  <2>1. ~(a \in sleeping' /\ a \in due')
    BY <1>2
  <2>. QED
    BY <1>4, <1>5, <1>6, <1>7, <1>8, <2>1 DEF Alone
<1>10. Single'
  BY <1>2, <1>7, <1>9 DEF Single
<1>11. ASSUME ~crashed', NEW a \in Addrs PROVE Waits(a)' <=> Waits(a)
  BY <1>4, <1>5, <1>7, <1>8, <1>11 DEF Waits, Delayed
<1>. QED
  BY <1>10, <1>11

\* A worker resumes the coroutine in its hand.
LEMMA ResumeMoves ==
  ASSUME Types, Posts, Single, NEW w \in Workers, Resume(w), UNCHANGED taskVars
  PROVE  Single' /\ \A a \in Addrs : Waits(a)' <=> Waits(a) /\ a # hand[w]
<1>. USE DEF ctlVars, queueVars, delayVars, refVars, workVars, taskVars, objectVars, callerVars, bounds
<1>1. /\ at[w] = "resume" /\ at' = [at EXCEPT ![w] = "body"] /\ hand[w] \in Addrs
      /\ frame[hand[w]] = "suspended" /\ frame' = [frame EXCEPT ![hand[w]] = "running"]
      /\ UNCHANGED <<tasks, ready, sleeping, due, hand, cont>>
  BY DEF Resume, Posts, Post, Types
<1>2. \A a : Awaiting(a)' <=> Awaiting(a)
  BY <1>1, AwaitingSame DEF Live, Types
<1>3. /\ Queues' /\ \A a : Queued(a)' <=> Queued(a)
      /\ \A a : Readied(a)' <=> Readied(a)
      /\ \A a : Delayed(a)' <=> Delayed(a)
  BY <1>1, QueuedSame, ReadiedSame, DelayedSame DEF Single
<1>4. \A a : InHand(a)' <=> InHand(a) /\ a # hand[w]
  <2>1. \A v \in Workers : v # w => hand[v] # hand[w] /\ at'[v] = at[v]
    BY <1>1, SchedulerAssumption DEF Single, Types
  <2>2. at'[w] = "body"
    BY <1>1 DEF Types
  <2>. QED
    BY <1>1, <2>1, <2>2 DEF InHand
<1>5. Single'
  BY <1>1, <1>2, <1>3, <1>4, Shrunk DEF Single
<1>6. InHand(hand[w]) /\ Alone(hand[w])
  BY <1>1 DEF InHand, Single
<1>. QED
  BY <1>2, <1>3, <1>4, <1>5, <1>6 DEF Waits, Alone

\* A coroutine is made at a free address: nobody waited there.
LEMMA MakeMoves ==
  ASSUME Types, NEW c \in Addrs, Make(c), frame' = [frame EXCEPT ![c] = "suspended"]
  PROVE  /\ \A a \in Addrs : Awaiting(a)' <=> Awaiting(a)
         /\ Frames => ~Waits(c) /\ c \notin refs
<1>1. \A d \in Addrs : d # c => (Live(d)' <=> Live(d)) /\ cont'[d] = cont[d]
  BY DEF Make, Live, Types
<1>2. ~Live(c) /\ cont'[c] = None
  BY DEF Make, Live, Types
<1>. QED
  BY <1>1, <1>2, SchedulerAssumption DEF Awaiting, Frames, Make

\* A coroutine made and scheduled, inside or outside of another one.
LEMMA LaunchMoves ==
  ASSUME Types, Posts, Single, Frames, NEW c \in Addrs, Launch(c) \/ RunSync(c)
  PROVE  /\ Single'
         /\ ~crashed' => /\ \A a \in Addrs : Waits(a)' <=> Waits(a) \/ a = c
                         /\ refs' = refs \cup {c}
<1>. USE DEF delayVars, workVars
<1>1. /\ Make(c) /\ frame' = [frame EXCEPT ![c] = "suspended"] /\ Schedule(c)
      /\ UNCHANGED <<ready, sleeping, due, hand, at>>
  BY DEF Launch, RunSync
<1>2. (\A a \in Addrs : Awaiting(a)' <=> Awaiting(a)) /\ ~Waits(c) /\ c \notin refs
  BY <1>1, MakeMoves
<1>3. /\ Queues' /\ \A a : Queued(a)' => Queued(a) \/ a = c
      /\ ~crashed' => /\ \A a : Queued(a)' <=> Queued(a) \/ a = c
                      /\ refs' = refs \cup {c}
  BY <1>1, <1>2, ScheduleMoves DEF Waits, Single
<1>4. /\ \A a : InHand(a)' <=> InHand(a)
      /\ \A a : Readied(a)' <=> Readied(a)
      /\ \A a : Delayed(a)' <=> Delayed(a)
  BY <1>1, InHandSame, ReadiedSame, DelayedSame
<1>5. ASSUME NEW a \in Addrs PROVE Alone(a)'
  <2>1. Alone(a)
    BY DEF Single
  <2>2. ~(a \in sleeping' /\ a \in due')
    BY <1>1, <2>1 DEF Alone
  <2>. QED
    BY <1>2, <1>3, <1>4, <2>1, <2>2 DEF Alone, Waits
<1>6. Single'
  BY <1>1, <1>3, <1>5 DEF Single
<1>7. ~crashed' => \A a \in Addrs : Waits(a)' <=> Waits(a) \/ a = c
  BY <1>2, <1>3, <1>4 DEF Waits
<1>. QED
  BY <1>3, <1>6, <1>7

\* The one a worker runs waits nowhere.
LEMMA RunningWaitsNot ==
  ASSUME Types, Posts, Frames, NEW w \in Workers, at[w] \in {"body", "final"}
  PROVE  hand[w] \in Addrs /\ ~Waits(hand[w])
BY DEF Types, Posts, Post, Frames

LEMMA CallMoves ==
  ASSUME Types, Posts, Single, Frames, NEW w \in Workers, NEW c \in Addrs, Call(w, c)
  PROVE  Single' /\ \A a \in Addrs : Waits(a)' <=> Waits(a)
<1>. USE DEF delayVars, workVars, queueVars
<1>1. \A a \in Addrs : Awaiting(a)' <=> Awaiting(a)
  BY MakeMoves DEF Call
<1>. QED
  BY <1>1, Still DEF Call

\* The coroutine in the hand awaits the one it made, which is scheduled.
LEMMA AwaitMoves ==
  ASSUME Types, Posts, Single, Frames, Objects, NEW w \in Workers, Await(w)
  PROVE  LET a == hand[w] IN
         /\ a \in Addrs /\ child[a] \in Addrs /\ a # child[a] /\ ~Waits(a) /\ ~Waits(child[a])
         /\ Single'
         /\ ~crashed' => /\ \A b \in Addrs : Waits(b)' <=> Waits(b) \/ b = a \/ b = child[a]
                         /\ refs' = refs \cup {child[a]}
<1>. DEFINE a == hand[w]
            c == child[a]
<1>1. /\ at[w] = "body" /\ a \in Addrs /\ frame[a] = "running" /\ ~Waits(a)
      /\ c \in Addrs /\ Fresh(a)
  BY RunningWaitsNot DEF Await, InBody, Fresh, Types, Frames
<1>2. /\ frame[c] = "suspended" /\ c \notin refs /\ ~Waits(c) /\ cont[c] = None /\ c # a
  BY <1>1 DEF Objects, Unknown
<1>3. /\ cont' = [cont EXCEPT ![c] = a] /\ frame' = [frame EXCEPT ![a] = "suspended"]
      /\ Schedule(c) /\ UNCHANGED <<ready, sleeping, due>>
      /\ hand' = [hand EXCEPT ![w] = None] /\ at'[w] \in {"pass", "tick"}
      /\ \A v \in Workers : v # w => at'[v] = at[v]
  BY DEF Await, ContinueWith, GoHome, Home, delayVars, Types
<1>. HIDE DEF a, c
<1>4. /\ Queues' /\ \A b : Queued(b)' => Queued(b) \/ b = c
      /\ ~crashed' => /\ \A b : Queued(b)' <=> Queued(b) \/ b = c
                      /\ refs' = refs \cup {c}
  BY <1>1, <1>2, <1>3, ScheduleMoves DEF Waits, Single
<1>5. \A b \in Addrs : Awaiting(b)' <=> Awaiting(b) \/ b = a
  <2>1. \A d \in Addrs : Live(d)' <=> Live(d)
    BY <1>1, <1>3 DEF Live, Types
  <2>2. cont'[c] = a /\ \A d \in Addrs : d # c => cont'[d] = cont[d]
    BY <1>1, <1>3 DEF Types
  <2>3. Live(c)
    BY <1>2 DEF Live
  <2>. QED
    BY <1>1, <1>2, <2>1, <2>2, <2>3, SchedulerAssumption DEF Awaiting
<1>6. /\ \A b : InHand(b)' <=> InHand(b)
      /\ \A b : Readied(b)' <=> Readied(b)
      /\ \A b : Delayed(b)' <=> Delayed(b)
  <2>1. \A v \in Workers : /\ at'[v] = "resume" <=> at[v] = "resume"
                           /\ at[v] = "resume" => hand'[v] = hand[v]
    BY <1>1, <1>3 DEF Types
  <2>. QED
    BY <1>3, <2>1, InHandSame, ReadiedSame, DelayedSame
<1>7. ASSUME NEW b \in Addrs PROVE Alone(b)'
  <2>1. Alone(b)
    BY DEF Single
  <2>2. ~(b \in sleeping' /\ b \in due')
    BY <1>3, <2>1 DEF Alone
  <2>. QED
    BY <1>1, <1>2, <1>4, <1>5, <1>6, <2>1, <2>2 DEF Alone, Waits
<1>8. Single'
  <2>1. \A u, v \in Workers : hand'[u] = hand'[v] /\ hand'[u] # None => u = v
    BY <1>3 DEF Single, Types
  <2>. QED
    BY <1>3, <1>4, <1>7, <2>1 DEF Single
<1>9. ~crashed' => \A b \in Addrs : Waits(b)' <=> Waits(b) \/ b = a \/ b = c
  BY <1>4, <1>5, <1>6 DEF Waits
<1>. QED
  BY <1>1, <1>2, <1>4, <1>8, <1>9 DEF a, c

\* The coroutine in the hand goes to delayed_tasks.
LEMMA SuspendMoves ==
  ASSUME Types, Posts, Single, Frames, NEW w \in Workers, Sleep(w) \/ Yield(w)
  PROVE  /\ hand[w] \in Addrs /\ ~Waits(hand[w])
         /\ Single' /\ \A b \in Addrs : Waits(b)' <=> Waits(b) \/ b = hand[w]
<1>. DEFINE a == hand[w]
<1>1. at[w] = "body" /\ a \in Addrs /\ frame[a] = "running" /\ ~Waits(a)
  BY RunningWaitsNot DEF Sleep, Yield, Suspend, InBody, Frames
<1>2. /\ frame' = [frame EXCEPT ![a] = "suspended"] /\ UNCHANGED <<tasks, ready, cont>>
      /\ hand' = [hand EXCEPT ![w] = None] /\ at'[w] \in {"pass", "tick"}
      /\ \A v \in Workers : v # w => at'[v] = at[v]
      /\ \/ sleeping' = sleeping \cup {a} /\ due' = due
         \/ due' = due \cup {a} /\ sleeping' = sleeping
  BY DEF Sleep, Yield, Suspend, GoHome, Home, queueVars, objectVars, Types
<1>. HIDE DEF a
<1>3. \A b : Awaiting(b)' <=> Awaiting(b)
  <2>1. \A d \in Addrs : Live(d)' <=> Live(d)
    BY <1>1, <1>2 DEF Live, Types
  <2>. QED
    BY <1>2, <2>1, AwaitingSame
<1>4. /\ Queues' /\ \A b : Queued(b)' <=> Queued(b)
      /\ \A b : InHand(b)' <=> InHand(b)
      /\ \A b : Readied(b)' <=> Readied(b)
  <2>1. \A v \in Workers : /\ at'[v] = "resume" <=> at[v] = "resume"
                           /\ at[v] = "resume" => hand'[v] = hand[v]
    BY <1>1, <1>2 DEF Types
  <2>. QED
    BY <1>2, <2>1, QueuedSame, InHandSame, ReadiedSame DEF Single
<1>5. \A b : Delayed(b)' <=> Delayed(b) \/ b = a
  BY <1>2 DEF Delayed
<1>6. ASSUME NEW b \in Addrs PROVE Alone(b)'
  <2>1. Alone(b)
    BY DEF Single
  <2>2. ~(b \in sleeping' /\ b \in due')
    BY <1>1, <1>2, <2>1 DEF Alone, Waits, Delayed
  <2>. QED
    BY <1>1, <1>3, <1>4, <1>5, <2>1, <2>2 DEF Alone, Waits
<1>7. Single'
  <2>1. \A u, v \in Workers : hand'[u] = hand'[v] /\ hand'[u] # None => u = v
    BY <1>2 DEF Single, Types
  <2>. QED
    BY <1>2, <1>4, <1>6, <2>1 DEF Single
<1>8. \A b \in Addrs : Waits(b)' <=> Waits(b) \/ b = a
  BY <1>3, <1>4, <1>5 DEF Waits
<1>. QED
  BY <1>1, <1>7, <1>8 DEF a

\* At its end a coroutine hands over to the one that awaits it.
LEMMA FinalMoves ==
  ASSUME Types, Posts, Single, Frames, Objects, NEW w \in Workers, Final(w)
  PROVE  LET a == hand[w] IN
         /\ a \in Addrs /\ ~Waits(a) /\ (cont[a] # None => cont[a] \in Addrs /\ Awaiting(cont[a]))
         /\ Single' /\ \A b \in Addrs : Waits(b)' <=> Waits(b) /\ b # cont[a]
<1>. DEFINE a == hand[w]
            c == cont[a]
<1>1. at[w] = "final" /\ a \in Addrs /\ frame[a] = "final" /\ ~Waits(a) /\ Live(a)
  BY RunningWaitsNot DEF Final, Frames, Live
<1>2. UNCHANGED <<tasks, ready, sleeping, due, cont>>
  BY DEF Final, queueVars, delayVars, objectVars
<1>3. /\ \A b : Queued(b)' <=> Queued(b)
      /\ \A b : Readied(b)' <=> Readied(b)
      /\ \A b : Delayed(b)' <=> Delayed(b)
      /\ Queues'
  BY <1>2, QueuedSame, ReadiedSame, DelayedSame DEF Single
<1>4. \A v \in Workers : v # w => hand'[v] = hand[v] /\ at'[v] = at[v]
  BY DEF Final, GoHome, Types
<1>5. at'[w] # "resume"
  BY DEF Final, GoHome, Home, Types
<1>6. \A b : InHand(b)' <=> InHand(b)
  BY <1>1, <1>4, <1>5, InHandSame
<1>7. CASE c = None
  <2>1. frame' = [frame EXCEPT ![a] = "done"] /\ hand'[w] = None
    BY <1>7 DEF Final, GoHome, Types
  <2>2. \A d \in Addrs : Live(d)' <=> Live(d) /\ d # a
    BY <1>1, <2>1 DEF Live, Types
  <2>3. \A b \in Addrs : Awaiting(b)' <=> Awaiting(b)
    BY <1>2, <1>7, <2>2, SchedulerAssumption DEF Awaiting
  <2>4. \A u, v \in Workers : hand'[u] = hand'[v] /\ hand'[u] # None => u = v
    BY <1>4, <2>1 DEF Single
  <2>5. Single'
    BY <1>2, <1>3, <1>6, <2>3, <2>4, Shrunk DEF Single
  <2>. QED
    BY <1>1, <1>3, <1>6, <1>7, <2>3, <2>5, SchedulerAssumption DEF Waits
<1>8. CASE c # None
  <2>1. /\ frame' = [frame EXCEPT ![a] = "done", ![c] = "running"] /\ hand'[w] = c
        /\ c \in Addrs /\ child[c] = a
    BY <1>1, <1>8 DEF Final, Types, Objects
  <2>2. Awaiting(c) /\ Alone(c) /\ frame[c] = "suspended" /\ c # a
    BY <1>1, <2>1 DEF Awaiting, Single, Frames, Waits
  <2>3. \A d \in Addrs : Live(d)' <=> Live(d) /\ d # a
    BY <1>1, <2>1, <2>2 DEF Live, Types
  <2>4. \A d \in Addrs : Live(d) /\ cont[d] = c => d = a
    BY <2>1, <1>8 DEF Objects
  <2>5. \A b \in Addrs : Awaiting(b)' <=> Awaiting(b) /\ b # c
    BY <1>1, <1>2, <2>3, <2>4 DEF Awaiting
  <2>6. \A v \in Workers : hand[v] # c
    <3>. SUFFICES ASSUME NEW v \in Workers, hand[v] = c PROVE FALSE
      OBVIOUS
    <3>1. at[v] \in {"resume", "body", "final"}
      BY <1>8 DEF Posts, Post
    <3>2. ~InHand(c)
      BY <2>2 DEF Alone
    <3>. QED
      BY <2>2, <3>1, <3>2 DEF InHand, Frames
  <2>7. \A u, v \in Workers : hand'[u] = hand'[v] /\ hand'[u] # None => u = v
    BY <1>4, <2>1, <2>6 DEF Single
  <2>8. Single'
    BY <1>2, <1>3, <1>6, <2>5, <2>7, Shrunk DEF Single
  <2>9. ASSUME NEW b \in Addrs PROVE Waits(b)' <=> Waits(b) /\ b # c
    BY <1>3, <1>6, <2>2, <2>5 DEF Waits, Alone
  <2>. QED
    BY <1>1, <2>1, <2>2, <2>8, <2>9
<1>. QED
  BY <1>7, <1>8

-----------------------------------------------------------------------------
(* Frames, objects and the cleanup. *)

\* The coroutines that run keep running on their workers.
SameRuns ==
  \A w \in Workers : at[w] \in {"body", "final"} \/ at'[w] \in {"body", "final"}
                       => at'[w] = at[w] /\ hand'[w] = hand[w]

objects == <<child, awaited, cont, stale>>

\* Steps that move handles and leave everything else.
LEMMA MovingKeeps ==
  ASSUME Types, Posts, Sound, Reclaimed, SameRuns,
         UNCHANGED <<frame, refs, objects, syncTask, answer, crashed>>, ~crashed,
         \A a \in Addrs : (Waits(a)' => Waits(a)) /\ (Waits(a) => Waits(a)' \/ a \in dropped'),
         dropped \subseteq dropped',
         \A a \in Addrs : Swept(a)' <=> Swept(a)
  PROVE  Sound' /\ Reclaimed'
<1>. USE DEF objects
<1>1. Frames'
  <2>1. \A a \in Addrs : /\ Waits(a)' => frame'[a] = "suspended"
                         /\ frame'[a] = "free" => a \notin refs'
                         /\ frame'[a] = "suspended" /\ (a \in refs' \/ cont'[a] # None)
                              => Waits(a)' \/ a \in dropped'
                         /\ frame'[a] = "done" /\ a \in refs' => Swept(a)'
    BY DEF Sound, Frames
  <2>2. \A a \in Addrs :
          /\ frame'[a] = "running" => \E w \in Workers : at'[w] = "body" /\ hand'[w] = a
          /\ frame'[a] = "final" => \E w \in Workers : at'[w] = "final" /\ hand'[w] = a
    BY DEF Sound, Frames, SameRuns
  <2>3. \A w \in Workers : /\ at'[w] = "body" => frame'[hand'[w]] = "running"
                           /\ at'[w] = "final" => frame'[hand'[w]] = "final"
    BY DEF Sound, Frames, SameRuns
  <2>. QED
    BY <2>1, <2>2, <2>3 DEF Frames
<1>2. Objects'
  <2>1. \A p \in Addrs : Fresh(p)' <=> Fresh(p)
    BY DEF Fresh
  <2>2. \A c \in Addrs : Unknown(c) => Unknown(c)'
    BY DEF Unknown
  <2>. QED
    BY <2>1, <2>2 DEF Sound, Objects, Live
<1>3. Named'
  <2>1. \A p \in Addrs : Fresh(p)' <=> Fresh(p)
    BY DEF Fresh
  <2>. QED
    BY <2>1 DEF Sound, Named, Live
<1>4. Reclaimed'
  BY DEF Reclaimed, Swept
<1>. QED
  BY <1>1, <1>2, <1>3, <1>4 DEF Sound

\* The cleanup of a list.
LEMMA FreeKeeps ==
  ASSUME Types, Posts, Sound, Reclaimed, SameRuns, NEW list, Free(list), ~crashed,
         \A a \in list : Swept(a),
         \A a \in Addrs : (Swept(a)' => Swept(a)) /\ (Swept(a) => Swept(a)' \/ a \in list),
         UNCHANGED <<objects, syncTask, answer, dropped, threads>>,
         ~crashed' => \A a \in Addrs : Waits(a)' <=> Waits(a)
  PROVE  (~crashed' => Sound') /\ Reclaimed'
<1>. USE DEF objects
<1>. DEFINE gone == {a \in list \cap refs : Finished(a)}
<1>1. /\ refs' = refs \ list /\ gone \subseteq Addrs
      /\ \A a \in Addrs : frame'[a] = IF a \in gone THEN "free" ELSE frame[a]
      /\ ~crashed' => \A a \in gone : frame[a] = "done"
      /\ crashed' => \E a \in gone : frame[a] = "final"
  BY DEF Free, Finished, Types
<1>2. \A a \in gone : a \in list /\ a \in refs /\ Swept(a) /\ frame[a] \in {"final", "done"}
  BY DEF Finished
<1>3. \A a \in list \cap refs : frame[a] = "done" => a \in gone
  BY DEF Finished
<1>. HIDE DEF gone
<1>4. ASSUME ~crashed' PROVE Frames'
  <2>1. \A a \in Addrs : /\ Waits(a)' => frame'[a] = "suspended"
                         /\ frame'[a] = "free" => a \notin refs'
    BY <1>1, <1>2, <1>4 DEF Sound, Frames
  <2>2. \A a \in Addrs : frame'[a] = "suspended" /\ (a \in refs' \/ cont'[a] # None)
                              => Waits(a)' \/ a \in dropped'
    BY <1>1, <1>4 DEF Sound, Frames
  <2>3. \A a \in Addrs : frame'[a] = "done" /\ a \in refs' => Swept(a)'
    BY <1>1, <1>4 DEF Sound, Frames
  <2>4. \A a \in Addrs :
          /\ frame'[a] = "running" => \E w \in Workers : at'[w] = "body" /\ hand'[w] = a
          /\ frame'[a] = "final" => \E w \in Workers : at'[w] = "final" /\ hand'[w] = a
    BY <1>1, <1>4 DEF Sound, Frames, SameRuns
  <2>5. \A w \in Workers : /\ at'[w] = "body" => frame'[hand'[w]] = "running"
                           /\ at'[w] = "final" => frame'[hand'[w]] = "final"
    BY <1>1, <1>4 DEF Sound, Frames, SameRuns, Posts, Post, Types
  <2>. QED
    BY <2>1, <2>2, <2>3, <2>4, <2>5 DEF Frames
<1>5. ASSUME ~crashed' PROVE \A a \in Addrs : /\ frame[a] # "done" => frame'[a] = frame[a]
                                              /\ Live(a)' <=> Live(a)
  BY <1>1, <1>5 DEF Live
<1>6. \A p \in Addrs : (Fresh(p)' <=> Fresh(p)) /\ (Fresh(p) => child[p] \in Addrs)
  BY DEF Fresh, Types
<1>7. ASSUME ~crashed' PROVE Objects'
  <2>1. \A c \in Addrs : Unknown(c) => Unknown(c)'
    BY <1>1, <1>5, <1>7 DEF Unknown
  <2>. QED
    BY <1>5, <1>6, <1>7, <2>1, SchedulerAssumption DEF Sound, Objects, Types
<1>8. ASSUME ~crashed' PROVE Named'
  <2>1. ASSUME NEW a \in Addrs \ stale, Waits(a) \/ frame[a] \in {"running", "final"}
        PROVE  a \in refs' /\ ~Swept(a)'
    <3>1. a \in refs /\ ~Swept(a)
      BY <2>1 DEF Sound, Named
    <3>. QED
      BY <1>1, <3>1
  <2>2. ASSUME NEW a \in Addrs \ stale, NEW p \in Addrs, child[p] = a, Live(a)
        PROVE  IF Fresh(p) THEN ~Swept(a)' ELSE cont[a] = p
    BY <2>2 DEF Sound, Named
  <2>3. \A a \in Addrs : frame'[a] \in {"running", "final"} => frame[a] \in {"running", "final"}
    BY <1>1
  <2>4. \A a \in Addrs \ stale : syncTask = a /\ answer => ~Live(a)
    BY DEF Sound, Named
  <2>. QED
    BY <1>5, <1>6, <1>8, <2>1, <2>2, <2>3, <2>4 DEF Named
<1>9. Reclaimed'
  <2>1. ASSUME NEW a \in Addrs \ stale, frame'[a] = "done" PROVE a \in refs' /\ Swept(a)'
    <3>1. frame[a] = "done" /\ a \notin gone
      BY <1>1, <2>1
    <3>2. a \in refs /\ Swept(a)
      BY <3>1 DEF Reclaimed, Swept
    <3>3. a \notin list
      BY <1>3, <3>1, <3>2
    <3>. QED
      BY <1>1, <3>2, <3>3
  <2>2. ASSUME crashed' PROVE stale # {}
    <3>1. PICK a \in gone : frame[a] = "final"
      BY <1>1, <2>2
    <3>2. a \in Addrs /\ Swept(a)
      BY <1>1, <1>2
    <3>. QED
      BY <3>1, <3>2 DEF Sound, Named
  <2>. QED
    BY <2>1, <2>2 DEF Reclaimed, Swept
<1>. QED
  BY <1>4, <1>7, <1>8, <1>9 DEF Sound

\* The object that run_sync was given goes after the end of its coroutine.
LEMMA RunSyncEndKeeps ==
  ASSUME Types, Posts, Single, Sound, Reclaimed, RunSyncEnd, ~crashed
  PROVE  Single' /\ Sound' /\ Reclaimed'
<1>. USE DEF queueVars, delayVars, workVars, objectVars, ctlVars, bounds
<1>1. /\ cleanup' = cleanup \cup {syncTask} /\ syncTask \in Addrs /\ answer /\ syncTask' = None
      /\ UNCHANGED <<frame, refs, child, awaited, cont, stale, at, hand, dropped, crashed, threads>>
      /\ UNCHANGED <<tasks, ready, sleeping, due, swept>>
  BY DEF RunSyncEnd, Types, Posts
<1>2. \A a : Swept(a)' <=> Swept(a) \/ a = syncTask
  BY <1>1 DEF Swept
<1>3. \A a : Awaiting(a)' <=> Awaiting(a)
  BY <1>1, AwaitingSame DEF Live
<1>4. Single' /\ \A a \in Addrs : Waits(a)' <=> Waits(a)
  BY <1>1, <1>3, Still
<1>5. \A p \in Addrs : (Fresh(p)' <=> Fresh(p)) /\ (Fresh(p) => child[p] \in Addrs)
  BY <1>1 DEF Fresh, Types
<1>6. Frames'
  BY <1>1, <1>2, <1>4 DEF Sound, Frames
<1>7. Objects'
  <2>1. \A c \in Addrs : Unknown(c) => Unknown(c)'
    BY <1>1, <1>4 DEF Unknown
  <2>. QED
    BY <1>1, <1>5, <2>1 DEF Sound, Objects, Live
<1>8. Named'
  <2>1. syncTask \notin stale => ~Live(syncTask)
    BY <1>1 DEF Sound, Named
  <2>2. \A a \in Addrs : Waits(a) \/ frame[a] \in {"running", "final"} => Live(a)
    BY DEF Sound, Frames, Live
  <2>3. ASSUME NEW a \in Addrs \ stale, Live(a) PROVE Swept(a)' <=> Swept(a)
    BY <1>2, <2>1, <2>3
  <2>4. \A a \in Addrs : Live(a)' <=> Live(a)
    BY <1>1 DEF Live
  <2>. QED
    BY <1>1, <1>4, <1>5, <2>2, <2>3, <2>4, SchedulerAssumption DEF Sound, Named
<1>9. Reclaimed'
  BY <1>1 DEF Reclaimed
<1>. QED
  BY <1>4, <1>6, <1>7, <1>8, <1>9 DEF Sound

\* An object goes.
LEMMA DropKeeps ==
  ASSUME Types, Posts, Single, Sound, Reclaimed, NEW w \in Workers, Drop(w), ~crashed
  PROVE  Single' /\ Sound' /\ Reclaimed'
<1>. USE DEF queueVars, delayVars, workVars, ctlVars, callerVars, bounds
<1>. DEFINE a == hand[w]
            c == child[a]
<1>1. at[w] = "body" /\ a \in Addrs /\ frame[a] = "running" /\ ~Waits(a) /\ c \in Addrs
  BY RunningWaitsNot DEF Drop, InBody, Types, Sound, Frames
<1>2. /\ cleanup' = cleanup \cup {c} /\ child' = [child EXCEPT ![a] = None]
      /\ awaited' = [awaited EXCEPT ![a] = FALSE]
      /\ UNCHANGED <<frame, refs, cont, stale, at, hand, dropped, crashed, threads>>
      /\ UNCHANGED <<tasks, ready, sleeping, due, swept, syncTask, answer>>
  BY DEF Drop
<1>. HIDE DEF a, c
<1>3. \A b : Swept(b)' <=> Swept(b) \/ b = c
  BY <1>2 DEF Swept
<1>4. \A b : Awaiting(b)' <=> Awaiting(b)
  BY <1>2, AwaitingSame DEF Live
<1>5. Single' /\ \A b \in Addrs : Waits(b)' <=> Waits(b)
  BY <1>2, <1>4, Still
<1>6. /\ child'[a] = None /\ ~awaited'[a]
      /\ \A p \in Addrs : p # a => child'[p] = child[p] /\ awaited'[p] = awaited[p]
  BY <1>1, <1>2 DEF Types
<1>7. \A p \in Addrs : (Fresh(p)' <=> Fresh(p) /\ p # a) /\ (Fresh(p) => child[p] \in Addrs)
  BY <1>6 DEF Fresh, Types
<1>8. \A d \in Addrs : (Live(d)' <=> Live(d)) /\ (Live(d) => cont[d] # a)
  BY <1>1, <1>2 DEF Live, Waits, Awaiting
<1>9. Frames'
  BY <1>2, <1>3, <1>5 DEF Sound, Frames
<1>10. Objects'
  <2>1. \A p \in Addrs : IF child'[p] = None THEN ~awaited'[p] ELSE frame'[p] \in {"suspended", "running"}
    BY <1>2, <1>6 DEF Sound, Objects
  <2>2. ASSUME NEW p \in Addrs, NEW k \in Addrs, Fresh(p)', child'[p] = k PROVE Unknown(k)'
    <3>1. Fresh(p) /\ p # a /\ child[p] = k
      BY <1>6, <1>7, <2>2
    <3>2. Unknown(k) /\ k # a
      BY <1>1, <3>1 DEF Sound, Objects, Unknown
    <3>. QED
      BY <1>2, <1>5, <1>6, <3>2 DEF Unknown
  <2>3. \A p, q \in Addrs : Fresh(p)' /\ Fresh(q)' /\ child'[p] = child'[q] => p = q
    BY <1>6, <1>7 DEF Sound, Objects
  <2>4. \A d \in Addrs : Live(d)' /\ cont'[d] # None => child'[cont'[d]] = d /\ awaited'[cont'[d]]
    BY <1>2, <1>6, <1>8 DEF Sound, Objects, Types
  <2>. QED
    BY <2>1, <2>2, <2>3, <2>4 DEF Objects
<1>11. Named'
  <2>1. ASSUME c \notin stale, Live(c) PROVE Fresh(a) /\ frame[c] = "suspended" /\ ~Waits(c)
    <3>1. IF Fresh(a) THEN ~Swept(c) ELSE cont[c] = a
      BY <1>1, <2>1 DEF Sound, Named, c
    <3>2. Fresh(a)
      BY <1>1, <1>8, <2>1, <3>1
    <3>. QED
      BY <1>1, <3>2 DEF Sound, Objects, Unknown, c
  <2>2. ASSUME NEW b \in Addrs \ stale, Waits(b)' \/ frame'[b] \in {"running", "final"}
        PROVE  b \in refs' /\ ~Swept(b)'
    <3>1. Waits(b) \/ frame[b] \in {"running", "final"}
      BY <1>2, <1>5, <2>2
    <3>2. b \in refs /\ ~Swept(b)
      BY <3>1 DEF Sound, Named
    <3>3. b # c
      <4>1. Live(b)
        BY <3>1 DEF Sound, Frames, Live
      <4>. QED
        BY <2>1, <3>1, <4>1
    <3>. QED
      BY <1>2, <1>3, <3>2, <3>3
  <2>3. ASSUME NEW b \in Addrs \ stale, NEW p \in Addrs, child'[p] = b, Live(b)'
        PROVE  IF Fresh(p)' THEN ~Swept(b)' ELSE cont'[b] = p
    <3>1. p # a /\ child[p] = b /\ Live(b)
      BY <1>6, <1>8, <2>3, SchedulerAssumption
    <3>2. IF Fresh(p) THEN ~Swept(b) ELSE cont[b] = p
      BY <3>1 DEF Sound, Named
    <3>3. CASE Fresh(p)
      <4>1. b # c
        BY <1>1, <2>1, <3>1, <3>3 DEF Sound, Objects, c
      <4>. QED
        BY <1>3, <1>7, <3>1, <3>2, <3>3, <4>1
    <3>. QED
      BY <1>2, <1>7, <3>2, <3>3
  <2>4. \A b \in Addrs \ stale : syncTask' = b /\ answer' => ~Live(b)'
    BY <1>2, <1>8 DEF Sound, Named
  <2>. QED
    BY <1>2, <2>2, <2>3, <2>4 DEF Named
<1>12. Reclaimed'
  BY <1>2 DEF Reclaimed
<1>. QED
  BY <1>5, <1>9, <1>10, <1>11, <1>12 DEF Sound

\* A worker resumes a coroutine.
LEMMA ResumeKeeps ==
  ASSUME Types, Posts, Single, Sound, Reclaimed, NEW w \in Workers, Resume(w), UNCHANGED taskVars,
         ~crashed
  PROVE  Single' /\ Sound' /\ Reclaimed'
<1>. USE DEF queueVars, delayVars, refVars, workVars, ctlVars, taskVars, objectVars, callerVars, bounds
<1>. DEFINE h == hand[w]
<1>1. /\ h \in Addrs /\ at[w] = "resume" /\ frame[h] = "suspended" /\ InHand(h)
      /\ at' = [at EXCEPT ![w] = "body"] /\ frame' = [frame EXCEPT ![h] = "running"]
      /\ UNCHANGED <<refs, child, awaited, cont, stale, hand, dropped, crashed, threads>>
      /\ UNCHANGED <<syncTask, answer, cleanup, swept>>
  BY DEF Resume, Posts, Post, Types, InHand
<1>2. Single' /\ \A a \in Addrs : Waits(a)' <=> Waits(a) /\ a # h
  BY ResumeMoves
<1>. HIDE DEF h
<1>3. /\ frame'[h] = "running" /\ \A a \in Addrs : a # h => frame'[a] = frame[a]
      /\ at'[w] = "body" /\ \A v \in Workers : v # w => at'[v] = at[v]
  BY <1>1 DEF Types
<1>4. /\ \A a : Swept(a)' <=> Swept(a)
      /\ \A a \in Addrs : Live(a)' <=> Live(a)
      /\ \A p \in Addrs : (Fresh(p)' <=> Fresh(p)) /\ (Fresh(p) => child[p] \in Addrs)
  BY <1>1, <1>3 DEF Swept, Live, Fresh, Types
<1>5. Waits(h)
  BY <1>1 DEF Waits
<1>6. Frames'
  <2>1. \A a \in Addrs : /\ Waits(a)' => frame'[a] = "suspended"
                         /\ frame'[a] = "free" => a \notin refs'
                         /\ frame'[a] = "suspended" /\ (a \in refs' \/ cont'[a] # None)
                              => Waits(a)' \/ a \in dropped'
                         /\ frame'[a] = "done" /\ a \in refs' => Swept(a)'
    BY <1>1, <1>2, <1>3, <1>4 DEF Sound, Frames
  <2>2. ASSUME NEW a \in Addrs
        PROVE  /\ frame'[a] = "running" => \E v \in Workers : at'[v] = "body" /\ hand'[v] = a
               /\ frame'[a] = "final" => \E v \in Workers : at'[v] = "final" /\ hand'[v] = a
    <3>1. CASE a = h
      BY <1>1, <1>3, <3>1 DEF h
    <3>2. CASE a # h
      BY <1>1, <1>3, <3>2 DEF Sound, Frames
    <3>. QED
      BY <3>1, <3>2
  <2>3. ASSUME NEW v \in Workers
        PROVE  /\ at'[v] = "body" => frame'[hand'[v]] = "running"
               /\ at'[v] = "final" => frame'[hand'[v]] = "final"
    <3>1. CASE v = w
      BY <1>1, <1>3, <3>1 DEF h
    <3>2. CASE v # w
      <4>1. at[v] \in {"body", "final"} => hand[v] \in Addrs /\ hand[v] # h
        BY <1>1, <3>2 DEF Posts, Post, Types, Sound, Frames
      <4>. QED
        BY <1>1, <1>3, <3>2, <4>1 DEF Sound, Frames
    <3>. QED
      BY <3>1, <3>2
  <2>. QED
    BY <2>1, <2>2, <2>3 DEF Frames
<1>7. Objects'
  <2>1. \A p \in Addrs : IF child'[p] = None THEN ~awaited'[p] ELSE frame'[p] \in {"suspended", "running"}
    BY <1>1, <1>3 DEF Sound, Objects
  <2>2. ASSUME NEW p \in Addrs, NEW k \in Addrs, Fresh(p)', child'[p] = k PROVE Unknown(k)'
    <3>1. Fresh(p) /\ child[p] = k /\ Unknown(k) /\ k # h
      BY <1>1, <1>4, <1>5, <2>2 DEF Sound, Objects, Unknown
    <3>. QED
      BY <1>1, <1>2, <1>3, <3>1 DEF Unknown
  <2>3. \A p, q \in Addrs : Fresh(p)' /\ Fresh(q)' /\ child'[p] = child'[q] => p = q
    BY <1>1, <1>4 DEF Sound, Objects
  <2>4. \A d \in Addrs : Live(d)' /\ cont'[d] # None => child'[cont'[d]] = d /\ awaited'[cont'[d]]
    BY <1>1, <1>4 DEF Sound, Objects
  <2>. QED
    BY <2>1, <2>2, <2>3, <2>4 DEF Objects
<1>8. Named'
  <2>1. \A a \in Addrs : Waits(a)' \/ frame'[a] \in {"running", "final"}
                           => Waits(a) \/ frame[a] \in {"running", "final"}
    BY <1>2, <1>3, <1>5
  <2>. QED
    BY <1>1, <1>4, <2>1 DEF Sound, Named
<1>9. Reclaimed'
  BY <1>1, <1>3 DEF Reclaimed
<1>. QED
  BY <1>2, <1>6, <1>7, <1>8, <1>9 DEF Sound
\* A new coroutine is scheduled at once; its address was free.
LEMMA LaunchKeeps ==
  ASSUME Types, Posts, Single, Sound, Reclaimed, NEW c \in Addrs, Launch(c) \/ RunSync(c), ~crashed
  PROVE  Single' /\ (~crashed' => Sound') /\ Reclaimed'
<1>. USE DEF queueVars, delayVars, workVars, ctlVars, callerVars
<1>1. /\ frame[c] = "free" /\ frame' = [frame EXCEPT ![c] = "suspended"]
      /\ child' = [child EXCEPT ![c] = None] /\ awaited' = [awaited EXCEPT ![c] = FALSE]
      /\ cont' = [cont EXCEPT ![c] = None]
      /\ stale' = IF Referenced(c) THEN stale \cup {c} ELSE stale \ {c}
      /\ crashed' = (threads = 0) /\ refs' \in {refs, refs \cup {c}}
      /\ UNCHANGED <<at, hand, dropped, threads, cleanup, swept>>
      /\ \/ UNCHANGED <<syncTask, answer>>
         \/ syncTask' = c /\ answer' = FALSE
  BY DEF Launch, RunSync, Make, Schedule
<1>2. /\ Single'
      /\ ~crashed' => /\ \A a \in Addrs : Waits(a)' <=> Waits(a) \/ a = c
                      /\ refs' = refs \cup {c}
  BY LaunchMoves DEF Sound
<1>3. /\ frame'[c] = "suspended" /\ child'[c] = None /\ ~awaited'[c] /\ cont'[c] = None
      /\ \A a \in Addrs : a # c => /\ frame'[a] = frame[a] /\ child'[a] = child[a]
                                   /\ awaited'[a] = awaited[a] /\ cont'[a] = cont[a]
                                   /\ a \in stale' <=> a \in stale
      /\ c \notin stale' => ~Referenced(c)
  BY <1>1 DEF Types
<1>4. \A a : Swept(a)' <=> Swept(a)
  BY <1>1 DEF Swept
<1>5. child[c] = None /\ c \notin refs /\ ~Waits(c)
  BY <1>1 DEF Sound, Objects, Frames
<1>6. /\ \A p \in Addrs : (Fresh(p)' <=> Fresh(p)) /\ (Fresh(p) => p # c)
      /\ \A a \in Addrs : a # c => (Live(a)' <=> Live(a))
  BY <1>3, <1>5 DEF Fresh, Live
<1>7. ASSUME ~crashed' PROVE Frames'
  <2>1. ASSUME NEW a \in Addrs
        PROVE  /\ Waits(a)' => frame'[a] = "suspended"
               /\ frame'[a] = "running" => \E w \in Workers : at'[w] = "body" /\ hand'[w] = a
               /\ frame'[a] = "final" => \E w \in Workers : at'[w] = "final" /\ hand'[w] = a
               /\ frame'[a] = "free" => a \notin refs'
               /\ frame'[a] = "suspended" /\ (a \in refs' \/ cont'[a] # None)
                    => Waits(a)' \/ a \in dropped'
               /\ frame'[a] = "done" /\ a \in refs' => Swept(a)'
    <3>1. CASE a = c
      BY <1>2, <1>3, <1>7, <3>1
    <3>2. CASE a # c
      BY <1>1, <1>2, <1>3, <1>4, <1>7, <3>2 DEF Sound, Frames
    <3>. QED
      BY <3>1, <3>2
  <2>2. ASSUME NEW w \in Workers
        PROVE  /\ at'[w] = "body" => frame'[hand'[w]] = "running"
               /\ at'[w] = "final" => frame'[hand'[w]] = "final"
    <3>1. at[w] \in {"body", "final"} => hand[w] \in Addrs /\ hand[w] # c
      BY <1>1 DEF Posts, Post, Types, Sound, Frames
    <3>. QED
      BY <1>1, <1>3, <3>1 DEF Sound, Frames
  <2>. QED
    BY <2>1, <2>2 DEF Frames
<1>8. ASSUME ~crashed' PROVE Objects'
  <2>1. \A p \in Addrs : IF child'[p] = None THEN ~awaited'[p] ELSE frame'[p] \in {"suspended", "running"}
    BY <1>3 DEF Sound, Objects
  <2>2. ASSUME NEW p \in Addrs, NEW k \in Addrs, Fresh(p)', child'[p] = k PROVE Unknown(k)'
    <3>1. Fresh(p) /\ child[p] = k
      BY <1>3, <1>6, <2>2
    <3>2. Unknown(k)
      BY <3>1 DEF Sound, Objects
    <3>3. k # c
      BY <1>1, <3>2 DEF Unknown
    <3>. QED
      BY <1>2, <1>3, <1>8, <3>2, <3>3 DEF Unknown
  <2>3. \A p, q \in Addrs : Fresh(p)' /\ Fresh(q)' /\ child'[p] = child'[q] => p = q
    BY <1>3, <1>6 DEF Sound, Objects
  <2>4. ASSUME NEW d \in Addrs, Live(d)', cont'[d] # None
        PROVE  child'[cont'[d]] = d /\ awaited'[cont'[d]]
    <3>1. d # c /\ Live(d) /\ cont'[d] = cont[d] /\ cont[d] \in Addrs
      BY <1>3, <1>6, <2>4 DEF Types
    <3>2. child[cont[d]] = d /\ awaited[cont[d]]
      BY <2>4, <3>1 DEF Sound, Objects
    <3>3. cont[d] # c
      BY <1>5, <3>2, SchedulerAssumption
    <3>. QED
      BY <1>3, <3>1, <3>2, <3>3
  <2>. QED
    BY <2>1, <2>2, <2>3, <2>4 DEF Objects
<1>9. ASSUME ~crashed' PROVE Named'
  <2>1. ASSUME c \notin stale'
        PROVE  /\ c \in refs' /\ ~Swept(c)'
               /\ \A p \in Addrs : child'[p] # c
               /\ ~(syncTask' = c /\ answer')
    <3>1. ~Referenced(c)
      BY <1>3, <2>1
    <3>2. \A p \in Addrs : child'[p] # c
      <4>1. \A p \in Addrs : child[p] = c => Live(p)
        BY SchedulerAssumption DEF Sound, Objects, Live
      <4>. QED
        BY <1>3, <3>1, <4>1, SchedulerAssumption DEF Referenced
    <3>. QED
      BY <1>1, <1>2, <1>4, <1>9, <3>1, <3>2 DEF Referenced, Swept
  <2>2. ASSUME NEW a \in Addrs \ stale', a # c
        PROVE  /\ Waits(a)' \/ frame'[a] \in {"running", "final"} => a \in refs' /\ ~Swept(a)'
               /\ syncTask' = a /\ answer' => ~Live(a)'
    BY <1>1, <1>2, <1>3, <1>4, <1>6, <1>9, <2>2 DEF Sound, Named
  <2>3. ASSUME NEW a \in Addrs \ stale', a # c, NEW p \in Addrs, child'[p] = a, Live(a)'
        PROVE  IF Fresh(p)' THEN ~Swept(a)' ELSE cont'[a] = p
    <3>1. a \notin stale /\ child[p] = a /\ Live(a) /\ cont'[a] = cont[a]
      BY <1>3, <1>6, <2>3, SchedulerAssumption
    <3>. QED
      BY <1>4, <1>6, <3>1 DEF Sound, Named
  <2>. QED
    BY <2>1, <2>2, <2>3 DEF Named
<1>10. Reclaimed'
  <2>1. ASSUME NEW a \in Addrs \ stale', frame'[a] = "done" PROVE a \in refs' /\ Swept(a)'
    BY <1>1, <1>3, <1>4, <2>1 DEF Reclaimed, Swept
  <2>. QED
    BY <1>1, <2>1 DEF Reclaimed, Swept
<1>. QED
  BY <1>2, <1>7, <1>8, <1>9, <1>10 DEF Sound
\* A new coroutine is kept by the one that made it.
LEMMA CallKeeps ==
  ASSUME Types, Posts, Single, Sound, Reclaimed, NEW w \in Workers, NEW c \in Addrs, Call(w, c),
         ~crashed
  PROVE  Single' /\ Sound' /\ Reclaimed'
<1>. USE DEF queueVars, delayVars, refVars, workVars, ctlVars, callerVars
<1>. DEFINE a == hand[w]
<1>1. /\ frame[c] = "free" /\ frame' = [frame EXCEPT ![c] = "suspended"]
      /\ child' = [child EXCEPT ![c] = None, ![a] = c] /\ awaited' = [awaited EXCEPT ![c] = FALSE]
      /\ cont' = [cont EXCEPT ![c] = None] /\ child[a] = None
      /\ stale' = IF Referenced(c) THEN stale \cup {c} ELSE stale \ {c}
      /\ UNCHANGED <<at, hand, dropped, threads, refs, cleanup, swept, crashed, syncTask, answer>>
  BY DEF Call, Make
<1>2. Single' /\ \A b \in Addrs : Waits(b)' <=> Waits(b)
  BY CallMoves DEF Sound
<1>3. a \in Addrs /\ frame[a] = "running" /\ ~Waits(a) /\ a # c /\ ~awaited[a]
  BY <1>1, RunningWaitsNot DEF Call, InBody, Sound, Frames, Objects
<1>. HIDE DEF a
<1>4. /\ frame'[c] = "suspended" /\ child'[c] = None /\ ~awaited'[c] /\ cont'[c] = None
      /\ child'[a] = c /\ \A b \in Addrs : b # c /\ b # a => child'[b] = child[b]
      /\ \A b \in Addrs : b # c => /\ frame'[b] = frame[b] /\ awaited'[b] = awaited[b]
                                   /\ cont'[b] = cont[b] /\ (b \in stale' <=> b \in stale)
      /\ c \notin stale' => ~Referenced(c)
  BY <1>1, <1>3 DEF Types
<1>5. \A b : Swept(b)' <=> Swept(b)
  BY <1>1 DEF Swept
<1>6. child[c] = None /\ c \notin refs /\ ~Waits(c)
  BY <1>1 DEF Sound, Objects, Frames
<1>7. /\ \A p \in Addrs : Fresh(p)' <=> Fresh(p) \/ p = a
      /\ \A p \in Addrs : Fresh(p) => p # c /\ p # a
      /\ \A b \in Addrs : b # c => (Live(b)' <=> Live(b))
  BY <1>1, <1>3, <1>4, <1>6, SchedulerAssumption DEF Fresh, Live
<1>8. Frames'
  <2>1. ASSUME NEW b \in Addrs
        PROVE  /\ Waits(b)' => frame'[b] = "suspended"
               /\ frame'[b] = "running" => \E v \in Workers : at'[v] = "body" /\ hand'[v] = b
               /\ frame'[b] = "final" => \E v \in Workers : at'[v] = "final" /\ hand'[v] = b
               /\ frame'[b] = "free" => b \notin refs'
               /\ frame'[b] = "suspended" /\ (b \in refs' \/ cont'[b] # None)
                    => Waits(b)' \/ b \in dropped'
               /\ frame'[b] = "done" /\ b \in refs' => Swept(b)'
    <3>1. CASE b = c
      BY <1>1, <1>2, <1>4, <1>6, <3>1
    <3>2. CASE b # c
      BY <1>1, <1>2, <1>4, <1>5, <3>2 DEF Sound, Frames
    <3>. QED
      BY <3>1, <3>2
  <2>2. ASSUME NEW v \in Workers
        PROVE  /\ at'[v] = "body" => frame'[hand'[v]] = "running"
               /\ at'[v] = "final" => frame'[hand'[v]] = "final"
    <3>1. at[v] \in {"body", "final"} => hand[v] \in Addrs /\ hand[v] # c
      BY <1>1 DEF Posts, Post, Types, Sound, Frames
    <3>. QED
      BY <1>1, <1>4, <3>1 DEF Sound, Frames
  <2>. QED
    BY <2>1, <2>2 DEF Frames
<1>9. Objects'
  <2>1. \A p \in Addrs : IF child'[p] = None THEN ~awaited'[p] ELSE frame'[p] \in {"suspended", "running"}
    BY <1>3, <1>4 DEF Sound, Objects
  <2>2. ASSUME NEW p \in Addrs, NEW k \in Addrs, Fresh(p)', child'[p] = k PROVE Unknown(k)'
    <3>1. CASE p = a
      BY <1>1, <1>2, <1>4, <1>6, <2>2, <3>1 DEF Unknown
    <3>2. CASE p # a
      <4>1. Unknown(k)
        BY <1>4, <1>7, <2>2, <3>2 DEF Sound, Objects
      <4>2. k # c /\ k # a
        BY <1>1, <1>3, <4>1 DEF Unknown
      <4>. QED
        BY <1>1, <1>2, <1>4, <4>1, <4>2 DEF Unknown
    <3>. QED
      BY <3>1, <3>2
  <2>3. \A p, q \in Addrs : Fresh(p)' /\ Fresh(q)' /\ child'[p] = child'[q] => p = q
    <3>1. \A q \in Addrs : Fresh(q) => child[q] # c
      BY <1>1 DEF Sound, Objects, Unknown
    <3>. QED
      BY <1>4, <1>7, <3>1 DEF Sound, Objects
  <2>4. ASSUME NEW d \in Addrs, Live(d)', cont'[d] # None
        PROVE  child'[cont'[d]] = d /\ awaited'[cont'[d]]
    <3>1. d # c /\ Live(d) /\ cont'[d] = cont[d] /\ cont[d] \in Addrs
      BY <1>4, <1>7, <2>4 DEF Types
    <3>2. child[cont[d]] = d /\ awaited[cont[d]]
      BY <2>4, <3>1 DEF Sound, Objects
    <3>3. cont[d] # c /\ cont[d] # a
      BY <1>1, <1>6, <3>2, SchedulerAssumption
    <3>. QED
      BY <1>4, <3>1, <3>2, <3>3
  <2>. QED
    BY <2>1, <2>2, <2>3, <2>4 DEF Objects
<1>10. Named'
  <2>1. ASSUME c \notin stale'
        PROVE  /\ ~Swept(c)' /\ syncTask' # c
               /\ \A p \in Addrs : child'[p] = c => Fresh(p)'
    <3>1. ~Referenced(c)
      BY <1>4, <2>1
    <3>2. \A p \in Addrs : child[p] = c => Live(p)
      BY SchedulerAssumption DEF Sound, Objects, Live
    <3>3. \A p \in Addrs : child[p] # c
      BY <3>1, <3>2 DEF Referenced
    <3>4. \A p \in Addrs : child'[p] = c => p = a
      BY <1>4, <3>3, SchedulerAssumption
    <3>5. ~Swept(c) /\ syncTask # c
      BY <3>1 DEF Referenced, Swept
    <3>. QED
      BY <1>1, <1>5, <1>7, <3>4, <3>5
  <2>2. ~Waits(c)' /\ frame'[c] = "suspended"
    BY <1>2, <1>4, <1>6
  <2>3. ASSUME NEW b \in Addrs \ stale', b # c
        PROVE  /\ Waits(b)' \/ frame'[b] \in {"running", "final"} => b \in refs' /\ ~Swept(b)'
               /\ syncTask' = b /\ answer' => ~Live(b)'
    BY <1>1, <1>2, <1>4, <1>5, <1>7, <2>3 DEF Sound, Named
  <2>4. ASSUME NEW b \in Addrs \ stale', b # c, NEW p \in Addrs, child'[p] = b, Live(b)'
        PROVE  IF Fresh(p)' THEN ~Swept(b)' ELSE cont'[b] = p
    <3>1. b \notin stale /\ child[p] = b /\ Live(b) /\ cont'[b] = cont[b] /\ p # a
      BY <1>4, <1>7, <2>4, SchedulerAssumption
    <3>. QED
      BY <1>5, <1>7, <3>1 DEF Sound, Named
  <2>. QED
    BY <2>1, <2>2, <2>3, <2>4 DEF Named
<1>11. Reclaimed'
  <2>1. ASSUME NEW b \in Addrs \ stale', frame'[b] = "done" PROVE b \in refs' /\ Swept(b)'
    BY <1>1, <1>4, <1>5, <2>1 DEF Reclaimed, Swept
  <2>. QED
    BY <1>1, <2>1 DEF Reclaimed, Swept
<1>. QED
  BY <1>2, <1>8, <1>9, <1>10, <1>11 DEF Sound

\* A coroutine is suspended for the one it made.
LEMMA AwaitKeeps ==
  ASSUME Types, Posts, Single, Sound, Reclaimed, NEW w \in Workers, Await(w), ~crashed
  PROVE  Single' /\ (~crashed' => Sound') /\ Reclaimed'
<1>. USE DEF queueVars, delayVars, refVars, workVars, ctlVars, callerVars, bounds
<1>. DEFINE a == hand[w]
            c == child[a]
<1>1. /\ frame' = [frame EXCEPT ![a] = "suspended"] /\ at[w] = "body"
      /\ awaited' = [awaited EXCEPT ![a] = TRUE] /\ cont' = [cont EXCEPT ![c] = a]
      /\ at'[w] \in {"pass", "tick"} /\ \A v \in Workers : v # w => at'[v] = at[v] /\ hand'[v] = hand[v]
      /\ crashed' = (threads = 0) /\ refs' \in {refs, refs \cup {c}}
      /\ UNCHANGED <<child, stale, dropped, threads, cleanup, swept, syncTask, answer>>
  BY DEF Await, InBody, ContinueWith, Schedule, GoHome, Home, Types
<1>2. /\ a \in Addrs /\ c \in Addrs /\ a # c /\ ~Waits(a) /\ ~Waits(c)
      /\ Single'
      /\ ~crashed' => /\ \A b \in Addrs : Waits(b)' <=> Waits(b) \/ b = a \/ b = c
                      /\ refs' = refs \cup {c}
  BY AwaitMoves DEF Sound
<1>3. Fresh(a) /\ Unknown(c) /\ frame[a] = "running" /\ (a \notin stale => a \in refs /\ ~Swept(a))
  <2>1. Fresh(a)
    BY <1>2, SchedulerAssumption DEF Await, Fresh
  <2>. QED
    BY <1>1, <1>2, <2>1 DEF Sound, Frames, Objects, Named
<1>4. /\ frame'[a] = "suspended" /\ awaited'[a] /\ cont'[c] = a
      /\ \A b \in Addrs : b # a => frame'[b] = frame[b] /\ awaited'[b] = awaited[b]
      /\ \A b \in Addrs : b # c => cont'[b] = cont[b]
  BY <1>1, <1>2 DEF Types
<1>5. \A b : Swept(b)' <=> Swept(b)
  BY <1>1 DEF Swept
<1>6. /\ \A p \in Addrs : (Fresh(p)' <=> Fresh(p) /\ p # a)
      /\ \A b \in Addrs : Live(b)' <=> Live(b)
  BY <1>1, <1>3, <1>4 DEF Fresh, Live
<1>7. \A p \in Addrs : Fresh(p) /\ child[p] = c => p = a
  BY <1>2, <1>3 DEF Sound, Objects
<1>8. ASSUME ~crashed' PROVE Frames'
  <2>1. ASSUME NEW b \in Addrs
        PROVE  /\ Waits(b)' => frame'[b] = "suspended"
               /\ frame'[b] = "free" => b \notin refs'
               /\ frame'[b] = "suspended" /\ (b \in refs' \/ cont'[b] # None)
                    => Waits(b)' \/ b \in dropped'
               /\ frame'[b] = "done" /\ b \in refs' => Swept(b)'
    <3>1. CASE b = a \/ b = c
      BY <1>2, <1>3, <1>4, <1>8, <3>1 DEF Unknown
    <3>2. CASE b # a /\ b # c
      BY <1>1, <1>2, <1>4, <1>5, <1>8, <3>2 DEF Sound, Frames
    <3>. QED
      BY <3>1, <3>2
  <2>2. ASSUME NEW b \in Addrs
        PROVE  /\ frame'[b] = "running" => \E v \in Workers : at'[v] = "body" /\ hand'[v] = b
               /\ frame'[b] = "final" => \E v \in Workers : at'[v] = "final" /\ hand'[v] = b
    <3>1. CASE b = a
      BY <1>4, <3>1
    <3>2. CASE b # a
      BY <1>1, <1>4, <3>2 DEF Sound, Frames, a
    <3>. QED
      BY <3>1, <3>2
  <2>3. ASSUME NEW v \in Workers
        PROVE  /\ at'[v] = "body" => frame'[hand'[v]] = "running"
               /\ at'[v] = "final" => frame'[hand'[v]] = "final"
    <3>1. v # w /\ at[v] \in {"body", "final"} => hand[v] \in Addrs /\ hand[v] # a
      BY <1>2, SchedulerAssumption DEF Posts, Post, Types, Single
    <3>. QED
      BY <1>1, <1>4, <3>1 DEF Sound, Frames
  <2>. QED
    BY <2>1, <2>2, <2>3 DEF Frames
<1>. HIDE DEF a, c
<1>9. ASSUME ~crashed' PROVE Objects'
  <2>1. \A p \in Addrs : IF child'[p] = None THEN ~awaited'[p] ELSE frame'[p] \in {"suspended", "running"}
    BY <1>1, <1>3, <1>4 DEF Sound, Objects, Fresh
  <2>2. ASSUME NEW p \in Addrs, NEW k \in Addrs, Fresh(p)', child'[p] = k PROVE Unknown(k)'
    <3>1. Fresh(p) /\ p # a /\ child[p] = k /\ Unknown(k)
      BY <1>1, <1>6, <2>2 DEF Sound, Objects
    <3>2. k # c /\ k # a
      BY <1>3, <1>7, <3>1 DEF Unknown
    <3>. QED
      BY <1>1, <1>2, <1>4, <1>9, <3>1, <3>2 DEF Unknown
  <2>3. \A p, q \in Addrs : Fresh(p)' /\ Fresh(q)' /\ child'[p] = child'[q] => p = q
    BY <1>1, <1>6 DEF Sound, Objects
  <2>4. ASSUME NEW d \in Addrs, Live(d)', cont'[d] # None
        PROVE  child'[cont'[d]] = d /\ awaited'[cont'[d]]
    <3>1. CASE d = c
      BY <1>1, <1>4, <3>1 DEF c
    <3>2. CASE d # c
      <4>1. cont'[d] = cont[d] /\ cont[d] \in Addrs /\ Live(d) /\ cont[d] # a
        BY <1>2, <1>4, <1>6, <2>4, <3>2 DEF Types, Waits, Awaiting
      <4>. QED
        BY <1>1, <1>4, <2>4, <4>1 DEF Sound, Objects
    <3>. QED
      BY <3>1, <3>2
  <2>. QED
    BY <2>1, <2>2, <2>3, <2>4 DEF Objects
<1>10. ASSUME ~crashed' PROVE Named'
  <2>1. c \notin stale => ~Swept(c)
    BY <1>2, <1>3 DEF Sound, Named, Unknown, Live, c
  <2>2. ASSUME NEW b \in Addrs \ stale', Waits(b)' \/ frame'[b] \in {"running", "final"}
        PROVE  b \in refs' /\ ~Swept(b)'
    <3>1. CASE b = a \/ b = c
      BY <1>1, <1>2, <1>3, <1>5, <1>10, <2>1, <2>2, <3>1
    <3>2. CASE b # a /\ b # c
      BY <1>1, <1>2, <1>4, <1>5, <1>10, <2>2, <3>2 DEF Sound, Named
    <3>. QED
      BY <3>1, <3>2
  <2>3. ASSUME NEW b \in Addrs \ stale', NEW p \in Addrs, child'[p] = b, Live(b)'
        PROVE  IF Fresh(p)' THEN ~Swept(b)' ELSE cont'[b] = p
    <3>1. b \notin stale /\ child[p] = b /\ Live(b)
      BY <1>1, <1>6, <2>3
    <3>2. IF Fresh(p) THEN ~Swept(b) ELSE cont[b] = p
      BY <3>1 DEF Sound, Named
    <3>3. CASE p = a
      BY <1>3, <1>4, <1>6, <3>1, <3>3 DEF c
    <3>4. CASE p # a
      <4>1. b # c
        BY <1>3, <1>7, <3>1, <3>2, <3>4, SchedulerAssumption DEF Unknown
      <4>. QED
        BY <1>4, <1>5, <1>6, <3>2, <3>4, <4>1
    <3>. QED
      BY <3>3, <3>4
  <2>4. \A b \in Addrs \ stale' : syncTask' = b /\ answer' => ~Live(b)'
    BY <1>1, <1>6 DEF Sound, Named
  <2>. QED
    BY <2>2, <2>3, <2>4 DEF Named
<1>11. Reclaimed'
  <2>1. ASSUME NEW b \in Addrs \ stale', frame'[b] = "done" PROVE b \in refs' /\ Swept(b)'
    BY <1>1, <1>2, <1>4, <1>5, <2>1 DEF Reclaimed, Swept
  <2>. QED
    BY <1>1, <2>1 DEF Reclaimed, Swept
<1>. QED
  BY <1>2, <1>8, <1>9, <1>10, <1>11 DEF Sound
\* A coroutine sleeps or yields.
LEMMA SuspendKeeps ==
  ASSUME Types, Posts, Single, Sound, Reclaimed, NEW w \in Workers, Sleep(w) \/ Yield(w), ~crashed
  PROVE  Single' /\ Sound' /\ Reclaimed'
<1>. USE DEF queueVars, refVars, ctlVars, objectVars, callerVars
<1>. DEFINE a == hand[w]
<1>1. /\ frame' = [frame EXCEPT ![a] = "suspended"] /\ at[w] = "body"
      /\ at'[w] \in {"pass", "tick"} /\ \A v \in Workers : v # w => at'[v] = at[v] /\ hand'[v] = hand[v]
      /\ UNCHANGED <<refs, child, awaited, cont, stale, dropped, threads, cleanup, swept, crashed>>
      /\ UNCHANGED <<syncTask, answer>>
  BY DEF Sleep, Yield, Suspend, InBody, GoHome, Home, Types
<1>2. a \in Addrs /\ ~Waits(a) /\ Single' /\ \A b \in Addrs : Waits(b)' <=> Waits(b) \/ b = a
  BY SuspendMoves DEF Sound
<1>3. /\ frame[a] = "running" /\ frame'[a] = "suspended"
      /\ \A b \in Addrs : b # a => frame'[b] = frame[b]
      /\ a \notin stale => a \in refs /\ ~Swept(a)
  BY <1>1, <1>2 DEF Types, Sound, Frames, Named
<1>4. \A v \in Workers : v # w /\ at[v] \in {"body", "final"} => hand[v] \in Addrs /\ hand[v] # a
  BY <1>2, SchedulerAssumption DEF Posts, Post, Types, Single
<1>5. ASSUME NEW b \in Addrs, frame[b] \in {"running", "final"}, b # a
      PROVE  \A v \in Workers : hand[v] = b => v # w
  BY <1>5 DEF a
<1>. HIDE DEF a
<1>6. /\ \A b : Swept(b)' <=> Swept(b)
      /\ \A p \in Addrs : (Fresh(p)' <=> Fresh(p)) /\ (Live(p)' <=> Live(p))
  BY <1>1, <1>3 DEF Swept, Fresh, Live
<1>7. Frames'
  <2>1. \A b \in Addrs : /\ Waits(b)' => frame'[b] = "suspended"
                         /\ frame'[b] = "free" => b \notin refs'
                         /\ frame'[b] = "suspended" /\ (b \in refs' \/ cont'[b] # None)
                              => Waits(b)' \/ b \in dropped'
                         /\ frame'[b] = "done" /\ b \in refs' => Swept(b)'
    BY <1>1, <1>2, <1>3, <1>6 DEF Sound, Frames
  <2>2. \A b \in Addrs :
          /\ frame'[b] = "running" => \E v \in Workers : at'[v] = "body" /\ hand'[v] = b
          /\ frame'[b] = "final" => \E v \in Workers : at'[v] = "final" /\ hand'[v] = b
    BY <1>1, <1>3, <1>5 DEF Sound, Frames
  <2>3. \A v \in Workers : /\ at'[v] = "body" => frame'[hand'[v]] = "running"
                           /\ at'[v] = "final" => frame'[hand'[v]] = "final"
    BY <1>1, <1>3, <1>4 DEF Sound, Frames
  <2>. QED
    BY <2>1, <2>2, <2>3 DEF Frames
<1>8. Objects'
  <2>1. ASSUME NEW k \in Addrs, Unknown(k) PROVE Unknown(k)'
    <3>1. k # a
      BY <1>3, <2>1 DEF Unknown
    <3>. QED
      BY <1>1, <1>2, <1>3, <2>1, <3>1 DEF Unknown
  <2>. QED
    BY <1>1, <1>3, <1>6, <2>1 DEF Sound, Objects
<1>9. Named'
  <2>1. \A b \in Addrs : Waits(b)' \/ frame'[b] \in {"running", "final"}
                           => Waits(b) \/ frame[b] \in {"running", "final"}
    BY <1>2, <1>3
  <2>. QED
    BY <1>1, <1>6, <2>1 DEF Sound, Named
<1>10. Reclaimed'
  BY <1>1, <1>3 DEF Reclaimed
<1>. QED
  BY <1>2, <1>7, <1>8, <1>9, <1>10 DEF Sound

\* A coroutine returns.
LEMMA ReturnKeeps ==
  ASSUME Types, Posts, Single, Sound, Reclaimed, NEW w \in Workers, Return(w), ~crashed
  PROVE  Single' /\ Sound' /\ Reclaimed'
<1>. USE DEF queueVars, refVars, ctlVars, delayVars, taskVars, objectVars, callerVars, bounds
<1>. DEFINE a == hand[w]
<1>1. /\ frame' = [frame EXCEPT ![a] = "final"] /\ at[w] = "body" /\ child[a] = None
      /\ at'[w] = "final" /\ \A v \in Workers : v # w => at'[v] = at[v]
      /\ UNCHANGED <<hand, refs, child, awaited, cont, stale, dropped, threads, cleanup, swept>>
      /\ UNCHANGED <<syncTask, answer, crashed, tasks, ready, sleeping, due>>
  BY DEF Return, InBody, Types
<1>2. a \in Addrs /\ ~Waits(a)
  BY <1>1, RunningWaitsNot DEF Sound
<1>3. /\ frame[a] = "running" /\ frame'[a] = "final"
      /\ \A b \in Addrs : b # a => frame'[b] = frame[b]
  BY <1>1, <1>2 DEF Types, Sound, Frames
<1>4. \A v \in Workers : v # w /\ at[v] \in {"body", "final"} => hand[v] \in Addrs /\ hand[v] # a
  BY <1>2, SchedulerAssumption DEF Posts, Post, Types, Single
<1>5. ASSUME NEW b \in Addrs, b # a PROVE \A v \in Workers : hand[v] = b => v # w
  BY <1>5 DEF a
<1>6. hand[w] = a
  BY DEF a
<1>. HIDE DEF a
<1>7. /\ \A b : Swept(b)' <=> Swept(b)
      /\ \A p \in Addrs : (Fresh(p)' <=> Fresh(p)) /\ (Live(p)' <=> Live(p))
  BY <1>1, <1>3 DEF Swept, Fresh, Live
<1>8. Single' /\ \A b \in Addrs : Waits(b)' <=> Waits(b)
  <2>1. \A b : Awaiting(b)' <=> Awaiting(b)
    BY <1>1, <1>7, AwaitingSame
  <2>. QED
    BY <1>1, <2>1, Still
<1>9. Frames'
  <2>1. \A b \in Addrs : /\ Waits(b)' => frame'[b] = "suspended"
                         /\ frame'[b] = "free" => b \notin refs'
                         /\ frame'[b] = "suspended" /\ (b \in refs' \/ cont'[b] # None)
                              => Waits(b)' \/ b \in dropped'
                         /\ frame'[b] = "done" /\ b \in refs' => Swept(b)'
    BY <1>1, <1>2, <1>3, <1>7, <1>8 DEF Sound, Frames
  <2>2. ASSUME NEW b \in Addrs
        PROVE  /\ frame'[b] = "running" => \E v \in Workers : at'[v] = "body" /\ hand'[v] = b
               /\ frame'[b] = "final" => \E v \in Workers : at'[v] = "final" /\ hand'[v] = b
    BY <1>1, <1>3, <1>5, <1>6 DEF Sound, Frames
  <2>3. \A v \in Workers : /\ at'[v] = "body" => frame'[hand'[v]] = "running"
                           /\ at'[v] = "final" => frame'[hand'[v]] = "final"
    BY <1>1, <1>3, <1>4, <1>6 DEF Sound, Frames
  <2>. QED
    BY <2>1, <2>2, <2>3 DEF Frames
<1>10. Objects'
  <2>1. ASSUME NEW k \in Addrs, Unknown(k) PROVE Unknown(k)'
    <3>1. k # a
      BY <1>3, <2>1 DEF Unknown
    <3>. QED
      BY <1>1, <1>3, <1>8, <2>1, <3>1 DEF Unknown
  <2>2. \A p \in Addrs : IF child'[p] = None THEN ~awaited'[p] ELSE frame'[p] \in {"suspended", "running"}
    BY <1>1, <1>3 DEF Sound, Objects
  <2>. QED
    BY <1>1, <1>7, <2>1, <2>2 DEF Sound, Objects
<1>11. Named'
  <2>1. \A b \in Addrs : Waits(b)' \/ frame'[b] \in {"running", "final"}
                           => Waits(b) \/ frame[b] \in {"running", "final"}
    BY <1>3, <1>8
  <2>. QED
    BY <1>1, <1>7, <2>1 DEF Sound, Named
<1>12. Reclaimed'
  BY <1>1, <1>3 DEF Reclaimed
<1>. QED
  BY <1>8, <1>9, <1>10, <1>11, <1>12 DEF Sound

\* A coroutine ends, and the one that awaits it goes on.
LEMMA FinalKeeps ==
  ASSUME Types, Posts, Single, Sound, Reclaimed, NEW w \in Workers, Final(w), ~crashed
  PROVE  Single' /\ Sound' /\ Reclaimed'
<1>. USE DEF queueVars, refVars, ctlVars, delayVars, objectVars, bounds
<1>. DEFINE a == hand[w]
            c == cont[a]
<1>1. /\ at[w] = "final" /\ \A v \in Workers : v # w => at'[v] = at[v] /\ hand'[v] = hand[v]
      /\ UNCHANGED <<refs, child, awaited, cont, stale, dropped, threads, swept, crashed, syncTask>>
      /\ cleanup' = cleanup \cup {a} /\ answer' = (answer \/ a = syncTask)
  BY DEF Final, Complete, HandOver, GoHome, Types
<1>2. /\ a \in Addrs /\ ~Waits(a) /\ frame[a] = "final" /\ (c # None => c \in Addrs /\ Waits(c))
      /\ Single' /\ \A b \in Addrs : Waits(b)' <=> Waits(b) /\ b # c
  BY <1>1, FinalMoves DEF Sound, Waits, Frames
<1>3. c # None => frame[c] = "suspended" /\ c # a
  BY <1>2 DEF Sound, Frames
<1>4. /\ frame'[a] = "done" /\ \A b \in Addrs : b # a /\ b # c => frame'[b] = frame[b]
      /\ c # None => frame'[c] = "running" /\ at'[w] = "body" /\ hand'[w] = c
      /\ c = None => at'[w] \in {"pass", "tick"}
  BY <1>2, <1>3 DEF Final, GoHome, Home, Types
<1>5. \A v \in Workers : v # w /\ at[v] \in {"body", "final"}
                           => hand[v] \in Addrs /\ hand[v] # a /\ hand[v] # c
  <2>1. \A v \in Workers : v # w /\ at[v] \in {"body", "final"} => hand[v] \in Addrs /\ hand[v] # a
    BY <1>2, SchedulerAssumption DEF Posts, Post, Types, Single
  <2>. QED
    BY <1>3, <2>1, SchedulerAssumption DEF Sound, Frames
<1>6. ASSUME NEW b \in Addrs, b # a PROVE \A v \in Workers : hand[v] = b => v # w
  BY <1>6 DEF a
<1>. HIDE DEF a, c
<1>7. /\ \A b : Swept(b)' <=> Swept(b) \/ b = a
      /\ \A p \in Addrs : (Fresh(p)' <=> Fresh(p)) /\ (Live(p)' <=> Live(p) /\ p # a)
  <2>1. \A b : Swept(b)' <=> Swept(b) \/ b = a
    BY <1>1 DEF Swept
  <2>2. ASSUME NEW p \in Addrs PROVE (Fresh(p)' <=> Fresh(p)) /\ (Live(p)' <=> Live(p) /\ p # a)
    <3>1. CASE p = a \/ p # c
      BY <1>1, <1>4, <3>1 DEF Fresh, Live
    <3>2. CASE p = c
      BY <1>1, <1>2, <1>3, <1>4, <3>2, SchedulerAssumption DEF Fresh, Live
    <3>. QED
      BY <3>1, <3>2
  <2>. QED
    BY <2>1, <2>2
<1>8. Frames'
  <2>1. ASSUME NEW b \in Addrs
        PROVE  /\ Waits(b)' => frame'[b] = "suspended"
               /\ frame'[b] = "free" => b \notin refs'
               /\ frame'[b] = "suspended" /\ (b \in refs' \/ cont'[b] # None)
                    => Waits(b)' \/ b \in dropped'
               /\ frame'[b] = "done" /\ b \in refs' => Swept(b)'
    <3>1. CASE b = a
      BY <1>2, <1>4, <1>7, <3>1
    <3>2. CASE b = c
      BY <1>2, <1>4, <3>2, SchedulerAssumption
    <3>3. CASE b # a /\ b # c
      BY <1>1, <1>2, <1>4, <1>7, <3>3 DEF Sound, Frames
    <3>. QED
      BY <3>1, <3>2, <3>3
  <2>2. ASSUME NEW b \in Addrs
        PROVE  /\ frame'[b] = "running" => \E v \in Workers : at'[v] = "body" /\ hand'[v] = b
               /\ frame'[b] = "final" => \E v \in Workers : at'[v] = "final" /\ hand'[v] = b
    <3>1. CASE b = a
      BY <1>4, <3>1
    <3>2. CASE b = c
      BY <1>4, <3>2, SchedulerAssumption
    <3>3. CASE b # a /\ b # c
      BY <1>1, <1>4, <1>6, <3>3 DEF Sound, Frames
    <3>. QED
      BY <3>1, <3>2, <3>3
  <2>3. ASSUME NEW v \in Workers
        PROVE  /\ at'[v] = "body" => frame'[hand'[v]] = "running"
               /\ at'[v] = "final" => frame'[hand'[v]] = "final"
    <3>1. CASE v = w
      BY <1>4, <3>1
    <3>2. CASE v # w
      BY <1>1, <1>4, <1>5, <3>2 DEF Sound, Frames
    <3>. QED
      BY <3>1, <3>2
  <2>. QED
    BY <2>1, <2>2, <2>3 DEF Frames
<1>9. Objects'
  <2>1. ASSUME NEW k \in Addrs, Unknown(k) PROVE Unknown(k)'
    <3>1. k # a /\ k # c
      BY <1>2, <2>1, SchedulerAssumption DEF Unknown
    <3>. QED
      BY <1>1, <1>2, <1>4, <2>1, <3>1 DEF Unknown
  <2>2. ASSUME NEW p \in Addrs
        PROVE  IF child'[p] = None THEN ~awaited'[p] ELSE frame'[p] \in {"suspended", "running"}
    <3>1. IF child[p] = None THEN ~awaited[p] ELSE frame[p] \in {"suspended", "running"}
      BY DEF Sound, Objects
    <3>2. CASE p = a
      BY <1>1, <1>2, <3>1, <3>2
    <3>3. CASE p = c
      BY <1>1, <1>4, <3>1, <3>3, SchedulerAssumption
    <3>4. CASE p # a /\ p # c
      BY <1>1, <1>4, <3>1, <3>4
    <3>. QED
      BY <3>2, <3>3, <3>4
  <2>. QED
    BY <1>1, <1>7, <2>1, <2>2 DEF Sound, Objects
<1>10. Named'
  <2>1. ASSUME NEW b \in Addrs \ stale', Waits(b)' \/ frame'[b] \in {"running", "final"}
        PROVE  b \in refs' /\ ~Swept(b)'
    <3>1. b # a
      BY <1>2, <1>4, <2>1
    <3>2. Waits(b) \/ frame[b] \in {"running", "final"}
      BY <1>2, <1>4, <2>1, <3>1, SchedulerAssumption
    <3>. QED
      BY <1>1, <1>7, <3>1, <3>2 DEF Sound, Named
  <2>2. ASSUME NEW b \in Addrs \ stale', NEW p \in Addrs, child'[p] = b, Live(b)'
        PROVE  IF Fresh(p)' THEN ~Swept(b)' ELSE cont'[b] = p
    <3>1. b \notin stale /\ child[p] = b /\ Live(b) /\ b # a
      BY <1>1, <1>7, <2>2
    <3>. QED
      BY <1>1, <1>7, <3>1 DEF Sound, Named
  <2>3. ASSUME NEW b \in Addrs \ stale', syncTask' = b, answer' PROVE ~Live(b)'
    BY <1>1, <1>7, <2>3 DEF Sound, Named
  <2>. QED
    BY <2>1, <2>2, <2>3 DEF Named
<1>11. Reclaimed'
  <2>1. ASSUME NEW b \in Addrs \ stale', frame'[b] = "done" PROVE b \in refs' /\ Swept(b)'
    <3>1. CASE b = a
      BY <1>1, <1>2, <1>7, <2>1, <3>1 DEF Sound, Named
    <3>2. CASE b # a
      <4>1. frame[b] = "done"
        BY <1>4, <2>1, <3>2, SchedulerAssumption
      <4>. QED
        BY <1>1, <1>7, <4>1 DEF Reclaimed, Swept
    <3>. QED
      BY <3>1, <3>2
  <2>. QED
    BY <1>1, <2>1 DEF Reclaimed, Swept
<1>. QED
  BY <1>2, <1>8, <1>9, <1>10, <1>11 DEF Sound
LEMMA CleanKeeps ==
  ASSUME Types, Posts, Single, Sound, Reclaimed, NEW w \in Workers, Clean(w), UNCHANGED taskVars,
         ~crashed
  PROVE  Single' /\ (~crashed' => Sound') /\ Reclaimed'
<1>. USE DEF queueVars, delayVars, ctlVars, taskVars, objectVars, callerVars, bounds
<1>. DEFINE list == swept[w]
<1>1. /\ Free(list) /\ swept'[w] = {} /\ \A v \in Workers : v # w => swept'[v] = swept[v]
      /\ at[w] = "clean" /\ at'[w] = "tick" /\ \A v \in Workers : v # w => at'[v] = at[v]
      /\ UNCHANGED <<cleanup, hand, dropped, threads, syncTask, answer, objects>>
  BY DEF Clean, objects, Types
<1>2. Single' /\ (~crashed' => \A a \in Addrs : Waits(a)' <=> Waits(a))
  BY CleanMoves
<1>3. SameRuns
  BY <1>1 DEF SameRuns
<1>4. /\ \A a \in list : Swept(a)
      /\ \A a \in Addrs : (Swept(a)' => Swept(a)) /\ (Swept(a) => Swept(a)' \/ a \in list)
  BY <1>1 DEF Swept
<1>. HIDE DEF list
<1>. QED
  BY <1>1, <1>2, <1>3, <1>4, FreeKeeps

LEMMA RunPassKeeps ==
  ASSUME Types, Posts, Single, Sound, Reclaimed, RunPass, ~crashed
  PROVE  Single' /\ (~crashed' => Sound') /\ Reclaimed'
<1>. USE DEF objectVars, bounds
<1>1. /\ Free(cleanup) /\ cleanup' = {} /\ at[0] = "pass"
      /\ at'[0] \in {"tick", "off", "pass"} /\ \A v \in Workers : v # 0 => at'[v] = at[v]
      /\ UNCHANGED <<swept, hand, dropped, threads, syncTask, answer, objects>>
  BY SchedulerAssumption DEF RunPass, Pass, objects, Types, Workers
<1>2. Single' /\ (~crashed' => \A a \in Addrs : Waits(a)' <=> Waits(a))
  BY RunPassMoves
<1>3. SameRuns
  BY <1>1 DEF SameRuns
<1>4. /\ \A a \in cleanup : Swept(a)
      /\ \A a \in Addrs : (Swept(a)' => Swept(a)) /\ (Swept(a) => Swept(a)' \/ a \in cleanup)
  BY <1>1 DEF Swept
<1>. QED
  BY <1>1, <1>2, <1>3, <1>4, FreeKeeps

\* Everything else that the scheduler does moves handles.
LEMMA WorkerKeeps ==
  ASSUME Types, Posts, Single, Sound, Reclaimed, ~crashed, UNCHANGED taskVars, NEW w \in Workers,
         \/ Exit(w) \/ Tick(w) \/ Take(w) \/ NoTask(w) \/ Sweep(w)
         \/ \E h \in Addrs : Place(w, h)
         \/ \E i \in Workers : Steal(w, i)
  PROVE  Single' /\ Sound' /\ Reclaimed'
<1>. USE DEF queueVars, delayVars, refVars, ctlVars, taskVars, objectVars, callerVars, bounds, workVars
<1>1. /\ UNCHANGED <<frame, refs, objects, syncTask, answer, crashed, dropped>>
      /\ \A v \in Workers : v # w => at'[v] = at[v] /\ hand'[v] = hand[v]
      /\ at[w] \in {"tick", "place", "steal"} /\ at'[w] \notin {"body", "final"}
  BY DEF Exit, Tick, Take, NoTask, Sweep, Place, Steal, Looking, objects, Types
<1>2. SameRuns
  BY <1>1 DEF SameRuns
<1>3. \A a : Awaiting(a)' <=> Awaiting(a)
  BY <1>1, AwaitingSame DEF Live, objects
<1>4. Single' /\ \A a \in Addrs : Waits(a)' <=> Waits(a)
  <2>1. CASE Exit(w) \/ NoTask(w) \/ Sweep(w)
    <3>1. UNCHANGED <<tasks, ready, sleeping, due, hand>>
      BY <2>1 DEF Exit, NoTask, Sweep
    <3>2. \A v \in Workers : at'[v] = "resume" <=> at[v] = "resume"
      BY <2>1 DEF Exit, NoTask, Sweep, Looking, Types
    <3>. QED
      BY <1>3, <3>1, <3>2, Still
  <2>2. CASE Tick(w)
    BY <2>2, TickMoves
  <2>3. CASE Take(w)
    BY <2>3, TakeMoves DEF Sound
  <2>4. CASE \E h \in Addrs : Place(w, h)
    BY <2>4, PlaceMoves
  <2>5. CASE \E i \in Workers : Steal(w, i)
    BY <2>5, StealMoves DEF Sound
  <2>. QED
    BY <2>1, <2>2, <2>3, <2>4, <2>5
<1>5. \A a \in Addrs : Swept(a)' <=> Swept(a)
  <2>1. CASE Sweep(w)
    <3>1. /\ swept[w] = {} /\ swept'[w] = cleanup /\ cleanup' = {}
          /\ \A v \in Workers : v # w => swept'[v] = swept[v]
      BY <2>1 DEF Sweep, Types, Posts, Post
    <3>. QED
      BY <3>1 DEF Swept
  <2>2. CASE ~Sweep(w)
    <3>1. UNCHANGED <<swept, cleanup>>
      BY <2>2 DEF Exit, Tick, Take, NoTask, Place, Steal
    <3>. QED
      BY <3>1 DEF Swept
  <2>. QED
    BY <2>1, <2>2
<1>6. Sound' /\ Reclaimed'
  BY <1>1, <1>2, <1>4, <1>5, MovingKeeps
<1>. QED
  BY <1>4, <1>6

\* Time passes; start, stop and run() begin.
LEMMA ControlKeeps ==
  ASSUME Types, Posts, Single, Sound, Reclaimed, ~crashed, Control \/ EnterRun \/ Time
  PROVE  Single' /\ Sound' /\ Reclaimed'
<1>. USE DEF queueVars, delayVars, refVars, ctlVars, taskVars, objectVars, callerVars, bounds, workVars
<1>1. /\ UNCHANGED <<frame, refs, objects, syncTask, answer, crashed, swept, cleanup, hand>>
      /\ dropped \subseteq dropped'
  BY DEF Control, Start, Stop, EnterRun, RunBegin, Time, Expire, objects
<1>2. SameRuns /\ \A v \in Workers : at'[v] = "resume" <=> at[v] = "resume"
  <2>1. CASE Control
    BY <2>1 DEF Control, Start, Stop, Quiet, SameRuns
  <2>2. CASE EnterRun
    BY <2>2 DEF EnterRun, RunBegin, Quiet, SameRuns, Types
  <2>3. CASE Time
    BY <2>3 DEF Time, Expire, SameRuns
  <2>. QED
    BY <2>1, <2>2, <2>3
<1>3. \A a : Awaiting(a)' <=> Awaiting(a)
  BY <1>1, AwaitingSame DEF Live, objects
<1>4. /\ Single'
      /\ \A a \in Addrs : (Waits(a)' => Waits(a)) /\ (Waits(a) => Waits(a)' \/ a \in dropped')
  <2>1. CASE Control
    <3>1. UNCHANGED <<tasks, ready, sleeping, due, hand>>
      BY <2>1 DEF Control, Start, Stop
    <3>. QED
      BY <1>2, <1>3, <3>1, Still
  <2>2. CASE EnterRun
    BY <2>2, EnterRunMoves
  <2>3. CASE Time
    BY <2>3, ExpireMoves DEF Time
  <2>. QED
    BY <2>1, <2>2, <2>3
<1>5. \A a \in Addrs : Swept(a)' <=> Swept(a)
  BY <1>1 DEF Swept
<1>6. Sound' /\ Reclaimed'
  BY <1>1, <1>2, <1>4, <1>5, MovingKeeps
<1>. QED
  BY <1>4, <1>6

-----------------------------------------------------------------------------
(* The theorems. *)

LEMMA HomeInit == Init => HomeInv
<1>. SUFFICES ASSUME Init PROVE HomeInv
  OBVIOUS
<1>. USE SchedulerAssumption DEF Init, SchedInit
<1>1. Types /\ Posts
  BY InitTypes
<1>2. Range(<< >>) = {} /\ IsInjective(<< >>)
  BY DEF Range, IsInjective
<1>3. \A w \in Workers : tasks[w] = << >> /\ at[w] = "off" /\ hand[w] = None /\ ready[w] = {}
  OBVIOUS
<1>4. \A a \in Addrs : ~Waits(a) /\ frame[a] = "free" /\ child[a] = None /\ ~Fresh(a) /\ ~awaited[a]
  BY <1>2, <1>3 DEF Waits, Queued, InHand, Readied, Delayed, Awaiting, Fresh
<1>5. Single
  BY <1>2, <1>3, <1>4 DEF Single, Queues, Alone, Waits
<1>6. Frames
  BY <1>3, <1>4 DEF Frames
<1>7. Objects /\ Named
  BY <1>4 DEF Objects, Named, Live
<1>8. Reclaimed
  BY <1>4 DEF Reclaimed
<1>. QED
  BY <1>1, <1>5, <1>6, <1>7, <1>8 DEF HomeInv, Sound

LEMMA HomeStep == HomeInv /\ [Next]_vars => HomeInv'
<1>. SUFFICES ASSUME HomeInv, [Next]_vars PROVE HomeInv'
  OBVIOUS
<1>1. Types /\ Posts /\ Single /\ Reclaimed /\ (~crashed => Sound)
  BY DEF HomeInv
<1>2. Types' /\ Posts'
  BY <1>1, TypesStep, PostsStep
<1>3. CASE UNCHANGED vars
  <2>1. Single' /\ Reclaimed' /\ (~crashed' => Sound')
    BY <1>1, <1>3 DEF vars, schedVars, ctlVars, queueVars, delayVars, refVars, workVars, taskVars,
       objectVars, callerVars, bounds, Single, Queues, Alone, Queued, InHand, Readied, Delayed, Awaiting,
       Live, Reclaimed, Sound, Frames, Objects, Named, Waits, Swept, Fresh, Unknown
  <2>. QED
    BY <1>2, <2>1 DEF HomeInv
<1>4. CASE Next
  <2>1. ~crashed /\ Sound
    BY <1>1, <1>4 DEF Next
  <2>2. CASE Control \/ EnterRun \/ Time
    BY <1>1, <1>2, <2>1, <2>2, ControlKeeps DEF HomeInv
  <2>3. CASE RunPass
    BY <1>1, <1>2, <2>1, <2>3, RunPassKeeps DEF HomeInv
  <2>4. CASE RunSyncEnd
    BY <1>1, <1>2, <2>1, <2>4, RunSyncEndKeeps DEF HomeInv
  <2>5. ASSUME NEW c \in Addrs, Launch(c) \/ RunSync(c) PROVE HomeInv'
    BY <1>1, <1>2, <2>1, <2>5, LaunchKeeps DEF HomeInv
  <2>6. ASSUME NEW w \in Workers, WorkerStep(w), UNCHANGED taskVars PROVE HomeInv'
    <3>1. CASE Clean(w)
      BY <1>1, <1>2, <2>1, <2>6, <3>1, CleanKeeps DEF HomeInv
    <3>2. CASE Resume(w)
      BY <1>1, <1>2, <2>1, <2>6, <3>2, ResumeKeeps DEF HomeInv
    <3>3. CASE \/ Exit(w) \/ Tick(w) \/ Take(w) \/ NoTask(w) \/ Sweep(w)
               \/ \E h \in Addrs : Place(w, h)
               \/ \E i \in Workers : Steal(w, i)
      BY <1>1, <1>2, <2>1, <2>6, <3>3, WorkerKeeps DEF HomeInv
    <3>. QED
      BY <2>6, <3>1, <3>2, <3>3 DEF WorkerStep
  <2>7. ASSUME NEW w \in Workers, Body(w) PROVE HomeInv'
    <3>1. CASE Await(w)
      BY <1>1, <1>2, <2>1, <3>1, AwaitKeeps DEF HomeInv
    <3>2. CASE Drop(w)
      BY <1>1, <1>2, <2>1, <3>2, DropKeeps DEF HomeInv
    <3>3. CASE Sleep(w) \/ Yield(w)
      BY <1>1, <1>2, <2>1, <3>3, SuspendKeeps DEF HomeInv
    <3>4. CASE Return(w)
      BY <1>1, <1>2, <2>1, <3>4, ReturnKeeps DEF HomeInv
    <3>5. ASSUME NEW c \in Addrs, Call(w, c) PROVE HomeInv'
      BY <1>1, <1>2, <2>1, <3>5, CallKeeps DEF HomeInv
    <3>6. ASSUME NEW c \in Addrs, Spawn(w, c) PROVE HomeInv'
      BY <2>5, <3>6 DEF Spawn
    <3>. QED
      BY <2>7, <3>1, <3>2, <3>3, <3>4, <3>5, <3>6 DEF Body
  <2>8. ASSUME NEW w \in Workers, Final(w) PROVE HomeInv'
    BY <1>1, <1>2, <2>1, <2>8, FinalKeeps DEF HomeInv
  <2>. QED
    BY <1>4, <2>2, <2>3, <2>4, <2>5, <2>6, <2>7, <2>8 DEF Next, Worker
<1>. QED
  BY <1>3, <1>4

\* In every state each coroutine waits in one way only, and everyone who names a coroutine
\* has the right to: what the proofs below rest on.
THEOREM HomeInvariant == Spec => []HomeInv
BY HomeInit, HomeStep, PTL DEF Spec

\* What schedule, start, stop, run(), run_sync, the workers and the coroutines leave in the
\* members of the scheduler has its type, whatever the number of workers: no index leaves
\* the queues, and no queue has more handles than there are frames.
THEOREM TypeCorrect == Spec => []TypeOK
<1>1. ASSUME HomeInv PROVE TypeOK
  <2>1. Types /\ Posts /\ Queues
    BY <1>1 DEF HomeInv, Single
  <2>2. ASSUME NEW w \in Workers
        PROVE  Range(tasks[w]) \subseteq Addrs /\ Len(tasks[w]) <= Cardinality(Addrs)
    <3>1. tasks[w] \in Seq(Addrs) /\ IsInjective(tasks[w])
      BY <2>1 DEF Types, Queues
    <3>. QED
      BY <3>1, RangeOfSeq, Bounded, SchedulerAssumption
  <2>3. SchedTypeOK
    BY <2>1, <2>2 DEF Types, Posts, Post, SchedTypeOK
  <2>. QED
    BY <2>1, <2>3 DEF Types, TypeOK
<1>. QED
  BY <1>1, HomeInvariant, PTL

\* A finished coroutine is known to the cleanup, which destroys no frame below its final
\* awaiter, unless the address had a second entry in cleanup_tasks when it was used again.
THEOREM ReclaimedCorrect == Spec => []Reclaimed
<1>1. HomeInv => Reclaimed
  BY DEF HomeInv
<1>. QED
  BY <1>1, HomeInvariant, PTL
LEMMA AtMostOne ==
  ASSUME NEW S, \A x, y \in S : x = y
  PROVE  Cardinality(S) \in {0, 1} /\ (S = {} => Cardinality(S) = 0)
<1>1. CASE S = {}
  BY <1>1, FS_EmptySet
<1>2. CASE S # {}
  <2>1. PICK x \in S : S = {x}
    BY <1>2
  <2>. QED
    BY <1>2, <2>1, FS_Singleton
<1>. QED
  BY <1>1, <1>2

\* The homes of a coroutine are the ways in which it waits, and there is one at most.
LEMMA HomesAreWaits ==
  ASSUME Types, Single, Objects, NEW a \in Addrs
  PROVE  (Homes(a) # {} <=> Waits(a)) /\ \A x, y \in Homes(a) : x = y
<1>. DEFINE inQueue ==
              UNION {{<<"queue", w, i>> : i \in {j \in DOMAIN tasks[w] : tasks[w][j] = a}} : w \in Workers}
            inHand == {<<"hand", w>> : w \in {v \in Workers : at[v] = "resume" /\ hand[v] = a}}
            isReady == {<<"ready", w>> : w \in {v \in Workers : a \in ready[v]}}
            late == {<<"delayed", q>> : q \in {r \in {1, 2} : a \in <<sleeping, due>>[r]}}
            after == {<<"continuation", c>> : c \in {d \in Addrs : Live(d) /\ cont[d] = a}}
<1>1. (inQueue # {} <=> Queued(a)) /\ \A x, y \in inQueue : x = y
  <2>1. ASSUME NEW w \in Workers PROVE a \in Range(tasks[w]) <=> \E i \in DOMAIN tasks[w] : tasks[w][i] = a
    BY DEF Range
  <2>2. ASSUME NEW v \in Workers, NEW w \in Workers,
               NEW i \in DOMAIN tasks[v], NEW j \in DOMAIN tasks[w], tasks[v][i] = a, tasks[w][j] = a
        PROVE  v = w /\ i = j
    <3>1. a \in Range(tasks[v]) /\ a \in Range(tasks[w])
      BY <2>2 DEF Range
    <3>2. v = w
      BY <3>1 DEF Single, Queues
    <3>. QED
      BY <2>2, <3>2 DEF Single, Queues, IsInjective
  <2>3. \A x : x \in inQueue <=>
               \E w \in Workers : \E i \in DOMAIN tasks[w] : tasks[w][i] = a /\ x = <<"queue", w, i>>
    OBVIOUS
  <2>. HIDE DEF inQueue
  <2>4. inQueue # {} <=> Queued(a)
    <3>1. inQueue # {} <=> \E w \in Workers : \E i \in DOMAIN tasks[w] : tasks[w][i] = a
      BY <2>3
    <3>. QED
      BY <2>1, <3>1 DEF Queued
  <2>5. \A x, y \in inQueue : x = y
    BY <2>2, <2>3
  <2>. QED
    BY <2>4, <2>5
<1>2. (inHand # {} <=> InHand(a)) /\ \A x, y \in inHand : x = y
  <2>1. \A v, w \in Workers : hand[v] = a /\ hand[w] = a => v = w
    BY SchedulerAssumption DEF Single
  <2>. QED
    BY <2>1 DEF InHand
<1>3. (isReady # {} <=> Readied(a)) /\ \A x, y \in isReady : x = y
  <2>1. \A v, w \in Workers : a \in ready[v] /\ a \in ready[w] => v = w
    BY DEF Single
  <2>. QED
    BY <2>1 DEF Readied
<1>4. (late # {} <=> Delayed(a)) /\ \A x, y \in late : x = y
  <2>1. ~(a \in sleeping /\ a \in due)
    BY DEF Single, Alone
  <2>2. \A r \in {1, 2} : a \in <<sleeping, due>>[r] <=> (r = 1 /\ a \in sleeping) \/ (r = 2 /\ a \in due)
    OBVIOUS
  <2>3. \A x : x \in late <=> (a \in sleeping /\ x = <<"delayed", 1>>) \/ (a \in due /\ x = <<"delayed", 2>>)
    BY <2>2
  <2>. HIDE DEF late
  <2>4. late # {} <=> Delayed(a)
    BY <2>3 DEF Delayed
  <2>5. \A x, y \in late : x = y
    BY <2>1, <2>3
  <2>. QED
    BY <2>4, <2>5
<1>5. (after # {} <=> Awaiting(a)) /\ \A x, y \in after : x = y
  <2>1. \A c, d \in Addrs : Live(c) /\ cont[c] = a /\ Live(d) /\ cont[d] = a => c = d
    BY SchedulerAssumption DEF Objects
  <2>. QED
    BY <2>1 DEF Awaiting
<1>6. Homes(a) = inQueue \cup inHand \cup isReady \cup late \cup after
  BY DEF Homes
<1>7. Alone(a)
  BY DEF Single
<1>. HIDE DEF inQueue, inHand, isReady, late, after
<1>8. Homes(a) # {} <=> Waits(a)
  BY <1>1, <1>2, <1>3, <1>4, <1>5, <1>6 DEF Waits
<1>9. ASSUME NEW x \in Homes(a), NEW y \in Homes(a) PROVE x = y
  BY <1>1, <1>2, <1>3, <1>4, <1>5, <1>6, <1>7 DEF Alone
<1>. QED
  BY <1>8, <1>9

\* A coroutine that was started and is suspended has one place from which it will be
\* resumed, whatever schedule_impl refuses, the workers steal and the queues exchange; one
\* that runs or has run is in none, and one thread runs it.  Only run() loses handles.
THEOREM OneHomeCorrect == Spec => []OneHome
<1>1. ASSUME HomeInv PROVE OneHome
  <2>. SUFFICES ASSUME ~crashed, NEW a \in Addrs
                PROVE  LET runners == {w \in Workers : hand[w] = a /\ at[w] \in {"body", "final"}}
                       IN  /\ Cardinality(Homes(a)) + Cardinality(runners) <= 1
                           /\ Homes(a) # {} => frame[a] = "suspended"
                           /\ frame[a] \in {"running", "final"} <=> runners # {}
                           /\ a \in refs /\ frame[a] = "suspended" => Homes(a) # {} \/ a \in dropped
    BY DEF OneHome
  <2>. DEFINE runners == {w \in Workers : hand[w] = a /\ at[w] \in {"body", "final"}}
  <2>1. Types /\ Single /\ Sound
    BY <1>1 DEF HomeInv
  <2>2. (Homes(a) # {} <=> Waits(a)) /\ Cardinality(Homes(a)) \in {0, 1}
        /\ (Homes(a) = {} => Cardinality(Homes(a)) = 0)
    BY <2>1, HomesAreWaits, AtMostOne DEF Sound
  <2>3. Cardinality(runners) \in {0, 1} /\ (runners = {} => Cardinality(runners) = 0)
    <3>1. \A v, w \in runners : v = w
      BY <2>1, SchedulerAssumption DEF Single
    <3>. HIDE DEF runners
    <3>. QED
      BY <3>1, AtMostOne
  <2>4. frame[a] \in {"running", "final"} <=> runners # {}
    BY <2>1 DEF Sound, Frames
  <2>5. Waits(a) => frame[a] = "suspended"
    BY <2>1 DEF Sound, Frames
  <2>6. a \in refs /\ frame[a] = "suspended" => Waits(a) \/ a \in dropped
    BY <2>1 DEF Sound, Frames
  <2>. HIDE DEF runners
  <2>7. Cardinality(Homes(a)) + Cardinality(runners) <= 1
    <3>1. Homes(a) = {} \/ runners = {}
      BY <2>2, <2>4, <2>5
    <3>. QED
      BY <2>2, <2>3, <3>1
  <2>. QED
    BY <2>2, <2>4, <2>5, <2>6, <2>7 DEF runners
<1>. QED
  BY <1>1, HomeInvariant, PTL
\* Nobody awaits itself, directly or through others: every chain of awaits has an end.
Ranked ==
  \E rank \in [Addrs -> Nat] :
    \A c \in Addrs : Live(c) /\ cont[c] # None => rank[c] < rank[cont[c]]

LEMMA Lowest ==
  ASSUME NEW D, NEW S \in SUBSET D, S # {}, NEW rank \in [D -> Nat]
  PROVE  \E a \in S : \A b \in S : ~(rank[b] < rank[a])
<1>. DEFINE T == {rank[a] : a \in S}
<1>1. T \subseteq Nat /\ T # {}
  OBVIOUS
<1>2. PICK x \in T : \A y \in T : ~(<<y, x>> \in OpToRel(<, Nat))
  BY <1>1, NatLessThanWellFounded, WFMin
<1>3. \A y \in T : ~(y < x)
  BY <1>1, <1>2 DEF OpToRel
<1>4. PICK a \in S : x = rank[a]
  OBVIOUS
<1>. QED
  BY <1>3, <1>4

\* No coroutine has a continuation that it had not before.
LEMMA RankKept ==
  ASSUME Ranked,
         \A c \in Addrs : Live(c)' /\ cont'[c] # None => Live(c) /\ cont'[c] = cont[c]
  PROVE  Ranked'
BY DEF Ranked

LEMMA RankStep == HomeInv /\ Ranked /\ [Next]_vars => Ranked'
<1>. SUFFICES ASSUME HomeInv, Ranked, [Next]_vars PROVE Ranked'
  OBVIOUS
<1>. USE DEF queueVars, delayVars, refVars, ctlVars, taskVars, objectVars, callerVars, bounds, workVars
<1>1. Types /\ Posts /\ Single /\ (~crashed => Sound)
  BY DEF HomeInv
<1>2. ASSUME UNCHANGED <<frame, cont>> PROVE Ranked'
  BY <1>2, RankKept DEF Live
<1>3. CASE UNCHANGED vars
  BY <1>2, <1>3 DEF vars, schedVars
<1>4. CASE Control \/ EnterRun \/ Time \/ RunSyncEnd
  BY <1>2, <1>4 DEF Control, Start, Stop, EnterRun, RunBegin, Time, Expire, RunSyncEnd
<1>5. CASE RunPass
  <2>1. \A c \in Addrs : Live(c)' => Live(c)
    BY <1>1, <1>5, FreeLive DEF RunPass, Pass
  <2>. QED
    BY <1>5, <2>1, RankKept DEF RunPass
<1>6. ASSUME NEW c \in Addrs, Make(c), frame' = [frame EXCEPT ![c] = "suspended"] PROVE Ranked'
  <2>1. cont'[c] = None /\ \A d \in Addrs : d # c => cont'[d] = cont[d] /\ frame'[d] = frame[d]
    BY <1>1, <1>6 DEF Make, Types
  <2>. QED
    BY <2>1, RankKept DEF Live
<1>7. ASSUME NEW c \in Addrs, Launch(c) \/ RunSync(c) PROVE Ranked'
  BY <1>6, <1>7 DEF Launch, RunSync
<1>8. ASSUME NEW w \in Workers, WorkerStep(w), UNCHANGED taskVars PROVE Ranked'
  <2>1. CASE Clean(w)
    <3>1. \A c \in Addrs : Live(c)' => Live(c)
      BY <1>1, <2>1, FreeLive DEF Clean
    <3>. QED
      BY <1>8, <3>1, RankKept
  <2>2. CASE Resume(w)
    <3>1. \A c \in Addrs : Live(c)' => Live(c)
      BY <1>1, <2>2 DEF Resume, Live, Types
    <3>. QED
      BY <1>8, <3>1, RankKept
  <2>3. CASE ~Clean(w) /\ ~Resume(w)
    <3>1. UNCHANGED <<frame, cont>>
      BY <1>8, <2>3 DEF WorkerStep, Exit, Tick, Take, NoTask, Sweep, Place, Steal
    <3>. QED
      BY <1>2, <3>1
  <2>. QED
    BY <2>1, <2>2, <2>3
<1>9. ASSUME NEW w \in Workers, Await(w), ~crashed PROVE Ranked'
  <2>. DEFINE a == hand[w]
              c == child[a]
  <2>1. a \in Addrs /\ c \in Addrs /\ a # c /\ ~Waits(a) /\ ~Waits(c)
    BY <1>1, <1>9, AwaitMoves DEF Sound
  <2>2. /\ frame' = [frame EXCEPT ![a] = "suspended"] /\ frame[a] = "running"
        /\ cont'[c] = a /\ \A d \in Addrs : d # c => cont'[d] = cont[d]
    BY <1>1, <1>9, <2>1 DEF Await, InBody, ContinueWith, Types, Sound, Frames
  <2>. HIDE DEF a, c
  <2>3. \A d \in Addrs : (Live(d)' <=> Live(d)) /\ (Live(d) => cont[d] # c)
    BY <1>1, <2>1, <2>2 DEF Live, Types, Waits, Awaiting
  <2>4. PICK rank \in [Addrs -> Nat] :
          \A d \in Addrs : Live(d) /\ cont[d] # None => rank[d] < rank[cont[d]]
    BY DEF Ranked
  <2>. DEFINE new == [d \in Addrs |-> IF d = c THEN 0 ELSE rank[d] + 1]
  <2>5. new \in [Addrs -> Nat]
    OBVIOUS
  <2>6. ASSUME NEW d \in Addrs, Live(d)', cont'[d] # None PROVE new[d] < new[cont'[d]]
    <3>1. CASE d = c
      BY <2>1, <2>2, <3>1
    <3>2. CASE d # c
      <4>1. Live(d) /\ cont'[d] = cont[d] /\ cont[d] \in Addrs /\ cont[d] # c
        BY <1>1, <2>2, <2>3, <2>6, <3>2 DEF Types
      <4>2. rank[d] \in Nat /\ rank[cont[d]] \in Nat /\ rank[d] < rank[cont[d]]
        BY <2>4, <2>6, <4>1
      <4>. QED
        BY <3>2, <4>1, <4>2
    <3>. QED
      BY <3>1, <3>2
  <2>. HIDE DEF new
  <2>. QED
    BY <2>5, <2>6 DEF Ranked
<1>10. ASSUME NEW w \in Workers, Body(w), ~crashed PROVE Ranked'
  <2>1. CASE Await(w)
    BY <1>9, <1>10, <2>1
  <2>2. CASE Drop(w)
    BY <1>2, <2>2 DEF Drop
  <2>3. CASE Sleep(w) \/ Yield(w) \/ Return(w)
    <3>1. at[w] = "body" /\ hand[w] \in Addrs /\ frame[hand[w]] = "running"
      BY <1>1, <1>10, <2>3, RunningWaitsNot DEF Sleep, Yield, Suspend, Return, InBody, Sound, Frames
    <3>2. UNCHANGED cont /\ \A c \in Addrs : Live(c)' => Live(c)
      BY <1>1, <2>3, <3>1 DEF Sleep, Yield, Suspend, Return, Live, Types
    <3>. QED
      BY <3>2, RankKept
  <2>4. ASSUME NEW c \in Addrs, Call(w, c) PROVE Ranked'
    BY <1>6, <2>4 DEF Call
  <2>5. ASSUME NEW c \in Addrs, Spawn(w, c) PROVE Ranked'
    BY <1>7, <2>5 DEF Spawn
  <2>. QED
    BY <1>10, <2>1, <2>2, <2>3, <2>4, <2>5 DEF Body
<1>11. ASSUME NEW w \in Workers, Final(w), ~crashed PROVE Ranked'
  <2>. DEFINE a == hand[w]
  <2>1. /\ a \in Addrs /\ ~Waits(a) /\ (cont[a] # None => cont[a] \in Addrs /\ Awaiting(cont[a]))
    BY <1>1, <1>11, FinalMoves DEF Sound
  <2>2. cont[a] # None => frame[cont[a]] = "suspended" /\ cont[a] # a
    BY <1>1, <1>11, <2>1 DEF Sound, Frames, Waits
  <2>3. /\ cont' = cont
        /\ \A d \in Addrs : d # a /\ d # cont[a] => frame'[d] = frame[d]
        /\ frame'[a] = "done"
    BY <1>1, <1>11, <2>1, <2>2 DEF Final, Types
  <2>. HIDE DEF a
  <2>4. \A d \in Addrs : Live(d)' => Live(d)
    BY <2>2, <2>3, SchedulerAssumption DEF Live
  <2>. QED
    BY <2>3, <2>4, RankKept
<1>. QED
  BY <1>3, <1>4, <1>5, <1>7, <1>8, <1>10, <1>11 DEF Next, Worker

\* When run() leaves its loop the queues are empty, nothing is in a hand and nothing sleeps:
\* a coroutine that is still suspended would await one that awaits another, and so on.
LEMMA LeaveRun ==
  ASSUME HomeInv, Ranked, Next, sync, ~sync', dropped = {}
  PROVE  /\ refs' = {}
         /\ \A a \in Addrs \ stale :
              frame'[a] = "free" \/ (frame'[a] = "suspended" /\ a \notin refs)
<1>. USE DEF queueVars, delayVars, refVars, ctlVars, taskVars, objectVars, callerVars, bounds, workVars
<1>1. Types /\ Posts /\ Single /\ Frames /\ Reclaimed
  BY DEF HomeInv, Next, Sound
<1>2. RunPass
  BY DEF Next, Control, Start, Stop, EnterRun, RunBegin, RunSyncEnd, Time, Expire, Launch, RunSync,
         Worker, WorkerStep, Exit, Tick, Take, NoTask, Sweep, Clean, Resume, Place, Steal, Body, Await,
         Drop, Sleep, Yield, Suspend, Return, Call, Spawn, Final
<1>3. PICK s \in SetToSeqs(due) : tasks[0] = << >> /\ PassOver(s) /\ at[0] = "pass"
  BY <1>2 DEF RunPass, Pass
<1>4. due = {} /\ sleeping = {}
  <2>1. Range(s) = due /\ s = << >>
    BY <1>1, <1>3, FS_Subset, Ordered, SchedulerAssumption DEF Types, PassOver
  <2>. QED
    BY <1>3, <2>1 DEF Range, PassOver
<1>5. refs' = refs \ cleanup
  BY <1>2 DEF RunPass, Pass, Free
<1>6. \A w \in Workers : at[w] \in {"pass", "off"} /\ tasks[w] = << >> /\ ready[w] = {} /\ swept[w] = {}
  BY <1>1, <1>3 DEF Posts, Post
<1>7. \A a : Waits(a) <=> Awaiting(a)
  <2>1. Range(<< >>) = {}
    BY DEF Range
  <2>. QED
    BY <1>4, <1>6, <2>1 DEF Waits, Queued, InHand, Readied, Delayed
<1>8. \A a \in Addrs : frame[a] # "running" /\ frame[a] # "final"
  BY <1>1, <1>6 DEF Frames
<1>9. \A a \in Addrs : ~Awaiting(a)
  <2>. DEFINE S == {a \in Addrs : Awaiting(a)}
  <2>1. SUFFICES ASSUME S # {} PROVE FALSE
    OBVIOUS
  <2>2. PICK rank \in [Addrs -> Nat] :
          \A c \in Addrs : Live(c) /\ cont[c] # None => rank[c] < rank[cont[c]]
    BY DEF Ranked
  <2>3. PICK a \in S : \A b \in S : ~(rank[b] < rank[a])
    <3>1. S \in SUBSET Addrs
      OBVIOUS
    <3>. HIDE DEF S
    <3>. QED
      BY <2>1, <3>1, Lowest
  <2>4. PICK c \in Addrs : Live(c) /\ cont[c] = a
    BY DEF Awaiting
  <2>5. frame[c] = "suspended" /\ cont[c] # None /\ rank[c] < rank[a]
    BY <1>8, <2>2, <2>4, SchedulerAssumption DEF Live
  <2>6. c \in S
    BY <1>1, <1>7, <2>5 DEF Frames
  <2>. QED
    BY <2>3, <2>5, <2>6
<1>10. ASSUME NEW a \in refs PROVE a \in cleanup
  <2>1. a \in Addrs
    BY <1>1 DEF Types
  <2>2. frame[a] # "suspended"
    BY <1>1, <1>7, <1>9, <2>1 DEF Frames
  <2>3. frame[a] = "done"
    BY <1>1, <1>8, <2>1, <2>2 DEF Frames, Types
  <2>. QED
    BY <1>1, <1>6, <2>1, <2>3 DEF Frames, Swept
<1>11. ASSUME NEW a \in Addrs \ stale
       PROVE  frame'[a] = "free" \/ (frame'[a] = "suspended" /\ a \notin refs)
  <2>1. frame'[a] = IF a \in cleanup \cap refs /\ Finished(a) THEN "free" ELSE frame[a]
    BY <1>2 DEF RunPass, Pass, Free
  <2>2. CASE frame[a] = "done"
    <3>1. a \in refs
      BY <1>1, <2>2 DEF Reclaimed
    <3>. QED
      BY <1>10, <2>1, <2>2, <3>1 DEF Finished
  <2>3. CASE frame[a] = "suspended"
    <3>1. a \notin refs
      BY <1>1, <1>7, <1>9, <2>3 DEF Frames
    <3>. QED
      BY <2>1, <2>3, <3>1
  <2>4. CASE frame[a] = "free"
    BY <2>1, <2>4
  <2>. QED
    BY <1>1, <1>8, <2>2, <2>3, <2>4 DEF Types
<1>. QED
  BY <1>5, <1>10, <1>11

\* run() "runs the scheduler in synchronous mode until all tasks are complete": when it
\* returns, every coroutine ever scheduled has ended, unless the resize of the queues at
\* its beginning lost one, and every frame is destroyed but those of coroutines never
\* started and those at an address that had a second cleanup entry under way.
THEOREM DrainsCorrect == Spec => RunDrains
<1>1. Init => HomeInv /\ Ranked
  <2>1. ASSUME Init PROVE Ranked
    <3>1. \A c \in Addrs : ~Live(c)
      BY <2>1 DEF Init, SchedInit, Live
    <3>2. [a \in Addrs |-> 0] \in [Addrs -> Nat]
      OBVIOUS
    <3>. QED
      BY <3>1, <3>2 DEF Ranked
  <2>. QED
    BY <2>1, HomeInit
<1>2. HomeInv /\ Ranked /\ [Next]_vars => (HomeInv /\ Ranked)'
  BY HomeStep, RankStep
<1>3. HomeInv /\ Ranked /\ [Next]_vars =>
        [sync /\ ~sync' /\ dropped = {} =>
           /\ refs' = {}
           /\ \A a \in Addrs \ stale :
                frame'[a] = "free" \/ (frame'[a] = "suspended" /\ a \notin refs)]_vars
  BY LeaveRun
<1>. QED
  BY <1>1, <1>2, <1>3, PTL DEF Spec, RunDrains

=============================================================================
