--------------------------- MODULE CoroutinesProofs ---------------------------
(***************************************************************************)
(* Theorems about Coroutines for every set of calls, every size of the     *)
(* pool and every bound on sleeps and inner Tasks.                         *)
(*                                                                         *)
(* The invariant has three parts.  Frames and OneResumer belong together   *)
(* with the types: that a Task which returns has a frame to return from    *)
(* depends on nobody having resumed the coroutine a second time.           *)
(* SyncWaitInv is about the locals of sync_wait and rests on the others.   *)
(***************************************************************************)
EXTENDS Coroutines, TLAPS

\* What is inside a Task has a frame, and a frame costs an await of an outer Task,
\* except the first of a call.
Frames ==
  \A c \in Calls : /\ at[c] \in {"body", "sleeping"} => depth[c] > 0
                   /\ depth[c] <= awaited + 1

\* A job the pool has thrown away is not in its queue.
Apart == pending \cap discarded = {}

\* The coroutine of a sync_wait does not begin before the call.
Begun == \A c \in Waits : waiter[c] = "idle" => at[c] = "idle"

ResumeInv == TypeOK /\ Frames /\ Apart /\ Begun /\ OneResumer

\* The coroutine of a sync_wait is past its Task.
AtEnd(c) == at[c] \in {"locking", "flagging", "notifying", "unlocking", "ended"}

\* The handshake of sync_wait: who holds the mutex, what the flag means, and that the
\* result is stored before the flag is set.
SyncWaitInv ==
  /\ \A c \in Calls : at[c] \in {"locking", "flagging", "notifying", "unlocking"} => c \in Waits
  /\ \A c \in Waits :
       /\ (waiter[c] = "idle") <=> (at[c] = "idle")
       /\ (mtx[c] = "waiter") <=> (waiter[c] \in {"spawned", "joining"})
       /\ (mtx[c] = "root") <=> (at[c] \in {"flagging", "notifying", "unlocking"})
       /\ flag[c] <=> (at[c] \in {"notifying", "unlocking", "ended"})
       /\ waiter[c] \in {"joining", "returned"} => at[c] = "ended"
       /\ AtEnd(c) => outcome[c] = Stored(c)
       /\ waiter[c] = "returned" => got[c] = outcome[c]

-----------------------------------------------------------------------------
(* Types and frames. *)

LEMMA ResumeInit == Init => ResumeInv
<1>. SUFFICES ASSUME Init PROVE ResumeInv
  OBVIOUS
<1>. USE CoroutinesAssumption DEF Init, Pool!Init
<1>1. 0 \in 0 .. MaxAwaits + 1 /\ 0 \in 0 .. MaxSleeps /\ 0 \in 0 .. MaxAwaits
  OBVIOUS
<1>2. Pool!Known = {} /\ open \in BOOLEAN /\ timers \subseteq Resumptions
  BY DEF Pool!Known
<1>3. TypeOK
  BY <1>1, <1>2 DEF TypeOK
<1>4. Frames /\ Apart /\ Begun
  BY DEF Frames, Apart, Begun, Calls
<1>5. OneResumer
  BY DEF OneResumer, Resumers
<1>. QED
  BY <1>3, <1>4, <1>5 DEF ResumeInv

\* A worker that resumes a coroutine finds it suspended.
LEMMA ResumesSleeper ==
  ASSUME OneResumer, NEW c \in Calls, Resume(c)
  PROVE  at[c] = "sleeping"
<1>1. PICK k \in 1 .. MaxSleeps : <<c, k>> \in pending
  BY DEF Resume, Pool!Start
<1>2. k \in Resumers(c) /\ k # 0
  BY <1>1, CoroutinesAssumption DEF Resumers
<1>. QED
  BY <1>2 DEF OneResumer

LEMMA TypeStep == TypeOK /\ Frames /\ [Next]_vars => TypeOK'
<1>. SUFFICES ASSUME TypeOK, Frames, [Next]_vars PROVE TypeOK'
  OBVIOUS
<1>. USE CoroutinesAssumption DEF TypeOK, Frames, Calls, Resumptions, Pool!Known
<1>1. CASE UNCHANGED vars
  BY <1>1 DEF vars, frameVars, poolVars, waitVars
<1>2. ASSUME NEW c \in Calls, Call(c) PROVE TypeOK'
  BY <1>2 DEF Call, Pool!Submit, frameVars, poolVars, waitVars
<1>3. ASSUME NEW c \in Calls, RunJob(c) PROVE TypeOK'
  BY <1>3 DEF RunJob, Pool!Start, EnterBody, frameVars, poolVars, waitVars
<1>4. ASSUME NEW c \in Calls, CoFuture(c) PROVE TypeOK'
  BY <1>4 DEF CoFuture, EnterBody, frameVars, poolVars, waitVars
<1>5. ASSUME NEW c \in Calls, SyncWait(c) PROVE TypeOK'
  BY <1>5 DEF SyncWait, frameVars, poolVars, waitVars
<1>6. ASSUME NEW c \in Calls, RunThread(c) PROVE TypeOK'
  BY <1>6 DEF RunThread, EnterBody, frameVars, poolVars, waitVars
<1>7. ASSUME NEW c \in Calls, Sleep(c) PROVE TypeOK'
  BY <1>7 DEF Sleep, frameVars, poolVars, waitVars
<1>8. ASSUME NEW c \in Calls, Await(c) PROVE TypeOK'
  BY <1>8 DEF Await, frameVars, poolVars, waitVars
<1>9. ASSUME NEW c \in Calls, Return(c) PROVE TypeOK'
  BY <1>9 DEF Return, Continue, frameVars, poolVars, waitVars
<1>10. ASSUME NEW c \in Calls, Throw(c) PROVE TypeOK'
  BY <1>10 DEF Throw, Continue, frameVars, poolVars, waitVars
<1>11. ASSUME NEW c \in Calls, Resume(c) PROVE TypeOK'
  BY <1>11 DEF Resume, Pool!Start, frameVars, poolVars, waitVars
<1>12. ASSUME NEW c \in Calls, EndRun(c) PROVE TypeOK'
  BY <1>12 DEF EndRun, frameVars, poolVars, waitVars
<1>13. ASSUME NEW c \in Calls, EndFuture(c) PROVE TypeOK'
  BY <1>13 DEF EndFuture, Stored, frameVars, poolVars, waitVars
<1>14. ASSUME NEW c \in Calls, StoreResult(c) PROVE TypeOK'
  BY <1>14 DEF StoreResult, Stored, frameVars, poolVars, waitVars
<1>15. ASSUME NEW c \in Calls, RootLock(c) PROVE TypeOK'
  BY <1>15 DEF RootLock, frameVars, poolVars, waitVars
<1>16. ASSUME NEW c \in Calls, RootFlag(c) PROVE TypeOK'
  BY <1>16 DEF RootFlag, frameVars, poolVars, waitVars
<1>17. ASSUME NEW c \in Calls, RootNotify(c) PROVE TypeOK'
  BY <1>17 DEF RootNotify, Wake, frameVars, poolVars, waitVars
<1>18. ASSUME NEW c \in Calls, RootUnlock(c) PROVE TypeOK'
  BY <1>18 DEF RootUnlock, frameVars, poolVars, waitVars
<1>19. ASSUME NEW c \in Calls, WaitFlag(c) PROVE TypeOK'
  BY <1>19 DEF WaitFlag, frameVars, poolVars, waitVars
<1>20. ASSUME NEW c \in Calls, SpuriousWake(c) PROVE TypeOK'
  BY <1>20 DEF SpuriousWake, Wake, frameVars, poolVars, waitVars
<1>21. ASSUME NEW c \in Calls, Recheck(c) PROVE TypeOK'
  BY <1>21 DEF Recheck, frameVars, poolVars, waitVars
<1>22. ASSUME NEW c \in Calls, Join(c) PROVE TypeOK'
  BY <1>22 DEF Join, frameVars, poolVars, waitVars
<1>23. ASSUME NEW c \in Calls, NEW k \in 0 .. MaxSleeps, FinishJob(c, k) PROVE TypeOK'
  BY <1>23 DEF FinishJob, Pool!Finish, frameVars, poolVars, waitVars
<1>24. ASSUME NEW t \in timers, Fire(t) PROVE TypeOK'
  BY <1>24 DEF Fire, Pool!Submit, frameVars, poolVars, waitVars
<1>25. CASE PoolDown
  BY <1>25 DEF PoolDown, Pool!Close, Pool!Discard, frameVars, poolVars, waitVars
<1>. QED
  BY <1>1, <1>2, <1>3, <1>4, <1>5, <1>6, <1>7, <1>8, <1>9, <1>10, <1>11, <1>12, <1>13, <1>14, <1>15, <1>16, <1>17, <1>18, <1>19, <1>20, <1>21, <1>22, <1>23, <1>24, <1>25 DEF Next

LEMMA FramesStep == TypeOK /\ Frames /\ OneResumer /\ [Next]_vars => Frames'
<1>. SUFFICES ASSUME TypeOK, Frames, OneResumer, [Next]_vars PROVE Frames'
  OBVIOUS
<1>. USE CoroutinesAssumption DEF TypeOK, Frames
<1>1. CASE UNCHANGED vars
  BY <1>1 DEF vars, frameVars, poolVars, waitVars
<1>2. ASSUME NEW c \in Calls, Call(c) PROVE Frames'
  BY <1>2 DEF Call, Pool!Submit, frameVars, poolVars, waitVars
<1>3. ASSUME NEW c \in Calls, RunJob(c) PROVE Frames'
  BY <1>3 DEF RunJob, Pool!Start, EnterBody, frameVars, poolVars, waitVars
<1>4. ASSUME NEW c \in Calls, CoFuture(c) PROVE Frames'
  BY <1>4 DEF CoFuture, EnterBody, frameVars, poolVars, waitVars
<1>5. ASSUME NEW c \in Calls, SyncWait(c) PROVE Frames'
  BY <1>5 DEF SyncWait, frameVars, poolVars, waitVars
<1>6. ASSUME NEW c \in Calls, RunThread(c) PROVE Frames'
  BY <1>6 DEF RunThread, EnterBody, frameVars, poolVars, waitVars
<1>7. ASSUME NEW c \in Calls, Sleep(c) PROVE Frames'
  BY <1>7 DEF Sleep, frameVars, poolVars, waitVars
<1>8. ASSUME NEW c \in Calls, Await(c) PROVE Frames'
  BY <1>8 DEF Await, frameVars, poolVars, waitVars
<1>9. ASSUME NEW c \in Calls, Return(c) PROVE Frames'
  BY <1>9 DEF Return, Continue, frameVars, poolVars, waitVars
<1>10. ASSUME NEW c \in Calls, Throw(c) PROVE Frames'
  BY <1>10 DEF Throw, Continue, frameVars, poolVars, waitVars
<1>11. ASSUME NEW c \in Calls, Resume(c) PROVE Frames'
  BY <1>11, ResumesSleeper DEF Resume, waitVars
<1>12. ASSUME NEW c \in Calls, EndRun(c) PROVE Frames'
  BY <1>12 DEF EndRun, frameVars, poolVars, waitVars
<1>13. ASSUME NEW c \in Calls, EndFuture(c) PROVE Frames'
  BY <1>13 DEF EndFuture, Stored, frameVars, poolVars, waitVars
<1>14. ASSUME NEW c \in Calls, StoreResult(c) PROVE Frames'
  BY <1>14 DEF StoreResult, Stored, frameVars, poolVars, waitVars
<1>15. ASSUME NEW c \in Calls, RootLock(c) PROVE Frames'
  BY <1>15 DEF RootLock, frameVars, poolVars, waitVars
<1>16. ASSUME NEW c \in Calls, RootFlag(c) PROVE Frames'
  BY <1>16 DEF RootFlag, frameVars, poolVars, waitVars
<1>17. ASSUME NEW c \in Calls, RootNotify(c) PROVE Frames'
  BY <1>17 DEF RootNotify, Wake, frameVars, poolVars, waitVars
<1>18. ASSUME NEW c \in Calls, RootUnlock(c) PROVE Frames'
  BY <1>18 DEF RootUnlock, frameVars, poolVars, waitVars
<1>19. ASSUME NEW c \in Calls, WaitFlag(c) PROVE Frames'
  BY <1>19 DEF WaitFlag, frameVars, poolVars, waitVars
<1>20. ASSUME NEW c \in Calls, SpuriousWake(c) PROVE Frames'
  BY <1>20 DEF SpuriousWake, Wake, frameVars, poolVars, waitVars
<1>21. ASSUME NEW c \in Calls, Recheck(c) PROVE Frames'
  BY <1>21 DEF Recheck, frameVars, poolVars, waitVars
<1>22. ASSUME NEW c \in Calls, Join(c) PROVE Frames'
  BY <1>22 DEF Join, frameVars, poolVars, waitVars
<1>23. ASSUME NEW c \in Calls, NEW k \in 0 .. MaxSleeps, FinishJob(c, k) PROVE Frames'
  BY <1>23 DEF FinishJob, Pool!Finish, frameVars, poolVars, waitVars
<1>24. ASSUME NEW t \in timers, Fire(t) PROVE Frames'
  BY <1>24 DEF Fire, Pool!Submit, frameVars, poolVars, waitVars
<1>25. CASE PoolDown
  BY <1>25 DEF PoolDown, Pool!Close, Pool!Discard, frameVars, poolVars, waitVars
<1>. QED
  BY <1>1, <1>2, <1>3, <1>4, <1>5, <1>6, <1>7, <1>8, <1>9, <1>10, <1>11, <1>12, <1>13, <1>14, <1>15, <1>16, <1>17, <1>18, <1>19, <1>20, <1>21, <1>22, <1>23, <1>24, <1>25 DEF Next

LEMMA ApartStep == Apart /\ [Next]_vars => Apart'
<1>. SUFFICES ASSUME Apart, [Next]_vars PROVE Apart'
  OBVIOUS
<1>. USE DEF Apart, Pool!Known
<1>1. CASE UNCHANGED vars
  BY <1>1 DEF vars, frameVars, poolVars, waitVars
<1>2. ASSUME NEW c \in Calls, Call(c) PROVE Apart'
  BY <1>2 DEF Call, Pool!Submit, frameVars, poolVars, waitVars
<1>3. ASSUME NEW c \in Calls, RunJob(c) PROVE Apart'
  BY <1>3 DEF RunJob, Pool!Start, EnterBody, frameVars, poolVars, waitVars
<1>4. ASSUME NEW c \in Calls, CoFuture(c) PROVE Apart'
  BY <1>4 DEF CoFuture, EnterBody, frameVars, poolVars, waitVars
<1>5. ASSUME NEW c \in Calls, SyncWait(c) PROVE Apart'
  BY <1>5 DEF SyncWait, frameVars, poolVars, waitVars
<1>6. ASSUME NEW c \in Calls, RunThread(c) PROVE Apart'
  BY <1>6 DEF RunThread, EnterBody, frameVars, poolVars, waitVars
<1>7. ASSUME NEW c \in Calls, Sleep(c) PROVE Apart'
  BY <1>7 DEF Sleep, frameVars, poolVars, waitVars
<1>8. ASSUME NEW c \in Calls, Await(c) PROVE Apart'
  BY <1>8 DEF Await, frameVars, poolVars, waitVars
<1>9. ASSUME NEW c \in Calls, Return(c) PROVE Apart'
  BY <1>9 DEF Return, Continue, frameVars, poolVars, waitVars
<1>10. ASSUME NEW c \in Calls, Throw(c) PROVE Apart'
  BY <1>10 DEF Throw, Continue, frameVars, poolVars, waitVars
<1>11. ASSUME NEW c \in Calls, Resume(c) PROVE Apart'
  BY <1>11 DEF Resume, Pool!Start, frameVars, poolVars, waitVars
<1>12. ASSUME NEW c \in Calls, EndRun(c) PROVE Apart'
  BY <1>12 DEF EndRun, frameVars, poolVars, waitVars
<1>13. ASSUME NEW c \in Calls, EndFuture(c) PROVE Apart'
  BY <1>13 DEF EndFuture, Stored, frameVars, poolVars, waitVars
<1>14. ASSUME NEW c \in Calls, StoreResult(c) PROVE Apart'
  BY <1>14 DEF StoreResult, Stored, frameVars, poolVars, waitVars
<1>15. ASSUME NEW c \in Calls, RootLock(c) PROVE Apart'
  BY <1>15 DEF RootLock, frameVars, poolVars, waitVars
<1>16. ASSUME NEW c \in Calls, RootFlag(c) PROVE Apart'
  BY <1>16 DEF RootFlag, frameVars, poolVars, waitVars
<1>17. ASSUME NEW c \in Calls, RootNotify(c) PROVE Apart'
  BY <1>17 DEF RootNotify, Wake, frameVars, poolVars, waitVars
<1>18. ASSUME NEW c \in Calls, RootUnlock(c) PROVE Apart'
  BY <1>18 DEF RootUnlock, frameVars, poolVars, waitVars
<1>19. ASSUME NEW c \in Calls, WaitFlag(c) PROVE Apart'
  BY <1>19 DEF WaitFlag, frameVars, poolVars, waitVars
<1>20. ASSUME NEW c \in Calls, SpuriousWake(c) PROVE Apart'
  BY <1>20 DEF SpuriousWake, Wake, frameVars, poolVars, waitVars
<1>21. ASSUME NEW c \in Calls, Recheck(c) PROVE Apart'
  BY <1>21 DEF Recheck, frameVars, poolVars, waitVars
<1>22. ASSUME NEW c \in Calls, Join(c) PROVE Apart'
  BY <1>22 DEF Join, frameVars, poolVars, waitVars
<1>23. ASSUME NEW c \in Calls, NEW k \in 0 .. MaxSleeps, FinishJob(c, k) PROVE Apart'
  BY <1>23 DEF FinishJob, Pool!Finish, frameVars, poolVars, waitVars
<1>24. ASSUME NEW t \in timers, Fire(t) PROVE Apart'
  BY <1>24 DEF Fire, Pool!Submit, frameVars, poolVars, waitVars
<1>25. CASE PoolDown
  BY <1>25 DEF PoolDown, Pool!Close, Pool!Discard, frameVars, poolVars, waitVars
<1>. QED
  BY <1>1, <1>2, <1>3, <1>4, <1>5, <1>6, <1>7, <1>8, <1>9, <1>10, <1>11, <1>12, <1>13, <1>14, <1>15, <1>16, <1>17, <1>18, <1>19, <1>20, <1>21, <1>22, <1>23, <1>24, <1>25 DEF Next

LEMMA BegunStep == TypeOK /\ Begun /\ OneResumer /\ [Next]_vars => Begun'
<1>. SUFFICES ASSUME TypeOK, Begun, OneResumer, [Next]_vars PROVE Begun'
  OBVIOUS
<1>. USE CoroutinesAssumption DEF TypeOK, Begun, Calls
<1>1. CASE UNCHANGED vars
  BY <1>1 DEF vars, frameVars, poolVars, waitVars
<1>2. ASSUME NEW c \in Calls, Call(c) PROVE Begun'
  BY <1>2 DEF Call, Pool!Submit, frameVars, poolVars, waitVars
<1>3. ASSUME NEW c \in Calls, RunJob(c) PROVE Begun'
  BY <1>3 DEF RunJob, Pool!Start, EnterBody, frameVars, poolVars, waitVars
<1>4. ASSUME NEW c \in Calls, CoFuture(c) PROVE Begun'
  BY <1>4 DEF CoFuture, EnterBody, frameVars, poolVars, waitVars
<1>5. ASSUME NEW c \in Calls, SyncWait(c) PROVE Begun'
  BY <1>5 DEF SyncWait, frameVars, poolVars, waitVars
<1>6. ASSUME NEW c \in Calls, RunThread(c) PROVE Begun'
  BY <1>6 DEF RunThread, EnterBody, frameVars, poolVars, waitVars
<1>7. ASSUME NEW c \in Calls, Sleep(c) PROVE Begun'
  BY <1>7 DEF Sleep, frameVars, poolVars, waitVars
<1>8. ASSUME NEW c \in Calls, Await(c) PROVE Begun'
  BY <1>8 DEF Await, frameVars, poolVars, waitVars
<1>9. ASSUME NEW c \in Calls, Return(c) PROVE Begun'
  BY <1>9 DEF Return, Continue, frameVars, poolVars, waitVars
<1>10. ASSUME NEW c \in Calls, Throw(c) PROVE Begun'
  BY <1>10 DEF Throw, Continue, frameVars, poolVars, waitVars
<1>11. ASSUME NEW c \in Calls, Resume(c) PROVE Begun'
  BY <1>11, ResumesSleeper DEF Resume, waitVars
<1>12. ASSUME NEW c \in Calls, EndRun(c) PROVE Begun'
  BY <1>12 DEF EndRun, frameVars, poolVars, waitVars
<1>13. ASSUME NEW c \in Calls, EndFuture(c) PROVE Begun'
  BY <1>13 DEF EndFuture, Stored, frameVars, poolVars, waitVars
<1>14. ASSUME NEW c \in Calls, StoreResult(c) PROVE Begun'
  BY <1>14 DEF StoreResult, Stored, frameVars, poolVars, waitVars
<1>15. ASSUME NEW c \in Calls, RootLock(c) PROVE Begun'
  BY <1>15 DEF RootLock, frameVars, poolVars, waitVars
<1>16. ASSUME NEW c \in Calls, RootFlag(c) PROVE Begun'
  BY <1>16 DEF RootFlag, frameVars, poolVars, waitVars
<1>17. ASSUME NEW c \in Calls, RootNotify(c) PROVE Begun'
  BY <1>17 DEF RootNotify, Wake, frameVars, poolVars, waitVars
<1>18. ASSUME NEW c \in Calls, RootUnlock(c) PROVE Begun'
  BY <1>18 DEF RootUnlock, frameVars, poolVars, waitVars
<1>19. ASSUME NEW c \in Calls, WaitFlag(c) PROVE Begun'
  BY <1>19 DEF WaitFlag, frameVars, poolVars, waitVars
<1>20. ASSUME NEW c \in Calls, SpuriousWake(c) PROVE Begun'
  BY <1>20 DEF SpuriousWake, Wake, frameVars, poolVars, waitVars
<1>21. ASSUME NEW c \in Calls, Recheck(c) PROVE Begun'
  BY <1>21 DEF Recheck, frameVars, poolVars, waitVars
<1>22. ASSUME NEW c \in Calls, Join(c) PROVE Begun'
  BY <1>22 DEF Join, frameVars, poolVars, waitVars
<1>23. ASSUME NEW c \in Calls, NEW k \in 0 .. MaxSleeps, FinishJob(c, k) PROVE Begun'
  BY <1>23 DEF FinishJob, Pool!Finish, frameVars, poolVars, waitVars
<1>24. ASSUME NEW t \in timers, Fire(t) PROVE Begun'
  BY <1>24 DEF Fire, Pool!Submit, frameVars, poolVars, waitVars
<1>25. CASE PoolDown
  BY <1>25 DEF PoolDown, Pool!Close, Pool!Discard, frameVars, poolVars, waitVars
<1>. QED
  BY <1>1, <1>2, <1>3, <1>4, <1>5, <1>6, <1>7, <1>8, <1>9, <1>10, <1>11, <1>12, <1>13, <1>14, <1>15, <1>16, <1>17, <1>18, <1>19, <1>20, <1>21, <1>22, <1>23, <1>24, <1>25 DEF Next

LEMMA ResumerStep == TypeOK /\ Apart /\ Begun /\ OneResumer /\ [Next]_vars => OneResumer'
<1>. SUFFICES ASSUME TypeOK, Apart, Begun, OneResumer, [Next]_vars PROVE OneResumer'
  OBVIOUS
<1>. USE CoroutinesAssumption DEF TypeOK, Apart, OneResumer, Resumers, Pool!Known, Resumptions
<1>1. CASE UNCHANGED vars
  BY <1>1 DEF vars, frameVars, poolVars, waitVars
<1>2. ASSUME NEW c \in Calls, Call(c) PROVE OneResumer'
  BY <1>2 DEF Call, Pool!Submit, frameVars, poolVars, waitVars
<1>3. ASSUME NEW c \in Calls, RunJob(c) PROVE OneResumer'
  BY <1>3 DEF RunJob, Pool!Start, EnterBody, frameVars, poolVars, waitVars
<1>4. ASSUME NEW c \in Calls, CoFuture(c) PROVE OneResumer'
  BY <1>4 DEF CoFuture, EnterBody, frameVars, poolVars, waitVars
<1>5. ASSUME NEW c \in Calls, SyncWait(c) PROVE OneResumer'
  BY <1>5 DEF SyncWait, Begun, frameVars, poolVars, waitVars
<1>6. ASSUME NEW c \in Calls, RunThread(c) PROVE OneResumer'
  BY <1>6 DEF RunThread, EnterBody, frameVars, poolVars, waitVars
<1>7. ASSUME NEW c \in Calls, Sleep(c) PROVE OneResumer'
  BY <1>7 DEF Sleep, frameVars, poolVars, waitVars
<1>8. ASSUME NEW c \in Calls, Await(c) PROVE OneResumer'
  BY <1>8 DEF Await, frameVars, poolVars, waitVars
<1>9. ASSUME NEW c \in Calls, Return(c) PROVE OneResumer'
  BY <1>9 DEF Return, Continue, frameVars, poolVars, waitVars
<1>10. ASSUME NEW c \in Calls, Throw(c) PROVE OneResumer'
  BY <1>10 DEF Throw, Continue, frameVars, poolVars, waitVars
<1>11. ASSUME NEW c \in Calls, Resume(c) PROVE OneResumer'
  BY <1>11 DEF Resume, Pool!Start, frameVars, poolVars, waitVars
<1>12. ASSUME NEW c \in Calls, EndRun(c) PROVE OneResumer'
  BY <1>12 DEF EndRun, frameVars, poolVars, waitVars
<1>13. ASSUME NEW c \in Calls, EndFuture(c) PROVE OneResumer'
  BY <1>13 DEF EndFuture, Stored, frameVars, poolVars, waitVars
<1>14. ASSUME NEW c \in Calls, StoreResult(c) PROVE OneResumer'
  BY <1>14 DEF StoreResult, Stored, frameVars, poolVars, waitVars
<1>15. ASSUME NEW c \in Calls, RootLock(c) PROVE OneResumer'
  BY <1>15 DEF RootLock, frameVars, poolVars, waitVars
<1>16. ASSUME NEW c \in Calls, RootFlag(c) PROVE OneResumer'
  BY <1>16 DEF RootFlag, frameVars, poolVars, waitVars
<1>17. ASSUME NEW c \in Calls, RootNotify(c) PROVE OneResumer'
  BY <1>17 DEF RootNotify, Wake, frameVars, poolVars, waitVars
<1>18. ASSUME NEW c \in Calls, RootUnlock(c) PROVE OneResumer'
  BY <1>18 DEF RootUnlock, frameVars, poolVars, waitVars
<1>19. ASSUME NEW c \in Calls, WaitFlag(c) PROVE OneResumer'
  BY <1>19 DEF WaitFlag, frameVars, poolVars, waitVars
<1>20. ASSUME NEW c \in Calls, SpuriousWake(c) PROVE OneResumer'
  BY <1>20 DEF SpuriousWake, Wake, frameVars, poolVars, waitVars
<1>21. ASSUME NEW c \in Calls, Recheck(c) PROVE OneResumer'
  BY <1>21 DEF Recheck, frameVars, poolVars, waitVars
<1>22. ASSUME NEW c \in Calls, Join(c) PROVE OneResumer'
  BY <1>22 DEF Join, frameVars, poolVars, waitVars
<1>23. ASSUME NEW c \in Calls, NEW k \in 0 .. MaxSleeps, FinishJob(c, k) PROVE OneResumer'
  BY <1>23 DEF FinishJob, Pool!Finish, frameVars, poolVars, waitVars
<1>24. ASSUME NEW t \in timers, Fire(t) PROVE OneResumer'
  <2>1. /\ timers' = timers \ {t} /\ pending' = pending \cup {t}
        /\ UNCHANGED <<at, slept, discarded>>
    BY <1>24 DEF Fire, Pool!Submit, frameVars
  <2>2. timers' \cup pending' \cup discarded' = timers \cup pending \cup discarded
    BY <2>1
  <2>3. \A c \in Calls : Resumers(c)' = Resumers(c)
    BY <2>2
  <2>4. timers \cap pending = {}
    <3>1. PICK c \in Calls : TRUE
      OBVIOUS
    <3>. QED
      BY <3>1
  <2>5. timers' \cap pending' = {}
    BY <2>1, <2>4
  <2>. QED
    BY <2>1, <2>3, <2>5
<1>25. CASE PoolDown
  BY <1>25 DEF PoolDown, Pool!Close, Pool!Discard, frameVars, poolVars, waitVars
<1>. QED
  BY <1>1, <1>2, <1>3, <1>4, <1>5, <1>6, <1>7, <1>8, <1>9, <1>10, <1>11, <1>12, <1>13, <1>14, <1>15, <1>16, <1>17, <1>18, <1>19, <1>20, <1>21, <1>22, <1>23, <1>24, <1>25 DEF Next

LEMMA ResumeStep == ResumeInv /\ [Next]_vars => ResumeInv'
BY TypeStep, FramesStep, ApartStep, BegunStep, ResumerStep DEF ResumeInv

LEMMA ResumeInvariant == Spec => []ResumeInv
BY ResumeInit, ResumeStep, PTL DEF Spec

\* The frames of every call, the locals of sync_wait and the sets of the pool keep their
\* types; no Task returns without a frame to return from.
THEOREM TypeCorrect == Spec => []TypeOK
BY ResumeInvariant, PTL DEF ResumeInv

\* Exactly one handle can run a coroutine that is suspended or not begun, none one that
\* runs or has ended, whatever the order in which the timer thread, the workers and the
\* thread that suspends it move (coroutine.hpp:564-567).
THEOREM OneHandle == Spec => []OneResumer
BY ResumeInvariant, PTL DEF ResumeInv

-----------------------------------------------------------------------------
(* The handshake of sync_wait. *)

LEMMA SyncWaitInit == Init => SyncWaitInv
BY CoroutinesAssumption DEF Init, SyncWaitInv, AtEnd, Calls

LEMMA SyncWaitStep == ResumeInv /\ SyncWaitInv /\ [Next]_vars => SyncWaitInv'
<1>. SUFFICES ASSUME ResumeInv, SyncWaitInv, [Next]_vars PROVE SyncWaitInv'
  OBVIOUS
<1>0. TypeOK /\ OneResumer
  BY DEF ResumeInv
<1>. USE <1>0, CoroutinesAssumption DEF TypeOK, SyncWaitInv, AtEnd, Stored, Calls
<1>1. CASE UNCHANGED vars
  BY <1>1 DEF vars, frameVars, poolVars, waitVars
<1>2. ASSUME NEW c \in Calls, Call(c) PROVE SyncWaitInv'
  BY <1>2 DEF Call, frameVars, poolVars, waitVars
<1>3. ASSUME NEW c \in Calls, RunJob(c) PROVE SyncWaitInv'
  BY <1>3 DEF RunJob, EnterBody, frameVars, poolVars, waitVars
<1>4. ASSUME NEW c \in Calls, CoFuture(c) PROVE SyncWaitInv'
  BY <1>4 DEF CoFuture, EnterBody, frameVars, poolVars, waitVars
<1>5. ASSUME NEW c \in Calls, SyncWait(c) PROVE SyncWaitInv'
  BY <1>5 DEF SyncWait, frameVars, poolVars, waitVars
<1>6. ASSUME NEW c \in Calls, RunThread(c) PROVE SyncWaitInv'
  BY <1>6 DEF RunThread, EnterBody, frameVars, poolVars, waitVars
<1>7. ASSUME NEW c \in Calls, Sleep(c) PROVE SyncWaitInv'
  BY <1>7 DEF Sleep, frameVars, poolVars, waitVars
<1>8. ASSUME NEW c \in Calls, Await(c) PROVE SyncWaitInv'
  BY <1>8 DEF Await, frameVars, poolVars, waitVars
<1>9. ASSUME NEW c \in Calls, Return(c) PROVE SyncWaitInv'
  BY <1>9 DEF Return, Continue, frameVars, poolVars, waitVars
<1>10. ASSUME NEW c \in Calls, Throw(c) PROVE SyncWaitInv'
  BY <1>10 DEF Throw, Continue, frameVars, poolVars, waitVars
<1>11. ASSUME NEW c \in Calls, Resume(c) PROVE SyncWaitInv'
  BY <1>11, ResumesSleeper DEF Resume, frameVars, poolVars, waitVars
<1>12. ASSUME NEW c \in Calls, EndRun(c) PROVE SyncWaitInv'
  BY <1>12 DEF EndRun, frameVars, poolVars, waitVars
<1>13. ASSUME NEW c \in Calls, EndFuture(c) PROVE SyncWaitInv'
  BY <1>13 DEF EndFuture, frameVars, poolVars, waitVars
<1>14. ASSUME NEW c \in Calls, StoreResult(c) PROVE SyncWaitInv'
  BY <1>14 DEF StoreResult, Stored, frameVars, poolVars, waitVars
<1>15. ASSUME NEW c \in Calls, RootLock(c) PROVE SyncWaitInv'
  BY <1>15 DEF RootLock, frameVars, poolVars, waitVars
<1>16. ASSUME NEW c \in Calls, RootFlag(c) PROVE SyncWaitInv'
  BY <1>16 DEF RootFlag, frameVars, poolVars, waitVars
<1>17. ASSUME NEW c \in Calls, RootNotify(c) PROVE SyncWaitInv'
  BY <1>17 DEF RootNotify, Wake, frameVars, poolVars, waitVars
<1>18. ASSUME NEW c \in Calls, RootUnlock(c) PROVE SyncWaitInv'
  BY <1>18 DEF RootUnlock, frameVars, poolVars, waitVars
<1>19. ASSUME NEW c \in Calls, WaitFlag(c) PROVE SyncWaitInv'
  BY <1>19 DEF WaitFlag, frameVars, poolVars, waitVars
<1>20. ASSUME NEW c \in Calls, SpuriousWake(c) PROVE SyncWaitInv'
  BY <1>20 DEF SpuriousWake, Wake, frameVars, poolVars, waitVars
<1>21. ASSUME NEW c \in Calls, Recheck(c) PROVE SyncWaitInv'
  BY <1>21 DEF Recheck, frameVars, poolVars, waitVars
<1>22. ASSUME NEW c \in Calls, Join(c) PROVE SyncWaitInv'
  BY <1>22 DEF Join, frameVars, poolVars, waitVars
<1>23. ASSUME NEW c \in Calls, NEW k \in 0 .. MaxSleeps, FinishJob(c, k) PROVE SyncWaitInv'
  BY <1>23 DEF FinishJob, frameVars, poolVars, waitVars
<1>24. ASSUME NEW t \in timers, Fire(t) PROVE SyncWaitInv'
  BY <1>24 DEF Fire, frameVars, poolVars, waitVars
<1>25. CASE PoolDown
  BY <1>25 DEF PoolDown, frameVars, poolVars, waitVars
<1>. QED
  BY <1>1, <1>2, <1>3, <1>4, <1>5, <1>6, <1>7, <1>8, <1>9, <1>10, <1>11, <1>12, <1>13, <1>14, <1>15, <1>16, <1>17, <1>18, <1>19, <1>20, <1>21, <1>22, <1>23, <1>24, <1>25 DEF Next

\* sync_wait returns with the result of the Task, and not before the coroutine has used
\* its mutex, condition variable and flag for the last time (coroutine.hpp:446-450,
\* 486-500).
THEOREM SyncWaitCorrect == Spec => []SyncWaitSound
<1>1. SyncWaitInv => SyncWaitSound
  BY DEF SyncWaitInv, SyncWaitSound, AtEnd
<1>. QED
  BY <1>1, ResumeInvariant, SyncWaitInit, SyncWaitStep, PTL DEF Spec

=============================================================================
