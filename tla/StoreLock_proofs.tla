-------------------------- MODULE StoreLock_proofs --------------------------
(* Proofs about StoreLock: its invariant, and that it implements StoreMutex. *)
EXTENDS StoreLock, TLAPS

LockInv == LockTypeOK /\ NoAbandonedLock /\ Guarded

USE DEF MaybeThread, ThreadsOf

\* The locks start free.
LEMMA LockInitial == LockInit => LockInv
BY StoreLockAssumption
DEF LockInit, LockInv, LockTypeOK, NoAbandonedLock, Guarded, PCs, Holding

\* No step of _locked breaks the invariant.
LEMMA LockInductive == LockInv /\ [LockNext]_lockVars => LockInv'
<1> SUFFICES ASSUME LockInv, [LockNext]_lockVars PROVE LockInv'
  OBVIOUS
<1> USE StoreLockAssumption
<1> USE DEF LockInv, LockTypeOK, NoAbandonedLock, Guarded, PCs, Holding, Goto
<1>1. ASSUME NEW t \in Thread, Call(t) PROVE LockInv'
  BY <1>1 DEF Call
<1>2. ASSUME NEW t \in Thread, AcquireThreadLock(t) PROVE LockInv'
  BY <1>2 DEF AcquireThreadLock
<1>3. ASSUME NEW t \in Thread, ThreadLockTimeout(t) PROVE LockInv'
  BY <1>3 DEF ThreadLockTimeout
<1>4. ASSUME NEW t \in Thread, OpenLockFile(t) PROVE LockInv'
  BY <1>4 DEF OpenLockFile
<1>5. ASSUME NEW t \in Thread, OpenDegrades(t) PROVE LockInv'
  BY <1>5 DEF OpenDegrades
<1>6. ASSUME NEW t \in Thread, OpenRaises(t) PROVE LockInv'
  BY <1>6 DEF OpenRaises
<1>7. ASSUME NEW t \in Thread, Flock(t) PROVE LockInv'
  BY <1>7 DEF Flock
<1>8. ASSUME NEW t \in Thread, FlockTimeout(t) PROVE LockInv'
  BY <1>8 DEF FlockTimeout
<1>9. ASSUME NEW t \in Thread, FlockUnsupported(t) PROVE LockInv'
  BY <1>9 DEF FlockUnsupported
<1>10. ASSUME NEW t \in Thread, Leave(t) PROVE LockInv'
  BY <1>10 DEF Leave
<1>11. ASSUME NEW t \in Thread, Unlock(t) PROVE LockInv'
  BY <1>11 DEF Unlock
<1>12. ASSUME NEW t \in Thread, Release(t) PROVE LockInv'
  BY <1>12 DEF Release
<1>13. ASSUME NEW p \in Process, Crash(p) PROVE LockInv'
  BY <1>13 DEF Crash
<1>14. CASE UNCHANGED lockVars
  BY <1>14 DEF lockVars
<1> QED
  BY <1>1, <1>2, <1>3, <1>4, <1>5, <1>6, <1>7, <1>8, <1>9, <1>10, <1>11, <1>12,
     <1>13, <1>14 DEF LockNext, LockStep

\* A call past a lock holds it, and every held lock has a live holder.
THEOREM LockInvariant == LockSpec => []LockInv
<1>1. LockInit => LockInv
  BY LockInitial
<1>2. LockInv /\ [LockNext]_lockVars => LockInv'
  BY LockInductive
<1> QED
  BY <1>1, <1>2, PTL DEF LockSpec

\* Every variable of the lock keeps its type, for any number of processes.
THEOREM LockTypeCorrect == LockSpec => []LockTypeOK
<1>1. LockInv => LockTypeOK
  BY DEF LockInv
<1> QED
  BY <1>1, LockInvariant, PTL

\* No exit of _locked, by return, timeout, exception or crash, abandons a lock.
THEOREM LocksAreReleased == LockSpec => []NoAbandonedLock
<1>1. LockInv => NoAbandonedLock
  BY DEF LockInv
<1> QED
  BY <1>1, LockInvariant, PTL

\* The stage of the mutex that each point of _locked is in.
LEMMA StageOfThread ==
  ASSUME NEW t \in Thread, LockTypeOK
  PROVE  /\ StageOf[t] \in {"idle", "waiting", "body", "leaving"}
         /\ StageOf[t] = "idle" <=> pc[t] = "idle"
         /\ StageOf[t] = "waiting" <=> pc[t] \in {"thread", "open", "flock"}
         /\ StageOf[t] = "body" <=> pc[t] = "body"
         /\ StageOf[t] = "leaving" <=> pc[t] \in {"unlock", "release"}
BY DEF StageOf, LockTypeOK, PCs

\* The block is shared only across processes whose lock file failed one.
LEMMA GuardedExcludes == LockInv => MutualExclusion
<1> SUFFICES ASSUME LockInv,
                    NEW t \in Thread, NEW u \in Thread, t # u,
                    pc[t] = "body", pc[u] = "body"
             PROVE  Mutex!MayOverlap(t, u)
  BY StageOfThread DEF MutualExclusion, Mutex!MutualExclusion, LockInv
<1>1. threadLock[ProcessOf[t]] = t /\ threadLock[ProcessOf[u]] = u
  BY DEF LockInv, Guarded, Holding
<1>2. ProcessOf[t] # ProcessOf[u]
  BY <1>1
<1>3. ProcessOf[t] \in Unlockable \/ ProcessOf[u] \in Unlockable
  BY DEF LockInv, Guarded
<1> QED
  BY <1>2, <1>3 DEF Mutex!MayOverlap

\* Load-modify-save runs alone, save where a process could not lock the file.
THEOREM LockExcludes == LockSpec => []MutualExclusion
BY LockInvariant, GuardedExcludes, PTL

\* What a step does to the stage of its thread.
LEMMA StageMoves ==
  ASSUME LockTypeOK, NEW t \in Thread, NEW next \in PCs, Goto(t, next)
  PROVE  StageOf' = [StageOf EXCEPT ![t] =
             IF next \in {"thread", "open", "flock"} THEN "waiting"
             ELSE IF next \in {"unlock", "release"} THEN "leaving"
             ELSE next]
BY DEF StageOf, Goto, LockTypeOK

\* A call that gets into the block finds it free or may share it.
LEMMA EntersLawfully ==
  ASSUME LockInv, LockInv', NEW t \in Thread,
         pc[t] \in {"open", "flock"}, Goto(t, "body")
  PROVE  Mutex!Enter(t)
<1>1. LockInv' => MutualExclusion'
  BY GuardedExcludes, PTL
<1>2. StageOf' = [StageOf EXCEPT ![t] = "body"]
  BY StageMoves DEF LockInv, PCs
<1>3. StageOf[t] = "waiting"
  BY DEF StageOf
<1>4. ASSUME NEW u \in Thread \ {t}, StageOf[u] = "body"
      PROVE  Mutex!MayOverlap(t, u)
  <2>1. StageOf'[t] = "body" /\ StageOf'[u] = "body"
    BY <1>2, <1>4 DEF StageOf
  <2> QED
    BY <1>1, <1>4, <2>1 DEF MutualExclusion, Mutex!MutualExclusion, Mutex!MayOverlap
<1> QED
  BY <1>2, <1>3, <1>4 DEF Mutex!Enter, Mutex!Move

\* Every step of _locked is one step of the mutex, or none.
LEMMA LockStepRefines ==
  LockInv /\ LockInv' /\ [LockNext]_lockVars => [Mutex!MutexNext]_StageOf
<1> SUFFICES ASSUME LockInv, LockInv', [LockNext]_lockVars
             PROVE  [Mutex!MutexNext]_StageOf
  OBVIOUS
<1> USE DEF Mutex!MutexNext, Mutex!Move, LockInv, PCs
<1>1. ASSUME NEW t \in Thread, Call(t) PROVE Mutex!Ask(t)
  BY <1>1, StageMoves, StageOfThread DEF Call, Mutex!Ask
<1>2. ASSUME NEW t \in Thread, AcquireThreadLock(t) \/ OpenLockFile(t)
      PROVE  UNCHANGED StageOf
  BY <1>2 DEF AcquireThreadLock, OpenLockFile, StageOf, Goto, LockTypeOK
<1>3. ASSUME NEW t \in Thread, ThreadLockTimeout(t) \/ Release(t) PROVE Mutex!Return(t)
  BY <1>3, StageMoves, StageOfThread DEF ThreadLockTimeout, Release, Mutex!Return
<1>4. ASSUME NEW t \in Thread, OpenRaises(t) \/ FlockTimeout(t) PROVE Mutex!GiveUp(t)
  BY <1>4, StageMoves, StageOfThread DEF OpenRaises, FlockTimeout, Mutex!GiveUp
<1>5. ASSUME NEW t \in Thread, OpenDegrades(t) \/ Flock(t) \/ FlockUnsupported(t)
      PROVE  Mutex!Enter(t)
  BY <1>5, EntersLawfully DEF OpenDegrades, Flock, FlockUnsupported
<1>6. ASSUME NEW t \in Thread, Leave(t) PROVE Mutex!Leave(t)
  BY <1>6, StageMoves, StageOfThread DEF Leave, Mutex!Leave
<1>7. ASSUME NEW t \in Thread, Unlock(t) PROVE UNCHANGED StageOf
  BY <1>7 DEF Unlock, StageOf, Goto, LockTypeOK
<1>8. ASSUME NEW p \in Process, Crash(p) PROVE Mutex!Die(p)
  BY <1>8 DEF Crash, Mutex!Die, StageOf, ThreadsOf, Mutex!ThreadsOf
<1>9. CASE UNCHANGED lockVars
  BY <1>9 DEF lockVars, StageOf
<1> QED
  BY <1>1, <1>2, <1>3, <1>4, <1>5, <1>6, <1>7, <1>8, <1>9 DEF LockNext, LockStep

\* The two locks and the lock file are together one mutex.
THEOREM LockImplementsMutex == LockSpec => LockIsAMutex
<1>1. LockInit => Mutex!MutexInit
  BY DEF LockInit, Mutex!MutexInit, StageOf
<1>2. LockInv /\ LockInv' /\ [LockNext]_lockVars => [Mutex!MutexNext]_StageOf
  BY LockStepRefines
<1> QED
  BY <1>1, <1>2, LockInvariant, PTL DEF LockSpec, LockIsAMutex, Mutex!MutexSpec

=============================================================================
