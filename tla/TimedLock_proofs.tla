-------------------------- MODULE TimedLock_proofs --------------------------
(***************************************************************************)
(* Proofs about TimedLock: with its clock hidden it is StoreLock, so that  *)
(* everything proved of StoreLock holds of it, and a wait is bounded by    *)
(* one lock_timeout and one poll.                                          *)
(***************************************************************************)
EXTENDS TimedLock, StoreLock_proofs

\* A step with the clock is a step of StoreLock or none.
LEMMA TimedNextIsLockNext == [TimedNext]_timedVars => [LockNext]_lockVars
<1>1. ASSUME NEW t \in Thread, TimedStep(t)
      PROVE  [LockNext]_lockVars
  BY <1>1 DEF TimedStep, Proceed, TimeOut, PollAgain, LockNext, LockStep, lockVars
<1>2. ASSUME NEW p \in Process, TimedCrash(p)
      PROVE  [LockNext]_lockVars
  BY <1>2 DEF TimedCrash, LockNext
<1>3. Tick => [LockNext]_lockVars
  BY DEF Tick
<1>4. UNCHANGED timedVars => UNCHANGED lockVars
  BY DEF timedVars, lockVars
<1> QED
  BY <1>1, <1>2, <1>3, <1>4 DEF TimedNext

\* Adding the deadline and the sleeps changes nothing the untimed lock does:
\* _locked with its clock is one of the behaviours of StoreLock.
THEOREM TimedLockRefinesLock == TimedSpec => LockSpec
<1>1. TimedInit => LockInit
  BY DEF TimedInit
<1>2. [TimedNext]_timedVars => [LockNext]_lockVars
  BY TimedNextIsLockNext
<1> QED
  BY <1>1, <1>2, PTL DEF TimedSpec, LockSpec

----------------------------------------------------------------------------
\* The stages from the deadline's computation to the lock.
Undecided == {"thread", "open", "flock"}

\* What the clock adds to the state of one call: it waits and sleeps only on
\* its way to the locks, and until the deadline waited and left add up.
TimedCallOK(t) ==
    /\ left[t] \in Nat
    /\ nap[t] \in Nat
    /\ waited[t] \in Nat
    /\ nap[t] > 0 => pc[t] = "flock"
    /\ pc[t] \notin Undecided => waited[t] = 0
    /\ pc[t] \in Undecided /\ left[t] > 0 => waited[t] + left[t] = LockTimeout
    /\ pc[t] \in {"thread", "open"} => waited[t] <= LockTimeout
    /\ waited[t] + nap[t] < LockTimeout + Poll

TimedInv ==
    /\ LockTypeOK
    /\ left \in [Thread -> Nat]
    /\ nap \in [Thread -> Nat]
    /\ waited \in [Thread -> Nat]
    /\ \A t \in Thread : TimedCallOK(t)

\* A call starts with nothing waited.
LEMMA TimedInitial == TimedInit => TimedInv
BY StoreLockAssumption, TimedLockAssumption, LockInitial
DEF TimedInit, LockInit, TimedInv, TimedCallOK, LockInv, Undecided

\* A step of one thread keeps the invariant.
LEMMA TimedStepKeeps ==
  ASSUME TimedInv, LockTypeOK', NEW t \in Thread, TimedStep(t)
  PROVE  TimedInv'
<1> USE StoreLockAssumption, TimedLockAssumption
<1> USE DEF TimedInv, TimedCallOK, Undecided, LockTypeOK
<1>1. CASE Proceed(t)
  <2> USE DEF Proceed, SetsDeadline, Deciding, Goto
  <2>1. CASE Call(t)
    BY <1>1, <2>1 DEF Call
  <2>2. CASE AcquireThreadLock(t)
    BY <1>1, <2>2 DEF AcquireThreadLock
  <2>3. CASE OpenLockFile(t) \/ OpenDegrades(t) \/ OpenRaises(t)
    BY <1>1, <2>3 DEF OpenLockFile, OpenDegrades, OpenRaises
  <2>4. CASE Flock(t) \/ FlockUnsupported(t)
    BY <1>1, <2>4 DEF Flock, FlockUnsupported
  <2>5. CASE Leave(t) \/ Unlock(t) \/ Release(t)
    BY <1>1, <2>5 DEF Leave, Unlock, Release
  <2> QED
    BY <1>1, <2>1, <2>2, <2>3, <2>4, <2>5
<1>2. CASE TimeOut(t)
  BY <1>2 DEF TimeOut, PastDeadline, ThreadLockTimeout, FlockTimeout, Goto
<1>3. CASE PollAgain(t)
  BY <1>3 DEF PollAgain, PastDeadline
<1> QED
  BY <1>1, <1>2, <1>3 DEF TimedStep

\* No step of the lock, of a crash or of the clock breaks the invariant.
LEMMA TimedInductive ==
  ASSUME TimedInv, LockInv, [TimedNext]_timedVars
  PROVE  TimedInv'
<1> USE StoreLockAssumption, TimedLockAssumption
<1>1. [LockNext]_lockVars
  BY TimedNextIsLockNext
<1>2. LockTypeOK'
  BY <1>1, LockInductive DEF LockInv
<1>3. ASSUME NEW t \in Thread, TimedStep(t) PROVE TimedInv'
  BY <1>2, <1>3, TimedStepKeeps
<1>4. ASSUME NEW p \in Process, TimedCrash(p) PROVE TimedInv'
  BY <1>2, <1>4
  DEF TimedCrash, Crash, Survives, TimedInv, TimedCallOK, Undecided, LockTypeOK
<1>5. CASE Tick
  <2> USE DEF TimedInv, TimedCallOK, Undecided
  <2>1. ASSUME NEW t \in Thread PROVE TimedCallOK(t)'
    <3>1. pc'[t] = pc[t] /\ ~Due(t)
      BY <1>5 DEF Tick, lockVars
    <3>2. ASSUME Waiting(t)
          PROVE  /\ left'[t] = IF left[t] > 0 THEN left[t] - 1 ELSE 0
                 /\ nap'[t] = IF nap[t] > 0 THEN nap[t] - 1 ELSE 0
                 /\ waited'[t] = waited[t] + 1
      <4>1. TimedCallOK(t)
        OBVIOUS
      <4>2. waited[t] < LockTimeout + Poll
        BY <4>1
      <4> QED
        BY <1>5, <3>2, <4>2 DEF Tick
    <3>3. CASE pc[t] = "thread"
      <4>1. left[t] > 0 /\ nap[t] = 0
        BY <3>1, <3>3 DEF Due, PastDeadline
      <4> QED
        BY <3>1, <3>2, <3>3, <4>1 DEF Waiting
    <3>4. CASE pc[t] = "flock"
      <4>1. nap[t] > 0
        BY <3>1, <3>4 DEF Due
      <4> QED
        BY <3>1, <3>2, <3>4, <4>1 DEF Waiting
    <3>5. CASE pc[t] \notin Undecided
      BY <1>5, <3>1, <3>5 DEF Tick, Waiting
    <3>6. pc[t] # "open"
      BY <3>1 DEF Due
    <3> QED
      BY <3>3, <3>4, <3>5, <3>6
  <2> QED
    BY <1>2, <1>5, <2>1 DEF Tick
<1>6. CASE UNCHANGED timedVars
  BY <1>2, <1>6 DEF timedVars, TimedInv, TimedCallOK
<1> QED
  BY <1>3, <1>4, <1>5, <1>6 DEF TimedNext

\* _locked waits for less than one lock_timeout and one poll in all, however the
\* wait is divided between its two locks.
THEOREM WaitBounded == TimedSpec => []WaitIsBounded
<1>1. TimedSpec => []LockInv
  BY TimedLockRefinesLock, LockInvariant, PTL
<1>2. TimedInit => TimedInv
  BY TimedInitial
<1>3. TimedInv /\ LockInv /\ [TimedNext]_timedVars => TimedInv'
  BY TimedInductive
<1>4. TimedInv => WaitIsBounded
  BY DEF TimedInv, TimedCallOK, WaitIsBounded
<1> QED
  BY <1>1, <1>2, <1>3, <1>4, PTL DEF TimedSpec

\* With its deadline and its polls, too, _locked is the mutex that DeviceStore is
\* specified on: the two refinements compose.
THEOREM TimedLockIsAMutex == TimedSpec => LockIsAMutex
BY TimedLockRefinesLock, LockImplementsMutex, PTL

=============================================================================
