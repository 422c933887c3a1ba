----------------------------- MODULE TimedLock -----------------------------
(***************************************************************************)
(* StoreLock against a clock: DeviceStore._locked sets one deadline, gives *)
(* the whole lock_timeout to the wait for the thread lock, and lets _flock *)
(* poll until that deadline has passed, sleeping _LOCK_POLL_SECONDS after  *)
(* each poll that fails.                                                   *)
(*                                                                         *)
(* A step takes no time next to a poll, the block and the caller do.       *)
(***************************************************************************)
EXTENDS StoreLock, Naturals

CONSTANTS
    LockTimeout,  \* lock_timeout, in units of time
    Poll          \* _LOCK_POLL_SECONDS

ASSUME TimedLockAssumption ==
    /\ LockTimeout \in Nat
    /\ Poll \in Nat \ {0}

VARIABLES
    left,         \* time to each call's deadline
    nap,          \* what is left of a thread's sleep between two polls
    waited        \* how long the call has waited for locks

timedVars == <<pc, threadLock, flock, left, nap, waited>>

TimedInit ==
    /\ LockInit
    /\ left = [t \in Thread |-> 0]
    /\ nap = [t \in Thread |-> 0]
    /\ waited = [t \in Thread |-> 0]

\* Mutants of SetsDeadline: _flock counts from its own start; of PastDeadline:
\* the waits have no end.
SetsDeadlineTwice(t) == pc[t] \in {"idle", "thread"}
NeverPast(t) == FALSE

\* The step that computes `deadline`.
SetsDeadline(t) == pc[t] = "idle"

PastDeadline(t) == left[t] = 0

\* Past the first lock, where the call still reads its deadline.
Deciding == {"open", "flock"}

\* Any step but a timeout, by a thread that is awake.
Proceed(t) ==
    /\ nap[t] = 0
    /\ \/ Call(t)
       \/ AcquireThreadLock(t)
       \/ OpenLockFile(t) \/ OpenDegrades(t) \/ OpenRaises(t)
       \/ Flock(t) \/ FlockUnsupported(t)
       \/ Leave(t) \/ Unlock(t) \/ Release(t)
    /\ left' = [left EXCEPT ![t] =
        IF SetsDeadline(t) THEN LockTimeout ELSE IF pc'[t] \in Deciding THEN @ ELSE 0]
    /\ waited' = [waited EXCEPT ![t] = IF pc'[t] \in Deciding THEN @ ELSE 0]
    /\ UNCHANGED nap

\* acquire returns False, or a poll of _flock fails past the deadline.
TimeOut(t) ==
    /\ nap[t] = 0
    /\ PastDeadline(t)
    /\ ThreadLockTimeout(t) \/ FlockTimeout(t)
    /\ waited' = [waited EXCEPT ![t] = 0]
    /\ UNCHANGED <<left, nap>>

\* A poll of _flock fails before the deadline: time.sleep.
PollAgain(t) ==
    /\ pc[t] = "flock"
    /\ nap[t] = 0
    /\ flock # NoThread
    /\ ~PastDeadline(t)
    /\ nap' = [nap EXCEPT ![t] = Poll]
    /\ UNCHANGED <<pc, threadLock, flock, left, waited>>

\* What is left of a call's own variables when process p dies.
Survives(p, f) == [t \in Thread |-> IF t \in ThreadsOf(p) THEN 0 ELSE f[t]]

TimedCrash(p) ==
    /\ Crash(p)
    /\ left' = Survives(p, left)
    /\ nap' = Survives(p, nap)
    /\ waited' = Survives(p, waited)

\* The thread takes its next step before the clock moves: it is not in its
\* block, not idle, not asleep, and not waiting in acquire for a held lock.
Due(t) ==
    \/ pc[t] \in {"open", "unlock", "release"}
    \/ pc[t] = "flock" /\ nap[t] = 0
    \/ pc[t] = "thread" /\ (PastDeadline(t) \/ threadLock[ProcessOf[t]] = NoThread)

Waiting(t) == pc[t] \in {"thread", "flock"}

Tick ==
    /\ \E t \in Thread : Waiting(t)
    /\ \A t \in Thread : ~Due(t)
    /\ left' = [t \in Thread |-> IF left[t] > 0 THEN left[t] - 1 ELSE 0]
    /\ nap' = [t \in Thread |-> IF nap[t] > 0 THEN nap[t] - 1 ELSE 0]
    /\ waited' = [t \in Thread |->
        IF Waiting(t) /\ waited[t] < LockTimeout + Poll THEN waited[t] + 1 ELSE waited[t]]
    /\ UNCHANGED lockVars

TimedStep(t) == Proceed(t) \/ TimeOut(t) \/ PollAgain(t)

TimedNext ==
    \/ \E t \in Thread : TimedStep(t)
    \/ \E p \in Process : TimedCrash(p)
    \/ Tick

TimedSpec == TimedInit /\ [][TimedNext]_timedVars

\* While somebody waits the clock goes on: a finite time holds finitely many steps.
TimePasses == []<>(\A t \in Thread : ~Waiting(t)) \/ []<><<Tick>>_timedVars

\* Threads inside a call are scheduled.  A lock may pass a waiter over for ever.
TimedFairness ==
    /\ \A t \in Thread : WF_timedVars(pc[t] # "idle" /\ TimedStep(t))
    /\ TimePasses

FairTimedSpec == TimedSpec /\ TimedFairness

----------------------------------------------------------------------------
\* Both waits of _locked share one deadline: together they end before one
\* lock_timeout and one poll have passed, whoever else gets the locks meanwhile.
\* The poll is the overshoot of the sleep that began just before the deadline.
WaitIsBounded == \A t \in Thread : waited[t] + nap[t] < LockTimeout + Poll

=============================================================================
