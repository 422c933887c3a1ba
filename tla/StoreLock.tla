----------------------------- MODULE StoreLock -----------------------------
(***************************************************************************)
(* The lock every mutator of the device store runs under:                  *)
(* DeviceStore._locked in hermes_mobile/device_store.py.                   *)
(*                                                                         *)
(* A thread first takes the lock its process keeps for the store path,     *)
(* then an exclusive flock on devices.json.lock, which the processes share.*)
(* Both waits can time out.  A call whose lock file cannot be opened, or   *)
(* whose flock the file system refuses, runs under the thread lock alone.  *)
(* A process may be killed at any step: its thread lock is gone with its   *)
(* memory and the kernel drops its flock.                                  *)
(***************************************************************************)
CONSTANTS
    Process,     \* the operating-system processes that open the store
    Thread,      \* their threads
    NoThread,    \* the holder of a free lock
    ProcessOf,   \* the process a thread belongs to
    Unlockable   \* the processes whose lock file may fail to open or to flock

ASSUME StoreLockAssumption ==
    /\ NoThread \notin Thread
    /\ ProcessOf \in [Thread -> Process]
    /\ Unlockable \subseteq Process

VARIABLES
    pc,          \* where each thread is in _locked
    threadLock,  \* for each process, the thread that holds _path_lock(path)
    flock        \* the thread whose file descriptor holds the flock

lockVars == <<pc, threadLock, flock>>

PCs == {"idle", "thread", "open", "flock", "body", "unlock", "release"}

MaybeThread == Thread \union {NoThread}

LockInit ==
    /\ pc = [t \in Thread |-> "idle"]
    /\ threadLock = [p \in Process |-> NoThread]
    /\ flock = NoThread

Goto(t, stage) == pc' = [pc EXCEPT ![t] = stage]

\* A mutator is called and asks for the thread lock.
Call(t) ==
    /\ pc[t] = "idle"
    /\ Goto(t, "thread")
    /\ UNCHANGED <<threadLock, flock>>

AcquireThreadLock(t) ==
    /\ pc[t] = "thread"
    /\ threadLock[ProcessOf[t]] = NoThread
    /\ threadLock' = [threadLock EXCEPT ![ProcessOf[t]] = t]
    /\ Goto(t, "open")
    /\ UNCHANGED flock

\* acquire(timeout=...) returned False: DeviceStoreError, nothing to release.
ThreadLockTimeout(t) ==
    /\ pc[t] = "thread"
    /\ threadLock[ProcessOf[t]] # NoThread
    /\ Goto(t, "idle")
    /\ UNCHANGED <<threadLock, flock>>

OpenLockFile(t) ==
    /\ pc[t] = "open"
    /\ Goto(t, "flock")
    /\ UNCHANGED <<threadLock, flock>>

\* _open_lock_file returned None: the body runs under the thread lock alone.
OpenDegrades(t) ==
    /\ pc[t] = "open"
    /\ ProcessOf[t] \in Unlockable
    /\ Goto(t, "body")
    /\ UNCHANGED <<threadLock, flock>>

\* Mutant of OpenRaises: the exception of _ensure_dir is taken for a degraded open.
OpenRaisesIgnored(t) ==
    /\ pc[t] = "open"
    /\ Goto(t, "body")
    /\ UNCHANGED <<threadLock, flock>>

\* _ensure_dir raised (mkdir failed): only the thread lock is released.
OpenRaises(t) ==
    /\ pc[t] = "open"
    /\ Goto(t, "release")
    /\ UNCHANGED <<threadLock, flock>>

\* One poll of _flock: LOCK_EX | LOCK_NB succeeds.
Flock(t) ==
    /\ pc[t] = "flock"
    /\ flock = NoThread
    /\ flock' = t
    /\ Goto(t, "body")
    /\ UNCHANGED threadLock

\* Mutants of FlockTimeout: the raise skips both finally clauses; it escapes
\* the call altogether.
FlockTimeoutSkipsFinally(t) ==
    /\ pc[t] = "flock"
    /\ flock # NoThread
    /\ Goto(t, "idle")
    /\ UNCHANGED <<threadLock, flock>>

FlockTimeoutEscapes(t) ==
    /\ pc[t] = "flock"
    /\ flock # NoThread
    /\ Goto(t, "raised")
    /\ UNCHANGED <<threadLock, flock>>

\* One poll of _flock: blocked and past the deadline, DeviceStoreError.
FlockTimeout(t) ==
    /\ pc[t] = "flock"
    /\ flock # NoThread
    /\ Goto(t, "unlock")
    /\ UNCHANGED <<threadLock, flock>>

\* One poll of _flock: any other OSError.
FlockUnsupported(t) ==
    /\ pc[t] = "flock"
    /\ ProcessOf[t] \in Unlockable
    /\ Goto(t, "body")
    /\ UNCHANGED <<threadLock, flock>>

\* The with-block ends, by a return or by an exception.
Leave(t) ==
    /\ pc[t] = "body"
    /\ Goto(t, "unlock")
    /\ UNCHANGED <<threadLock, flock>>

\* Mutant of Unlock: a call that timed out frees the flock of another.
UnlockAnyone(t) ==
    /\ pc[t] = "unlock"
    /\ flock' = NoThread
    /\ Goto(t, "release")
    /\ UNCHANGED threadLock

\* Inner finally: LOCK_UN and close, which frees only a flock this call holds.
Unlock(t) ==
    /\ pc[t] = "unlock"
    /\ flock' = IF flock = t THEN NoThread ELSE flock
    /\ Goto(t, "release")
    /\ UNCHANGED threadLock

\* Outer finally: the thread lock is released and the call returns or raises.
Release(t) ==
    /\ pc[t] = "release"
    /\ threadLock' = [threadLock EXCEPT ![ProcessOf[t]] = NoThread]
    /\ Goto(t, "idle")
    /\ UNCHANGED flock

ThreadsOf(p) == {t \in Thread : ProcessOf[t] = p}

\* The process dies and starts again: no thread of it is in a call any more.
Crash(p) ==
    /\ pc' = [t \in Thread |-> IF t \in ThreadsOf(p) THEN "idle" ELSE pc[t]]
    /\ threadLock' = [threadLock EXCEPT ![p] = NoThread]
    /\ flock' = IF flock \in ThreadsOf(p) THEN NoThread ELSE flock

\* What a thread inside a call does next.
LockStep(t) ==
    \/ AcquireThreadLock(t)
    \/ ThreadLockTimeout(t)
    \/ OpenLockFile(t)
    \/ OpenDegrades(t)
    \/ OpenRaises(t)
    \/ Flock(t)
    \/ FlockTimeout(t)
    \/ FlockUnsupported(t)
    \/ Leave(t)
    \/ Unlock(t)
    \/ Release(t)

LockNext ==
    \/ \E t \in Thread : Call(t) \/ LockStep(t)
    \/ \E p \in Process : Crash(p)

LockSpec == LockInit /\ [][LockNext]_lockVars

----------------------------------------------------------------------------
\* Every variable has its type.
LockTypeOK ==
    /\ pc \in [Thread -> PCs]
    /\ threadLock \in [Process -> MaybeThread]
    /\ flock \in MaybeThread

\* Between taking the thread lock and its release in the outer finally.
Holding == {"open", "flock", "body", "unlock", "release"}

\* Every exit of _locked, timeouts and exceptions included, leaves both locks
\* free: whoever holds one is a live call that has still to release it.
NoAbandonedLock ==
    /\ \A p \in Process : threadLock[p] # NoThread =>
        ProcessOf[threadLock[p]] = p /\ pc[threadLock[p]] \in Holding
    /\ flock # NoThread => pc[flock] \in {"body", "unlock"}

\* A call past a lock still holds it, except for a flock that failed it.
Guarded ==
    \A t \in Thread :
        /\ pc[t] \in Holding => threadLock[ProcessOf[t]] = t
        /\ pc[t] = "body" /\ ProcessOf[t] \notin Unlockable => flock = t

\* Every call of a mutator comes back, with its result, an error or the death
\* of its process, however often other callers get the lock first (_flock's
\* deadline and acquire's timeout).
EveryCallReturns == \A t \in Thread : pc[t] # "idle" ~> pc[t] = "idle"

StageOf ==
    [t \in Thread |->
        IF pc[t] \in {"thread", "open", "flock"} THEN "waiting"
        ELSE IF pc[t] \in {"unlock", "release"} THEN "leaving"
        ELSE pc[t]]

Mutex == INSTANCE StoreMutex WITH stage <- StageOf

\* _locked keeps its promise: thread lock, lock file and flock together behave
\* as the one mutex of StoreMutex, which the store is specified on.
LockIsAMutex == Mutex!MutexSpec

\* Two mutators are never inside load-modify-save together (_locked), unless
\* they run in different processes and the lock file failed one of them.
MutualExclusion == Mutex!MutualExclusion

=============================================================================
