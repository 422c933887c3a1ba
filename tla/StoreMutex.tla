----------------------------- MODULE StoreMutex -----------------------------
(***************************************************************************)
(* What DeviceStore._locked promises a mutator: the with-block runs alone. *)
(* A call asks, waits, enters the block or gives up with an error, leaves  *)
(* it and returns.  Two calls may share the block only across processes and*)
(* only if the lock file failed one of them (_open_lock_file, _flock).     *)
(***************************************************************************)
CONSTANTS
    Process,     \* the operating-system processes that open the store
    Thread,      \* their threads
    ProcessOf,   \* the process a thread belongs to
    Unlockable   \* the processes whose lock file may fail to open or to flock

ASSUME StoreMutexAssumption ==
    /\ ProcessOf \in [Thread -> Process]
    /\ Unlockable \subseteq Process

VARIABLE stage   \* how far each thread's call is

Stages == {"idle", "waiting", "body", "leaving"}

ThreadsOf(p) == {t \in Thread : ProcessOf[t] = p}

\* The calls of t and u may be in the block together.
MayOverlap(t, u) ==
    /\ ProcessOf[t] # ProcessOf[u]
    /\ {ProcessOf[t], ProcessOf[u]} \cap Unlockable # {}

MutexInit == stage = [t \in Thread |-> "idle"]

Move(t, from, to) ==
    /\ stage[t] \in from
    /\ stage' = [stage EXCEPT ![t] = to]

\* A mutator is called.
Ask(t) == Move(t, {"idle"}, "waiting")

\* Mutant of Enter: the flock is left out, only the thread lock excludes.
EnterThreadLockOnly(t) ==
    /\ \A u \in Thread \ {t} : stage[u] = "body" => ProcessOf[t] # ProcessOf[u]
    /\ Move(t, {"waiting"}, "body")

Enter(t) ==
    /\ \A u \in Thread \ {t} : stage[u] = "body" => MayOverlap(t, u)
    /\ Move(t, {"waiting"}, "body")

\* A wait timed out or the directory could not be made: DeviceStoreError.
GiveUp(t) == Move(t, {"waiting"}, "leaving")

\* The with-block ends, by a return or by an exception.
Leave(t) == Move(t, {"body"}, "leaving")

\* The locks are free again; a timeout on the first of them has none to free.
Return(t) == Move(t, {"waiting", "leaving"}, "idle")

\* The process dies and starts again: no thread of it is in a call any more.
Die(p) == stage' = [t \in Thread |-> IF t \in ThreadsOf(p) THEN "idle" ELSE stage[t]]

MutexNext ==
    \/ \E t \in Thread :
        Ask(t) \/ Enter(t) \/ GiveUp(t) \/ Leave(t) \/ Return(t)
    \/ \E p \in Process : Die(p)

MutexSpec == MutexInit /\ [][MutexNext]_stage

----------------------------------------------------------------------------
\* Every variable has its type.
StageTypeOK == stage \in [Thread -> Stages]

\* Two mutators are never inside load-modify-save together (_locked), unless
\* they run in different processes and the lock file failed one of them.
MutualExclusion ==
    \A t, u \in Thread :
        t # u /\ stage[t] = "body" /\ stage[u] = "body" => MayOverlap(t, u)

=============================================================================
