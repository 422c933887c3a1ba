\* Three processes, the lock file may fail the command line only; polls two
\* units apart miss the deadline after three.
SPECIFICATION FairTimedSpec
CONSTANTS
    dashboard = dashboard
    gateway = gateway
    cli = cli
    d1 = d1
    d2 = d2
    g1 = g1
    c1 = c1
    NoThread = NoThread
    Process <- MCProcess
    Thread <- MCThread
    ProcessOf <- MCProcessOf
    Unlockable <- MCUnlockable
    LockTimeout = 3
    Poll = 2
INVARIANTS
    LockTypeOK
    MutualExclusion
    NoAbandonedLock
    WaitIsBounded
PROPERTIES
    LockIsAMutex
    EveryCallReturns
