\* Two devices, three tokens, one expiry; updates may be lost.
SPECIFICATION Spec
CONSTANTS
    dashboard = dashboard
    cli = cli
    d1 = d1
    c1 = c1
    NoRecord = NoRecord
    NoPush = NoPush
    NoDraft = NoDraft
    Process <- MCProcess
    Thread <- MCThread
    ProcessOf <- MCProcessOf
    Unlockable <- MCUnlockable
    Serves <- MCServes
    Device = {phone, tablet}
    Push = {expo}
    Token = {1, 2, 3}
    Time = {0, 1}
    AccessTTL = 1
    RefreshTTL = 1
    MaxPrev = 2
INVARIANTS
    TypeOK
    TokensUnshared
