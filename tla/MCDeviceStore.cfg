\* Two processes, one device, three tokens, one expiry.
SPECIFICATION Spec
CONSTANTS
    dashboard = dashboard
    cli = cli
    d1 = d1
    d2 = d2
    c1 = c1
    NoRecord = NoRecord
    NoPush = NoPush
    NoDraft = NoDraft
    Process <- MCProcess
    Thread <- MCThread
    ProcessOf <- MCProcessOf
    Unlockable <- MCUnlockable
    Serves <- MCServes
    Device = {phone}
    Push = {expo}
    Token = {1, 2, 3}
    Time = {0, 1}
    AccessTTL = 1
    RefreshTTL = 1
    MaxPrev = 2
SYMMETRY ThreadSymmetry
INVARIANTS
    NoLostUpdate
    IssuedTokensKnown
PROPERTIES
    RevokedForever
    MutatorsAreAtomic
