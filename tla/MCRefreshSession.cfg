\* One request at a time or two in parallel, one rotation lost in a row at most.
SPECIFICATION FairSpec
CONSTANTS
    Device = {phone}
    Phone = phone
    NoRecord = NoRecord
    NoPush = NoPush
    Push = {}
    Token = {1, 2, 3, 4, 5, 6, 7}
    Time = {0, 1, 2}
    AccessTTL = 1
    RefreshTTL = 2
    MaxPrev = 2
    Request = {r1, r2}
    MaxFaults = 3
    MaxLostInRow = 1
INVARIANTS
    TypeOK
    PhoneCanRefresh
    ReuseIsGenuine
    InconsistencyHasACause
PROPERTIES
    SelfHeals
    NoSessionAfterRevoke
CHECK_DEADLOCK FALSE
