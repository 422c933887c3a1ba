\* One exchange at a time, two rotations lost in a row.
SPECIFICATION Spec
CONSTANTS
    Device = {phone}
    Phone = phone
    NoRecord = NoRecord
    NoPush = NoPush
    Push = {}
    Token = {1, 2, 3, 4, 5, 6, 7}
    Time = {0, 1, 2}
    AccessTTL = 1
    RefreshTTL = 2
    MaxPrev = 2
    Request = {r1}
    MaxFaults = 3
    MaxLostInRow = 2
INVARIANTS
    ReuseIsGenuine
CHECK_DEADLOCK FALSE
