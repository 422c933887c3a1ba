\* Two questions or ends at a time, three in all, of two sessions of one device;
\* no failures.
SPECIFICATION Spec
CONSTANTS
    live1 = live1
    live2 = live2
    stored1 = stored1
    stored2 = stored2
    NoClaim = NoClaim
    Device = {phone}
    Registered = {}
    Run <- MCRun
    Key <- MCKey
    KeyOf <- MCKeyOf
    Hook = {h1, h2}
    Kinds = {"end", "clarify"}
    TTL = 3
    Cooldown = 1
    GateMemory = 2
    Time = {0, 1, 2}
    MaxRequests = 2
    MaxCalls = 3
    MaxFaults = 0
INVARIANTS
    QuestionsAreSpaced
SYMMETRY HookSymmetry
CHECK_DEADLOCK FALSE
