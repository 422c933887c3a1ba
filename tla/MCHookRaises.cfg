\* One hook call about one session of one device.
SPECIFICATION Spec
CONSTANTS
    live1 = live1
    live2 = live2
    stored1 = stored1
    stored2 = stored2
    NoClaim = NoClaim
    Device = {phone}
    Registered = {}
    Run <- MCRun
    Key <- MCKey
    KeyOf <- MCKeyOf
    Hook = {h1}
    Kinds = {"end", "approval", "clarify", "cron"}
    TTL = 3
    Cooldown = 2
    GateMemory = 3
    Time = {0, 1, 2, 3}
    MaxRequests = 2
    MaxCalls = 1
    MaxFaults = 1
INVARIANTS
    NoHookRaises
CHECK_DEADLOCK FALSE
