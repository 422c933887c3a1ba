\* Two hook calls about one session that two devices claim.
SPECIFICATION FairSpec
CONSTANTS
    live = live
    stored = stored
    NoClaim = NoClaim
    Device = {phone, tablet}
    Registered = {phone}
    Run <- MCRun
    Key <- MCKey
    KeyOf <- MCKeyOf
    Hook = {h1, h2}
    Kinds = {"approval", "clarify", "cron"}
    TTL = 1
    Cooldown = 1
    GateMemory = 1
    Time = {0, 1}
    MaxRequests = 2
    MaxCalls = 2
    MaxFaults = 1
INVARIANTS
    TypeOK
    PushesFollowClaims
    RevokedHearNothing
PROPERTIES
    ClaimedCallsAreNotified
CHECK_DEADLOCK FALSE
