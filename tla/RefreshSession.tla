--------------------------- MODULE RefreshSession ---------------------------
(***************************************************************************)
(* A paired phone, the network, and the session lifecycle of               *)
(* hermes_mobile/auth_provider.py over the device store.                   *)
(*                                                                         *)
(* The phone sends its two session cookies.  The dashboard's auth          *)
(* middleware (external) tries verify_session on the access token and, when*)
(* that yields nothing, refresh_session on the refresh token, which rotates*)
(* both under the store lock and then, with the lock released, verifies    *)
(* what it minted.  Rotated cookies travel back with the answer, which the *)
(* network may lose or deliver after a later one.                          *)
(*                                                                         *)
(* A mutator of the store is one step (DeviceStore implements AtomicStore).*)
(* A unit of time is longer than any exchange, so the clock advances while *)
(* none is under way.                                                      *)
(***************************************************************************)
EXTENDS DeviceRecords, FiniteSets

CONSTANTS
    Phone,        \* the device, paired before the start
    Request,      \* the exchanges the phone may have under way at once
    Time,         \* clock readings
    MaxFaults,    \* bound on lost answers and store failures in a run
    MaxLostInRow  \* bound on rotations lost since the phone last stored one

ASSUME RefreshSessionAssumption ==
    /\ Phone \in Device
    /\ 1 \in Token
    /\ Time \subseteq Nat
    /\ MaxFaults \in Nat
    /\ MaxLostInRow \in Nat

VARIABLES
    serial,       \* whether the phone waits for an answer before it asks again
    devices,      \* the device store
    now,          \* the clock
    minted,       \* tokens drawn so far
    jar,          \* the cookies the phone has stored
    exchange,     \* each exchange: how far it is and the tokens it carries
    faults,       \* lost answers and store failures so far
    lostInRow     \* rotations lost since the phone last stored one

vars == <<serial, devices, now, minted, jar, exchange, faults, lostInRow>>

Free == [stage |-> "free", at |-> NoToken, rt |-> NoToken, why |-> ""]

Jar == [at : Token \union {NoToken}, rt : Token \union {NoToken}]

NoCookies == [at |-> NoToken, rt |-> NoToken]

\* Answers: the page; the page with new cookies; cookies cleared and login
\* required (RefreshExpiredError); 503 and cookies kept (ProviderError).
Answers == {"served", "refreshed", "login", "unavailable"}

Exchange ==
    [stage : {"free", "sent", "refresh", "rotated"} \union Answers,
     at : Token \union {NoToken}, rt : Token \union {NoToken},
     why : {"", "unknown", "reused", "expired"}]

Init ==
    /\ serial \in BOOLEAN
    /\ devices = [EmptyStore EXCEPT ![Phone] = NewRecord(1, 0)]
    /\ now = 0
    /\ minted = 1
    /\ jar = [at |-> NoToken, rt |-> 1]
    /\ exchange = [r \in Request |-> Free]
    /\ faults = 0
    /\ lostInRow = 0

Advance(r, stage) == exchange' = [exchange EXCEPT ![r].stage = stage]

\* The phone sends a request with the cookies it has; a retry is another one.
Send(r) ==
    /\ IF serial THEN \A q \in Request : exchange[q] = Free ELSE exchange[r] = Free
    /\ jar.rt # NoToken
    /\ exchange' = [exchange EXCEPT ![r] =
        [stage |-> "sent", at |-> jar.at, rt |-> jar.rt, why |-> ""]]
    /\ UNCHANGED <<serial, devices, now, minted, jar, faults, lostInRow>>

\* verify_session: the device's record, or None.
VerifySession(r) ==
    /\ exchange[r].stage = "sent"
    /\ Advance(r, IF Authenticated(devices, exchange[r].at, now) # {}
                  THEN "served" ELSE "refresh")
    /\ UNCHANGED <<serial, devices, now, minted, jar, faults, lostInRow>>

\* verify_session on a store it cannot read: the exception is swallowed.
VerifySessionFails(r) ==
    /\ faults < MaxFaults
    /\ exchange[r].stage = "sent"
    /\ Advance(r, "refresh")
    /\ faults' = faults + 1
    /\ UNCHANGED <<serial, devices, now, minted, jar, lostInRow>>

\* refresh_session: rotate_refresh answers, under the store lock.
RefreshRotates(r) ==
    LET outcome == RotateRefresh(devices, exchange[r].rt, minted + 1, now)
    IN  /\ exchange[r].stage = "refresh"
        /\ outcome.reply = "rotated"
        /\ minted + 1 \in Token
        /\ minted' = minted + 1
        /\ devices' = outcome.data
        /\ exchange' = [exchange EXCEPT ![r] =
            [stage |-> "rotated", at |-> minted + 1, rt |-> minted + 1, why |-> ""]]
        /\ UNCHANGED <<serial, now, jar, faults, lostInRow>>

\* refresh_session: rotate_refresh raises a RefreshTokenError, having revoked
\* the device if it detected reuse.
RefreshRefused(r) ==
    LET outcome == RotateRefresh(devices, exchange[r].rt, NoToken, now)
    IN  /\ exchange[r].stage = "refresh"
        /\ outcome.reply # "rotated"
        /\ devices' = outcome.data
        /\ exchange' = [exchange EXCEPT ![r].stage = "login", ![r].why = outcome.reply]
        /\ UNCHANGED <<serial, now, minted, jar, faults, lostInRow>>

\* refresh_session: the store lock or the file fails rotate_refresh.
RefreshUnavailable(r) ==
    /\ faults < MaxFaults
    /\ exchange[r].stage = "refresh"
    /\ Advance(r, "unavailable")
    /\ faults' = faults + 1
    /\ UNCHANGED <<serial, devices, now, minted, jar, lostInRow>>

\* Mutant of VerifyRotated: the session is built from what rotate returned.
VerifyRotatedSkipped(r) ==
    /\ exchange[r].stage = "rotated"
    /\ Advance(r, "refreshed")
    /\ UNCHANGED <<serial, devices, now, minted, jar, faults, lostInRow>>

\* refresh_session: verify_access of the token just minted, the lock released.
VerifyRotated(r) ==
    /\ exchange[r].stage = "rotated"
    /\ Advance(r, IF Authenticated(devices, exchange[r].at, now) # {}
                  THEN "refreshed" ELSE "unavailable")
    /\ UNCHANGED <<serial, devices, now, minted, jar, faults, lostInRow>>

\* verify_access cannot read the store: the exception leaves refresh_session as
\* it is, the request fails, and the rotation is lost to the phone.
VerifyRotatedFails(r) ==
    /\ exchange[r].stage = "rotated"
    /\ faults < MaxFaults
    /\ lostInRow < MaxLostInRow
    /\ faults' = faults + 1
    /\ lostInRow' = lostInRow + 1
    /\ Advance(r, "unavailable")
    /\ UNCHANGED <<serial, devices, now, minted, jar>>

\* The answer reaches the phone, which stores or clears its cookies.
Deliver(r) ==
    /\ exchange[r].stage \in Answers
    /\ exchange' = [exchange EXCEPT ![r] = Free]
    /\ jar' = IF exchange[r].stage = "refreshed"
               THEN [at |-> exchange[r].at, rt |-> exchange[r].rt]
               ELSE IF exchange[r].stage = "login" THEN NoCookies
               ELSE jar
    /\ lostInRow' = IF exchange[r].stage = "refreshed" THEN 0 ELSE lostInRow
    /\ UNCHANGED <<serial, devices, now, minted, faults>>

LosesRotation(r) == exchange[r].stage \in {"rotated", "refreshed"}

\* The answer, or the dashboard process handling the request, is lost.
Lose(r) ==
    /\ exchange[r].stage \in Answers \union {"rotated"}
    /\ faults < MaxFaults
    /\ LosesRotation(r) => lostInRow < MaxLostInRow
    /\ faults' = faults + 1
    /\ lostInRow' = IF LosesRotation(r) THEN lostInRow + 1 ELSE lostInRow
    /\ exchange' = [exchange EXCEPT ![r] = Free]
    /\ UNCHANGED <<serial, devices, now, minted, jar>>

\* hermes mobile revoke, on the gateway host.
OperatorRevokes ==
    /\ ~devices[Phone].revoked
    /\ devices' = Revoke(devices, Phone).data
    /\ UNCHANGED <<serial, now, minted, jar, exchange, faults, lostInRow>>

Tick ==
    /\ now + 1 \in Time
    /\ \A r \in Request : exchange[r] = Free
    /\ now' = now + 1
    /\ UNCHANGED <<serial, devices, minted, jar, exchange, faults, lostInRow>>

Handle(r) ==
    \/ VerifySession(r)
    \/ VerifySessionFails(r)
    \/ RefreshRotates(r)
    \/ RefreshRefused(r)
    \/ RefreshUnavailable(r)
    \/ VerifyRotated(r)
    \/ VerifyRotatedFails(r)

Next ==
    \/ \E r \in Request : Send(r) \/ Handle(r) \/ Deliver(r) \/ Lose(r)
    \/ OperatorRevokes
    \/ Tick

Spec == Init /\ [][Next]_vars

\* The dashboard answers what it receives, an answer is lost or arrives, and
\* the phone keeps syncing.
Fairness ==
    /\ \A r \in Request : WF_vars(Handle(r)) /\ WF_vars(Deliver(r) \/ Lose(r))
    /\ WF_vars(\E r \in Request : Send(r))

FairSpec == Spec /\ Fairness

----------------------------------------------------------------------------
\* Every variable has its type.
TypeOK ==
    /\ serial \in BOOLEAN
    /\ devices \in Store
    /\ now \in Nat
    /\ minted \in Nat
    /\ jar \in Jar
    /\ exchange \in [Request -> Exchange]
    /\ faults \in 0 .. MaxFaults
    /\ lostInRow \in 0 .. MaxLostInRow

\* rotate_refresh calls a replay reuse only if its sender had already stored a
\* newer token: a phone that asks one request at a time and presents the newest
\* token it ever received is not taken for someone holding an old copy.
ReuseIsGenuine ==
    serial => \A r \in Request :
        exchange[r].stage = "login" /\ exchange[r].why = "reused" => exchange[r].rt # jar.rt

\* When refresh_session finds the token it minted not live, and reports an
\* inconsistent store, the device was revoked or another request rotated in
\* between; for a phone that asks one request at a time only the former.
InconsistencyHasACause ==
    \A r \in Request :
        exchange[r].stage = "rotated" /\ Authenticated(devices, exchange[r].at, now) = {} =>
            devices[Phone].revoked \/ (~serial /\ devices[Phone].rt > exchange[r].rt)

\* Once a device is revoked no request of it comes to a page or to cookies, not
\* even one whose rotation was saved before the revocation; what verify_session or
\* verify_access had let through by then is still answered.
NoSessionAfterRevoke ==
    [][\A r \in Request :
        devices[Phone].revoked /\ exchange'[r].stage \in {"served", "refreshed"} =>
            exchange'[r] = exchange[r]]_vars

\* What a phone that asks one request at a time holds between exchanges can be
\* refreshed, unless the device is revoked or the token's 30 days have passed: the
\* store still recognises it, however many rotations it has forgotten, and
\* rotate_refresh would rotate it.  A lost answer, wherever the loss strikes,
\* leaves the phone at most one rotation behind.
PhoneCanRefresh ==
    serial /\ jar.rt # NoToken /\ (\A r \in Request : exchange[r] = Free) =>
        \/ devices[Phone].revoked
        \/ devices[Phone].rtExp <= now
        \/ /\ Phone \in Holders(devices, jar.rt)
           /\ RotateRefresh(devices, jar.rt, minted + 1, now).reply = "rotated"

LiveSession == Authenticated(devices, jar.at, now) # {}

\* A phone that asks one request at a time and whose answers stop being lost
\* gets a session again, unless the device is revoked or its refresh token
\* expires: it heals by itself.
SelfHeals ==
    serial /\ jar.rt # NoToken ~>
        LiveSession \/ devices[Phone].revoked \/ devices[Phone].rtExp <= now

=============================================================================
