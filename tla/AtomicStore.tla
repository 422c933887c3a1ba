---------------------------- MODULE AtomicStore ----------------------------
(***************************************************************************)
(* What the device store promises its callers: every mutator takes effect  *)
(* at one instant, on the records as they are at that instant, or not at   *)
(* all.  A call may use a clock reading from before it took effect.        *)
(***************************************************************************)
EXTENDS DeviceRecords

CONSTANT Time    \* clock readings, in units of the shorter lifetime

VARIABLES
    devices,     \* the records
    now          \* the clock

atomicVars == <<devices, now>>

Unused(token) == \A d \in Known(devices) : token \notin Chain(devices[d])

AtomicInit == devices = EmptyStore /\ now = 0

Tick ==
    /\ now + 1 \in Time
    /\ now' = now + 1
    /\ UNCHANGED devices

\* The mutator answers on the current records and saves what it computed.
Takes(outcome) ==
    /\ outcome.saves
    /\ devices' = outcome.data
    /\ UNCHANGED now

AtomicCreate ==
    \E d \in Device \ Known(devices), token \in Token, time \in 0 .. now :
        Unused(token) /\ Takes(CreateDevice(devices, d, token, time))

AtomicRotate ==
    \E rt \in Token, token \in Token, time \in 0 .. now :
        /\ Unused(token)
        /\ RotateRefresh(devices, rt, token, time).reply = "rotated"
        /\ Takes(RotateRefresh(devices, rt, token, time))

AtomicReuse ==
    \E rt \in Token, time \in 0 .. now :
        /\ RotateRefresh(devices, rt, NoToken, time).reply = "reused"
        /\ Takes(RotateRefresh(devices, rt, NoToken, time))

AtomicRevoke == \E d \in Device : Takes(Revoke(devices, d))

AtomicLogout == \E rt \in Token : Takes(RevokeByRefresh(devices, rt))

AtomicSetPush ==
    \E d \in Device, push \in Push \union {NoPush} : Takes(SetPushToken(devices, d, push))

AtomicNext ==
    \/ Tick
    \/ AtomicCreate
    \/ AtomicRotate
    \/ AtomicReuse
    \/ AtomicRevoke
    \/ AtomicLogout
    \/ AtomicSetPush

AtomicSpec == AtomicInit /\ [][AtomicNext]_atomicVars

=============================================================================
