--------------------------- MODULE SessionNotify ---------------------------
(***************************************************************************)
(* Session-stop pushes: hermes_mobile/session_notify.py in the dashboard   *)
(* process, with the POST /session-claim route of plugin_api.py.           *)
(*                                                                         *)
(* A device claims a session under its live id, its stored key or both.  The *)
(* agent's threads call the hooks, which read the clock, resolve the claim *)
(* under the registry's lock, ask the gate under its lock if the agent put *)
(* a question, look the push token up in the device store and post to Expo.*)
(* A question's last two steps run on a thread of their own, the hook      *)
(* having returned.  A restart of the process empties registry and gate.   *)
(***************************************************************************)
EXTENDS Integers

CONSTANTS
    Device,
    Run,         \* live session ids
    Key,         \* stored session keys
    KeyOf,       \* the stored session a live one continues
    Hook,        \* concurrent hook calls
    Kinds,       \* what they are about: a session's end, an approval, a question, a cron run
    Registered,  \* devices whose push token the store has when the process starts
    NoClaim,     \* an id nobody claimed
    TTL,         \* _DEFAULT_TTL_SECONDS
    Cooldown,    \* _CLARIFY_COOLDOWN_SECONDS
    GateMemory,  \* _GATE_MEMORY_SECONDS
    Time,        \* clock readings
    MaxRequests, \* bound on the requests of the devices and revocations in a run
    MaxCalls,    \* bound on the hook calls
    MaxFaults    \* bound on store, network and thread failures

ASSUME SessionNotifyAssumption ==
    /\ Run \cap Key = {}
    /\ Registered \subseteq Device
    /\ Kinds \subseteq {"end", "approval", "clarify", "cron"}
    /\ KeyOf \in [Run -> Key]
    /\ TTL \in Nat \ {0}
    /\ Cooldown \in Nat
    /\ GateMemory \in Nat /\ Cooldown <= GateMemory
    /\ Time \subseteq Nat
    /\ MaxRequests \in Nat /\ MaxCalls \in Nat /\ MaxFaults \in Nat

VARIABLES
    now,         \* the monotonic clock
    claims,      \* SessionClaimRegistry._by_id
    keyless,     \* live ids some device has claimed with no stored key
    gate,        \* ClarifyPushGate._last
    registered,  \* devices with a push token
    revoked,     \* revoked devices
    hook,        \* each hook call, with the push it leaves behind
    requests,    \* requests of the devices and revocations so far
    calls,       \* hook calls so far
    admitted,    \* what the gate let through since the process started
    settled,     \* calls that pushed, or that a failure, a restart, the cooldown or
                 \* the device store kept from it
    faults       \* failures so far

vars == <<now, claims, keyless, gate, registered, revoked, hook, requests, calls, admitted,
          settled, faults>>

deviceVars == <<registered, revoked, requests>>
memoryVars == <<claims, keyless, gate>>

Never == -1
Slots == Device \X (Key \union Run)

\* Quiet: no call, or one that is over.
Quiet == [stage |-> "quiet"]

Init ==
    /\ now = 0
    /\ claims = [i \in Run \union Key |-> NoClaim]
    /\ keyless = {}
    /\ gate = [slot \in Slots |-> Never]
    /\ registered = Registered
    /\ revoked = {}
    /\ hook = [h \in Hook |-> Quiet]
    /\ requests = 0
    /\ calls = 0
    /\ admitted = {}
    /\ settled = {}
    /\ faults = 0

Ids(r) == {r, KeyOf[r]}

LiveAt(i, time) == claims[i] # NoClaim /\ claims[i].expires > time

\* The ids a hook resolves: an approval knows only the stored key.
Asked(kind, r) == IF kind = "approval" THEN {KeyOf[r]} ELSE Ids(r)

\* Those a push may go to as the registry stands.
Claimants(kind, r) == {claims[i].device : i \in {j \in Asked(kind, r) : LiveAt(j, now)}}

Active(h) == hook[h].stage # "quiet"

\* A device's request is answered, or the operator's command.
Requested == requests < MaxRequests /\ requests' = requests + 1

Reachable == registered \ revoked

----------------------------------------------------------------------------
(* The devices. *)

\* Mutant of RouteOf: no live id in place of a missing stored key.
RouteOfKeyOnly(r, named) == IF KeyOf[r] \in named THEN KeyOf[r] ELSE NoClaim

\* The id the app opens: session_key or session_id.
RouteOf(r, named) == IF KeyOf[r] \in named THEN KeyOf[r] ELSE r

\* POST /session-claim with one id of the session or both, the clock read before
\* the registry's lock was taken, though never as long as a TTL before it; the
\* device may have been revoked since the request was authenticated.
Claim(d, r, named) ==
    /\ Requested
    /\ \E read \in Time :
        /\ read <= now /\ now < read + TTL
        /\ claims' = [i \in Run \union Key |->
            IF i \in named THEN [device |-> d, route |-> RouteOf(r, named), expires |-> read + TTL]
            ELSE claims[i]]
    /\ keyless' = IF KeyOf[r] \in named THEN keyless ELSE keyless \union {r}
    /\ hook' = [h \in Hook |->
        IF Active(h) /\ Asked(hook[h].kind, hook[h].run) \cap named # {}
        THEN [hook[h] EXCEPT !.entitled = @ \union {d}] ELSE hook[h]]
    /\ UNCHANGED <<now, gate, registered, revoked, calls, admitted, settled, faults>>

\* DeviceStore.set_push_token; the route refuses an empty token.
RegisterPush(d) ==
    /\ Requested
    /\ d \notin registered \union revoked
    /\ registered' = registered \union {d}
    /\ UNCHANGED <<now, memoryVars, revoked, hook, calls, admitted, settled, faults>>

\* DeviceStore.revoke.
RevokeDevice(d) ==
    /\ Requested
    /\ d \notin revoked
    /\ revoked' = revoked \union {d}
    /\ UNCHANGED <<now, memoryVars, registered, hook, calls, admitted, settled, faults>>

----------------------------------------------------------------------------
(* The hooks.  Calls that return at once are left out: notifications off,  *)
(* an interrupted run, a coalesced or non-gateway approval, another tool,  *)
(* a cron run already delivered to a phone.                                *)

\* The host calls on_session_end, on_pre_approval_request or on_pre_tool_call,
\* which reads the clock.
CallHook(h, kind, r) ==
    /\ ~Active(h)
    /\ calls < MaxCalls
    /\ calls' = calls + 1
    /\ hook' = [hook EXCEPT ![h] =
        [stage |-> IF kind = "cron" THEN "list" ELSE "resolve", kind |-> kind, run |-> r,
         id |-> calls + 1, clock |-> now, devices |-> {}, route |-> KeyOf[r],
         entitled |-> Claimants(kind, r), barred |-> revoked]]
    /\ UNCHANGED <<now, memoryVars, deviceVars, admitted, settled, faults>>

Becomes(h, stage) == hook' = [hook EXCEPT ![h].stage = stage]
Ends(h) == hook' = [hook EXCEPT ![h] = Quiet]
Settle(h) == settled' = settled \union {hook[h].id}
Fault == faults < MaxFaults /\ faults' = faults + 1

\* Mutants of Hit: an expired claim still counts; the stored key is not tried.
HitIgnoresExpiry(h) ==
    LET r == hook[h].run
    IN  IF hook[h].kind # "approval" /\ claims[r] # NoClaim THEN claims[r] ELSE claims[KeyOf[r]]

HitLiveIdOnly(h) ==
    IF LiveAt(hook[h].run, hook[h].clock) THEN claims[hook[h].run] ELSE NoClaim

\* SessionClaimRegistry.resolve: the live id, if the hook knows it, comes first.
Hit(h) ==
    LET r == hook[h].run
    IN  IF r \in Asked(hook[h].kind, r) /\ LiveAt(r, hook[h].clock) THEN claims[r]
        ELSE IF LiveAt(KeyOf[r], hook[h].clock) THEN claims[KeyOf[r]]
        ELSE NoClaim

Resolve(h) ==
    /\ hook[h].stage = "resolve"
    /\ hook' = [hook EXCEPT ![h] =
        IF Hit(h) = NoClaim THEN Quiet
        ELSE [@ EXCEPT !.stage = IF hook[h].kind = "clarify" THEN "gate" ELSE "lookup",
                       !.devices = {Hit(h).device},
                       !.route = Hit(h).route,
                       !.clock = now]]
    /\ UNCHANGED <<now, memoryVars, deviceVars, calls, admitted, settled, faults>>

SlotOf(h) == <<CHOOSE d \in hook[h].devices : TRUE, hook[h].route>>

\* What the gate still remembers at a clock reading.
Remembered(time) ==
    [slot \in Slots |-> IF time - gate[slot] < GateMemory THEN gate[slot] ELSE Never]

\* Mutant of GateAllows: the window stays where the first question put it.
GateKeepsFirst(h) ==
    LET last == Remembered(hook[h].clock)[SlotOf(h)]
    IN  /\ hook[h].stage = "gate"
        /\ last = Never \/ hook[h].clock - last >= Cooldown
        /\ gate' = [Remembered(hook[h].clock) EXCEPT ![SlotOf(h)] =
            IF last = Never THEN hook[h].clock ELSE last]
        /\ admitted' = admitted \union
            {[id |-> hook[h].id, slot |-> SlotOf(h), at |-> hook[h].clock,
              waited |-> now - hook[h].clock]}
        /\ Becomes(h, "lookup")
        /\ UNCHANGED <<now, claims, keyless, deviceVars, calls, settled, faults>>

\* ClarifyPushGate.allow, and a thread of its own for the push; clock is what
\* it read before it took the gate's lock.
GateAllows(h) ==
    LET last == Remembered(hook[h].clock)[SlotOf(h)]
    IN  /\ hook[h].stage = "gate"
        /\ last = Never \/ hook[h].clock - last >= Cooldown
        /\ gate' = [Remembered(hook[h].clock) EXCEPT ![SlotOf(h)] = hook[h].clock]
        /\ admitted' = admitted \union
            {[id |-> hook[h].id, slot |-> SlotOf(h), at |-> hook[h].clock,
              waited |-> now - hook[h].clock]}
        /\ Becomes(h, "lookup")
        /\ UNCHANGED <<now, claims, keyless, deviceVars, calls, settled, faults>>

GateRefuses(h) ==
    LET last == Remembered(hook[h].clock)[SlotOf(h)]
    IN  /\ hook[h].stage = "gate"
        /\ last # Never /\ hook[h].clock - last < Cooldown
        /\ gate' = Remembered(hook[h].clock)
        /\ Ends(h)
        /\ Settle(h)
        /\ UNCHANGED <<now, claims, keyless, deviceVars, calls, admitted, faults>>

\* Mutant of LookUp: the token of a revoked device is returned too.
LookUpRevoked(h) ==
    /\ hook[h].stage = "lookup"
    /\ IF hook[h].devices \subseteq registered
       THEN Becomes(h, "send") /\ UNCHANGED settled
       ELSE Ends(h) /\ Settle(h)
    /\ UNCHANGED <<now, memoryVars, deviceVars, calls, admitted, faults>>

\* _fan_out: get_push_token of the claiming device.
LookUp(h) ==
    /\ hook[h].stage = "lookup"
    /\ IF hook[h].devices \subseteq Reachable
       THEN Becomes(h, "send") /\ UNCHANGED settled
       ELSE Ends(h) /\ Settle(h)
    /\ UNCHANGED <<now, memoryVars, deviceVars, calls, admitted, faults>>

\* get_push_token raises.  On the question's thread _safe_fan_out logs it (and a
\* thread that cannot start is logged by the hook); elsewhere the hook raises.
LookUpRaises(h) ==
    /\ hook[h].stage = "lookup"
    /\ Fault
    /\ IF hook[h].kind = "clarify" THEN Ends(h) ELSE Becomes(h, "raised")
    /\ Settle(h)
    /\ UNCHANGED <<now, memoryVars, deviceVars, calls, admitted>>

\* A hook that raised is over.
RaisedReturns(h) ==
    /\ hook[h].stage = "raised"
    /\ Ends(h)
    /\ UNCHANGED <<now, memoryVars, deviceVars, calls, admitted, settled, faults>>

\* _tokened_devices, for the end of a cron run.
ListDevices(h) ==
    /\ hook[h].stage = "list"
    /\ hook' = [hook EXCEPT ![h] =
        IF Reachable = {} THEN Quiet ELSE [@ EXCEPT !.stage = "send", !.devices = Reachable]]
    /\ UNCHANGED <<now, memoryVars, deviceVars, calls, admitted, settled, faults>>

\* list_devices raises: nobody is notified.
ListFails(h) ==
    /\ hook[h].stage = "list"
    /\ Fault
    /\ Ends(h)
    /\ Settle(h)
    /\ UNCHANGED <<now, memoryVars, deviceVars, calls, admitted>>

\* The device is done with, and the call with the last of them.
Served(h, d) ==
    hook' = [hook EXCEPT ![h] =
        IF hook[h].devices = {d} THEN Quiet ELSE [@ EXCEPT !.devices = hook[h].devices \ {d}]]

\* ExpoPush.send to one device.
Send(h, d) ==
    /\ hook[h].stage = "send"
    /\ d \in hook[h].devices
    /\ Served(h, d)
    /\ Settle(h)
    /\ UNCHANGED <<now, memoryVars, deviceVars, calls, admitted, faults>>

\* Expo is unreachable or refuses: logged, the next device is tried.
SendFails(h, d) ==
    /\ hook[h].stage = "send"
    /\ d \in hook[h].devices
    /\ Fault
    /\ Served(h, d)
    /\ Settle(h)
    /\ UNCHANGED <<now, memoryVars, deviceVars, calls, admitted>>

\* The dashboard process ends and starts again.
Restart ==
    /\ Fault
    /\ claims' = [i \in Run \union Key |-> NoClaim]
    /\ gate' = [slot \in Slots |-> Never]
    /\ hook' = [h \in Hook |-> Quiet]
    /\ settled' = settled \union {hook[h].id : h \in {g \in Hook : Active(g)}}
    /\ admitted' = {}
    /\ UNCHANGED <<now, keyless, deviceVars, calls>>

Tick ==
    /\ now + 1 \in Time
    /\ now' = now + 1
    /\ UNCHANGED <<memoryVars, deviceVars, hook, calls, admitted, settled, faults>>

HookStep(h) ==
    \/ Resolve(h)
    \/ GateAllows(h)
    \/ GateRefuses(h)
    \/ LookUp(h)
    \/ LookUpRaises(h)
    \/ RaisedReturns(h)
    \/ ListDevices(h)
    \/ ListFails(h)
    \/ \E d \in Device : Send(h, d) \/ SendFails(h, d)

Next ==
    \/ \E d \in Device :
        \/ RegisterPush(d)
        \/ RevokeDevice(d)
        \/ \E r \in Run : \E named \in SUBSET Ids(r) \ {{}} : Claim(d, r, named)
    \/ \E h \in Hook : HookStep(h) \/ \E kind \in Kinds, r \in Run : CallHook(h, kind, r)
    \/ Restart
    \/ Tick

Spec == Init /\ [][Next]_vars

\* Threads of the process are scheduled; the Expo request has a timeout.
Fairness == \A h \in Hook : WF_vars(HookStep(h))

FairSpec == Spec /\ Fairness

----------------------------------------------------------------------------
Call ==
    [stage : {"resolve", "gate", "lookup", "raised", "list", "send"}, kind : Kinds, run : Run,
     id : Nat, clock : Nat, devices : SUBSET Device, route : Key \union Run,
     entitled : SUBSET Device, barred : SUBSET Device]

\* Every variable has its type; a call in the gate or the lookup has one device.
TypeOK ==
    /\ now \in Nat
    /\ claims \in [Run \union Key ->
                    [device : Device, route : Key \union Run, expires : Nat] \union {NoClaim}]
    /\ keyless \subseteq Run
    /\ gate \in [Slots -> Nat \union {Never}]
    /\ registered \subseteq Device /\ revoked \subseteq Device
    /\ hook \in [Hook -> Call \union {Quiet}]
    /\ \A h \in Hook : hook[h].stage \in {"gate", "lookup"} =>
        \E d \in Device : hook[h].devices = {d}
    /\ requests \in 0 .. MaxRequests /\ calls \in 0 .. MaxCalls
    /\ settled \subseteq 1 .. calls
    /\ faults \in 0 .. MaxFaults

\* The gate lets two questions of one session on one device through only a
\* cooldown apart, though their clock readings may reach its lock out of order;
\* unless one of them waited for the lock so long that the gate, about another
\* slot, met a reading by which the first was old enough to forget.
QuestionsAreSpaced ==
    \A a, b \in admitted :
        a # b /\ a.slot = b.slot =>
            \/ a.at - b.at >= Cooldown
            \/ b.at - a.at >= Cooldown
            \/ a.waited > GateMemory - Cooldown
            \/ b.waited > GateMemory - Cooldown

\* A push about a session goes to a device whose claim of an id the hook names
\* was live when the hook was called, or that claimed one since: a device whose
\* claim expired or was taken over hears nothing more.  It opens the session by
\* its stored key, or by the live id where a claim came without the key.
PushesFollowClaims ==
    \A h \in Hook : hook[h].stage = "send" /\ hook[h].kind # "cron" =>
        /\ hook[h].devices \subseteq hook[h].entitled
        /\ \/ hook[h].route = KeyOf[hook[h].run]
           \/ hook[h].route = hook[h].run /\ hook[h].run \in keyless

\* No hook called after a device was revoked sends it anything, whether its
\* claim is still there or the run is cron's broadcast.
RevokedHearNothing ==
    \A h \in Hook : hook[h].stage = "send" => hook[h].devices \cap hook[h].barred = {}

\* A hook called for a claimed session ends in a push, unless the store, the
\* cooldown, a failure or a restart kept it from it: no claim, expiry or other
\* hook in the meantime makes it fall silent.
ClaimedCallsAreNotified ==
    \A n \in 1 .. MaxCalls :
        (\E h \in Hook : Active(h) /\ hook[h].id = n /\ hook[h].kind # "cron"
                         /\ \E i \in Asked(hook[h].kind, hook[h].run) : LiveAt(i, hook[h].clock))
            ~> n \in settled

\* Failures never affect the agent run: no hook raises to the host.
NoHookRaises == \A h \in Hook : hook[h].stage # "raised"

=============================================================================
