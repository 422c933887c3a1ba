------------------------ MODULE SessionNotify_proofs ------------------------
(***************************************************************************)
(* Proofs about SessionNotify: to whom a hook call pushes, and how far     *)
(* apart the gate keeps the questions of a session.                        *)
(***************************************************************************)
EXTENDS SessionNotify, TLAPS

\* A push of the run r opens it by its stored key, or by the live id if some device
\* claimed that one without the key.
Opens(r, route) == route = KeyOf[r] \/ (route = r /\ r \in keyless)

\* What holds of a hook call, wherever it has come.
OfCall(c) ==
    /\ c.id \in 1 .. calls
    /\ c.clock <= now
    /\ c.barred \subseteq revoked
    /\ c.stage \in {"gate", "lookup"} => \E d \in Device : c.devices = {d}
    /\ c.stage = "list" => c.kind = "cron"
    /\ c.stage = "send" => c.devices \cap c.barred = {}
    /\ c.stage = "resolve" =>
           \A i \in Asked(c.kind, c.run) : LiveAt(i, c.clock) => claims[i].device \in c.entitled
    /\ c.stage \in {"gate", "lookup", "send"} /\ c.kind # "cron" =>
           c.devices \subseteq c.entitled /\ Opens(c.run, c.route)

\* Every call under way.
CallInv == \A h \in Hook : Active(h) => OfCall(hook[h])

\* A claim of a stored key routes to it, one of a live id to what opens that run.
RouteInv ==
    /\ \A r \in Run : claims[r] # NoClaim => Opens(r, claims[r].route)
    /\ \A k \in Key : claims[k] # NoClaim => claims[k].route = k

\* The inductive invariant of the registry and the calls.
NotifyInv == TypeOK /\ CallInv /\ RouteInv

\* What the registry holds under an id.
Claimed == [device : Device, route : Key \union Run, expires : Nat]

USE DEF Claimed

\* A call that is over is none.
LEMMA QuietIsNoCall == Quiet.stage = "quiet" /\ \A c \in Call : c.stage # "quiet"
BY DEF Quiet, Call

\* A hook is active, or quiet.
LEMMA ActiveIsACall ==
    ASSUME NotifyInv, NEW h \in Hook
    PROVE  /\ Active(h) => hook[h] \in Call /\ OfCall(hook[h])
           /\ ~Active(h) => hook[h] = Quiet
BY QuietIsNoCall DEF NotifyInv, TypeOK, CallInv, Active

\* The ids of a live session are ids of the registry.
LEMMA IdsAreIds ==
    ASSUME NEW r \in Run
    PROVE  /\ KeyOf[r] \in Key \ Run /\ Ids(r) \subseteq Run \union Key
           /\ \A kind : Asked(kind, r) \subseteq Ids(r)
<1>1. KeyOf[r] \in Key
  BY SessionNotifyAssumption
<1>2. KeyOf[r] \notin Run
  BY <1>1, SessionNotifyAssumption
<1> QED
  BY <1>1, <1>2 DEF Ids, Asked

\* The process starts with an empty registry.
LEMMA NotifyInitially == Init => NotifyInv
<1> SUFFICES ASSUME Init PROVE NotifyInv
  OBVIOUS
<1>1. TypeOK
  BY QuietIsNoCall, SessionNotifyAssumption DEF Init, TypeOK
<1>2. CallInv /\ RouteInv
  BY QuietIsNoCall DEF Init, CallInv, RouteInv, Active
<1> QED
  BY <1>1, <1>2 DEF NotifyInv

\* A step of one hook call, which changes neither claims nor devices nor time.
LEMMA HookMoves ==
    ASSUME NotifyInv, NEW h \in Hook, NEW one \in Call \union {Quiet},
           hook' = [hook EXCEPT ![h] = one],
           one # Quiet => OfCall(one),
           UNCHANGED <<now, claims, keyless, deviceVars, calls>>,
           gate' \in [Slots -> Nat \union {Never}],
           settled' \subseteq 1 .. calls,
           faults' \in 0 .. MaxFaults
    PROVE  NotifyInv'
<1> USE DEF NotifyInv
<1>1. UNCHANGED <<now, claims, keyless, registered, revoked, requests, calls>>
  BY DEF deviceVars
<1>2. \A g \in Hook : hook'[g] = IF g = h THEN one ELSE hook[g]
  BY DEF TypeOK
<1>3. \A c : OfCall(c)' <=> OfCall(c)
  BY <1>1 DEF OfCall, LiveAt, Opens
<1>4. CallInv'
  BY <1>2, <1>3, QuietIsNoCall DEF CallInv, Active
<1>5. \A g \in Hook : hook'[g].stage \in {"gate", "lookup"} => 
          \E d \in Device : hook'[g].devices = {d}
  BY <1>2, <1>3, <1>4, QuietIsNoCall DEF CallInv, Active, OfCall
<1>6. TypeOK'
  BY <1>1, <1>5 DEF TypeOK
<1>7. RouteInv'
  BY <1>1 DEF RouteInv, Opens
<1> QED
  BY <1>4, <1>6, <1>7

\* What a hook claim resolved is, if anything, a claim of one of the run's ids.
LEMMA HitIsAClaim ==
    ASSUME NotifyInv, NEW h \in Hook, hook[h].stage = "resolve", Hit(h) # NoClaim
    PROVE  /\ Hit(h) \in Claimed
           /\ Hit(h).device \in hook[h].entitled
           /\ Opens(hook[h].run, Hit(h).route)
<1>1. hook[h] \in Call /\ OfCall(hook[h])
  BY ActiveIsACall DEF Active
<1> DEFINE r == hook[h].run
<1>2. r \in Run
  BY <1>1 DEF Call
<1>3. PICK i \in Asked(hook[h].kind, r) : LiveAt(i, hook[h].clock) /\ Hit(h) = claims[i]
  BY DEF Hit, Ids, Asked
<1>4. i \in Run \union Key /\ (i = r \/ (i = KeyOf[r] /\ i \in Key \ Run))
  <2>1. KeyOf[r] \in Key \ Run
    BY <1>2, IdsAreIds
  <2>2. i = r \/ i = KeyOf[r]
    BY <1>3 DEF Ids, Asked
  <2> HIDE DEF r
  <2> QED
    BY <1>2, <2>1, <2>2
<1>5. claims[i] \in Claimed
  BY <1>3, <1>4 DEF NotifyInv, TypeOK
<1>6. claims[i].device \in hook[h].entitled
  BY <1>1, <1>3 DEF OfCall
<1>7. Opens(r, claims[i].route)
  BY <1>2, <1>3, <1>4 DEF NotifyInv, RouteInv, Opens, LiveAt
<1> QED
  BY <1>3, <1>5, <1>6, <1>7

\* A hook call ends.
LEMMA HookEnds ==
    ASSUME NotifyInv, NEW h \in Hook, Ends(h),
           UNCHANGED <<now, claims, keyless, deviceVars, calls>>,
           gate' \in [Slots -> Nat \union {Never}], settled' \subseteq 1 .. calls,
           faults' \in 0 .. MaxFaults
    PROVE  NotifyInv'
BY HookMoves DEF Ends

\* The stage of a hook call alone changes.
LEMMA HookBecomes ==
    ASSUME NotifyInv, NEW h \in Hook, NEW stage \in {"lookup", "raised", "send"},
           hook[h].stage \in {"gate", "lookup"}, Becomes(h, stage),
           stage = "send" => hook[h].devices \cap revoked = {},
           UNCHANGED <<now, claims, keyless, deviceVars, calls>>,
           gate' \in [Slots -> Nat \union {Never}], settled' \subseteq 1 .. calls,
           faults' \in 0 .. MaxFaults
    PROVE  NotifyInv'
<1> DEFINE one == [hook[h] EXCEPT !.stage = stage]
<1>1. hook[h] \in Call /\ OfCall(hook[h])
  BY ActiveIsACall DEF Active
<1>2. /\ one \in Call
      /\ one.stage = stage /\ one.id = hook[h].id /\ one.clock = hook[h].clock
      /\ one.barred = hook[h].barred /\ one.devices = hook[h].devices
      /\ one.run = hook[h].run /\ one.kind = hook[h].kind
      /\ one.entitled = hook[h].entitled /\ one.route = hook[h].route
  BY <1>1 DEF Call
<1>3. hook' = [hook EXCEPT ![h] = one]
  BY DEF Becomes
<1> HIDE DEF one
<1>4. OfCall(one)
  BY <1>1, <1>2 DEF OfCall
<1> QED
  BY <1>2, <1>3, <1>4, HookMoves

\* A call sends to one device fewer, or is over.
LEMMA HookServes ==
    ASSUME NotifyInv, NEW h \in Hook, NEW d \in Device, hook[h].stage = "send", Served(h, d),
           UNCHANGED <<now, claims, keyless, deviceVars, calls, gate>>,
           settled' \subseteq 1 .. calls, faults' \in 0 .. MaxFaults
    PROVE  NotifyInv'
<1> DEFINE one == [hook[h] EXCEPT !.devices = @ \ {d}]
<1>1. hook[h] \in Call /\ OfCall(hook[h]) /\ gate \in [Slots -> Nat \union {Never}]
  BY ActiveIsACall DEF Active, NotifyInv, TypeOK
<1>2. /\ one \in Call
      /\ one.stage = "send" /\ one.id = hook[h].id /\ one.clock = hook[h].clock
      /\ one.barred = hook[h].barred /\ one.devices \subseteq hook[h].devices
      /\ one.run = hook[h].run /\ one.kind = hook[h].kind
      /\ one.entitled = hook[h].entitled /\ one.route = hook[h].route
  BY <1>1 DEF Call
<1>3. hook' = [hook EXCEPT ![h] = Quiet] \/ hook' = [hook EXCEPT ![h] = one]
  <2>1. hook' = [hook EXCEPT ![h] = IF hook[h].devices = {d} THEN Quiet ELSE one]
    BY DEF Served
  <2> HIDE DEF one
  <2>2. CASE hook[h].devices = {d}
    BY <2>1, <2>2
  <2>3. CASE hook[h].devices # {d}
    BY <2>1, <2>3
  <2> QED
    BY <2>2, <2>3
<1> HIDE DEF one
<1>4. OfCall(one)
  BY <1>1, <1>2 DEF OfCall
<1> QED
  BY <1>1, <1>2, <1>3, <1>4, HookMoves

\* What a step of a hook call settles is a call that was made.
LEMMA SettledCalls ==
    ASSUME NotifyInv, NEW h \in Hook, Active(h)
    PROVE  settled \union {hook[h].id} \subseteq 1 .. calls
BY ActiveIsACall DEF NotifyInv, TypeOK, OfCall

\* What the gate remembers at any reading is a gate.
LEMMA RememberedType ==
    ASSUME NotifyInv, NEW time
    PROVE  Remembered(time) \in [Slots -> Nat \union {Never}]
BY DEF Remembered, NotifyInv, TypeOK

\* No step of a hook call breaks the invariant.
LEMMA HookStepKeeps ==
    ASSUME NotifyInv, NEW h \in Hook, HookStep(h)
    PROVE  NotifyInv'
<1>0. /\ gate \in [Slots -> Nat \union {Never}] /\ settled \subseteq 1 .. calls
      /\ faults \in 0 .. MaxFaults /\ MaxFaults \in Nat
  BY SessionNotifyAssumption DEF NotifyInv, TypeOK
<1>f. Fault => faults' \in 0 .. MaxFaults
  BY <1>0 DEF Fault
<1>s. Active(h) => settled \union {hook[h].id} \subseteq 1 .. calls
  BY SettledCalls
<1>1. CASE Resolve(h)
  <2>1. hook[h] \in Call /\ OfCall(hook[h])
    BY <1>1, ActiveIsACall DEF Resolve, Active
  <2>2. CASE Hit(h) = NoClaim
    BY <1>0, <1>1, <2>2, HookEnds DEF Resolve, Ends, memoryVars
  <2>3. CASE Hit(h) # NoClaim
    <3> DEFINE stage == IF hook[h].kind = "clarify" THEN "gate" ELSE "lookup"
               one == [hook[h] EXCEPT !.stage = stage, !.devices = {Hit(h).device},
                                      !.route = Hit(h).route, !.clock = now]
    <3>1. /\ Hit(h).device \in Device /\ Hit(h).route \in Key \union Run /\ now \in Nat
          /\ Hit(h).device \in hook[h].entitled
          /\ Opens(hook[h].run, Hit(h).route)
      BY <1>1, <2>3, HitIsAClaim DEF Resolve, NotifyInv, TypeOK
    <3>2. hook' = [hook EXCEPT ![h] = one]
      BY <1>1, <2>3 DEF Resolve
    <3>3. /\ one \in Call
          /\ one.stage \in {"gate", "lookup"} /\ one.id = hook[h].id /\ one.clock = now
          /\ one.barred = hook[h].barred /\ one.devices = {Hit(h).device}
          /\ one.run = hook[h].run /\ one.kind = hook[h].kind
          /\ one.entitled = hook[h].entitled /\ one.route = Hit(h).route
      BY <2>1, <3>1 DEF Call
    <3> HIDE DEF one
    <3>4. OfCall(one)
      BY <2>1, <3>1, <3>3 DEF OfCall
    <3> QED
      BY <1>0, <1>1, <3>2, <3>3, <3>4, HookMoves DEF Resolve, memoryVars
  <2> QED
    BY <2>2, <2>3
<1>2. CASE GateAllows(h)
  <2>1. gate' \in [Slots -> Nat \union {Never}]
    <3>1. hook[h].clock \in Nat
      BY <1>2, ActiveIsACall DEF GateAllows, Active, Call
    <3> QED
      BY <1>2, <3>1, RememberedType DEF GateAllows
  <2> QED
    BY <1>0, <1>2, <2>1, HookBecomes DEF GateAllows
<1>3. CASE GateRefuses(h)
  BY <1>0, <1>s, <1>3, RememberedType, HookEnds DEF GateRefuses, Settle, Active
<1>4. CASE LookUp(h)
  <2>1. CASE hook[h].devices \subseteq Reachable
    <3>1. hook[h].devices \cap revoked = {}
      BY <2>1 DEF Reachable
    <3> QED
      BY <1>0, <1>4, <2>1, <3>1, HookBecomes DEF LookUp, memoryVars
  <2>2. CASE ~(hook[h].devices \subseteq Reachable)
    BY <1>0, <1>s, <1>4, <2>2, HookEnds DEF LookUp, Settle, Active, memoryVars
  <2> QED
    BY <2>1, <2>2
<1>5. CASE LookUpRaises(h)
  <2>1. CASE hook[h].kind = "clarify"
    BY <1>0, <1>f, <1>s, <1>5, <2>1, HookEnds DEF LookUpRaises, Settle, Active, memoryVars
  <2>2. CASE hook[h].kind # "clarify"
    BY <1>0, <1>f, <1>s, <1>5, <2>2, HookBecomes DEF LookUpRaises, Settle, Active, memoryVars
  <2> QED
    BY <2>1, <2>2
<1>6. CASE RaisedReturns(h)
  BY <1>0, <1>6, HookEnds DEF RaisedReturns, memoryVars
<1>7. CASE ListDevices(h)
  <2>1. hook[h] \in Call /\ OfCall(hook[h]) /\ Reachable \subseteq Device
    BY <1>7, ActiveIsACall DEF ListDevices, Active, Reachable, NotifyInv, TypeOK
  <2>2. CASE Reachable = {}
    BY <1>0, <1>7, <2>2, HookEnds DEF ListDevices, Ends, memoryVars
  <2>3. CASE Reachable # {}
    <3> DEFINE one == [hook[h] EXCEPT !.stage = "send", !.devices = Reachable]
    <3>1. hook' = [hook EXCEPT ![h] = one]
      BY <1>7, <2>3 DEF ListDevices
    <3>2. /\ one \in Call
          /\ one.stage = "send" /\ one.id = hook[h].id /\ one.clock = hook[h].clock
          /\ one.barred = hook[h].barred /\ one.devices = Reachable
          /\ one.kind = hook[h].kind
      BY <2>1 DEF Call
    <3> HIDE DEF one
    <3>3. one.kind = "cron"
      BY <1>7, <2>1, <3>2 DEF ListDevices, OfCall
    <3>4. OfCall(one)
      BY <2>1, <3>2, <3>3 DEF OfCall, Reachable
    <3> QED
      BY <1>0, <1>7, <3>1, <3>2, <3>4, HookMoves DEF ListDevices, memoryVars
  <2> QED
    BY <2>2, <2>3
<1>8. CASE ListFails(h)
  BY <1>0, <1>f, <1>s, <1>8, HookEnds DEF ListFails, Settle, Active, memoryVars
<1>9. ASSUME NEW d \in Device, Send(h, d) \/ SendFails(h, d)
      PROVE  NotifyInv'
  BY <1>0, <1>f, <1>s, <1>9, HookServes DEF Send, SendFails, Settle, Active, memoryVars
<1> QED
  BY <1>1, <1>2, <1>3, <1>4, <1>5, <1>6, <1>7, <1>8, <1>9 DEF HookStep

\* A claim entitles its device in every call it concerns.
LEMMA ClaimKeeps ==
    ASSUME NotifyInv, NEW d \in Device, NEW r \in Run, NEW named \in SUBSET Ids(r) \ {{}},
           Claim(d, r, named)
    PROVE  NotifyInv'
<1> USE DEF NotifyInv
<1>0. PICK new :
          /\ new \in Claimed /\ new.device = d /\ new.route = RouteOf(r, named)
          /\ claims' = [i \in Run \union Key |-> IF i \in named THEN new ELSE claims[i]]
  <2>1. PICK read \in Time :
            claims' = [i \in Run \union Key |->
                IF i \in named
                THEN [device |-> d, route |-> RouteOf(r, named), expires |-> read + TTL]
                ELSE claims[i]]
    BY DEF Claim
  <2>2. RouteOf(r, named) \in Key \union Run /\ read + TTL \in Nat
    BY IdsAreIds, SessionNotifyAssumption DEF RouteOf
  <2> QED
    BY <2>1, <2>2
<1>1. KeyOf[r] \in Key \ Run /\ r \in Run \ Key /\ named \subseteq Ids(r)
  BY IdsAreIds, SessionNotifyAssumption
<1>2. \A i \in Run \union Key : claims'[i] = IF i \in named THEN new ELSE claims[i]
  BY <1>0
<1>3. claims' \in [Run \union Key -> Claimed \union {NoClaim}]
  BY <1>0 DEF TypeOK
<1>4. /\ UNCHANGED <<now, gate, registered, revoked, calls, settled, faults>>
      /\ keyless \subseteq keyless' /\ keyless' \subseteq Run
      /\ Opens(r, new.route)'
  BY <1>0 DEF Claim, TypeOK, Opens, RouteOf
<1>5. ASSUME NEW h \in Hook, Active(h)
      PROVE  /\ hook'[h] \in Call
             /\ hook'[h].stage = hook[h].stage /\ hook'[h].id = hook[h].id
             /\ hook'[h].clock = hook[h].clock /\ hook'[h].barred = hook[h].barred
             /\ hook'[h].devices = hook[h].devices /\ hook'[h].run = hook[h].run
             /\ hook'[h].kind = hook[h].kind /\ hook'[h].route = hook[h].route
             /\ hook[h].entitled \subseteq hook'[h].entitled
             /\ Asked(hook[h].kind, hook[h].run) \cap named # {} => d \in hook'[h].entitled
  <2>1. hook[h] \in Call
    BY <1>5, ActiveIsACall
  <2>2. CASE Asked(hook[h].kind, hook[h].run) \cap named # {}
    <3>1. hook'[h] = [hook[h] EXCEPT !.entitled = @ \union {d}]
      BY <1>5, <2>2 DEF Claim
    <3> QED
      BY <2>1, <3>1 DEF Call
  <2>3. CASE Asked(hook[h].kind, hook[h].run) \cap named = {}
    <3>1. hook'[h] = hook[h]
      BY <1>5, <2>3 DEF Claim
    <3> QED
      BY <2>1, <2>3, <3>1
  <2> QED
    BY <2>2, <2>3
<1>6. ASSUME NEW h \in Hook, ~Active(h)
      PROVE  hook'[h] = Quiet
  BY <1>6, ActiveIsACall DEF Claim
<1>7. ASSUME NEW h \in Hook, Active(h)
      PROVE  OfCall(hook[h])'
  <2>1. hook[h] \in Call /\ OfCall(hook[h]) /\ hook[h].run \in Run
    BY <1>7, ActiveIsACall DEF Call
  <2>2. ASSUME NEW i \in Asked(hook[h].kind, hook[h].run), LiveAt(i, hook[h].clock)',
               hook[h].stage = "resolve"
        PROVE  claims'[i].device \in hook'[h].entitled
    <3>1. i \in Run \union Key
      BY <2>1, IdsAreIds
    <3>2. CASE i \in named
      <4>1. claims'[i].device = d
        BY <1>0, <1>2, <3>1, <3>2
      <4> QED
        BY <1>5, <1>7, <3>2, <4>1
    <3>3. CASE i \notin named
      <4>1. claims'[i] = claims[i]
        BY <1>2, <3>1, <3>3
      <4>2. LiveAt(i, hook[h].clock)
        BY <1>5, <1>7, <2>2, <4>1 DEF LiveAt
      <4>3. claims[i].device \in hook[h].entitled
        BY <2>1, <2>2, <4>2 DEF OfCall
      <4> QED
        BY <1>5, <1>7, <4>1, <4>3
    <3> QED
      BY <3>2, <3>3
  <2> QED
    BY <1>4, <1>5, <1>7, <2>1, <2>2 DEF OfCall, Asked, Ids, Opens
<1>8. CallInv' 
  <2>1. ASSUME NEW h \in Hook, Active(h)'
        PROVE  Active(h)
    BY <1>6, <2>1, QuietIsNoCall DEF Active
  <2> QED
    BY <1>7, <2>1 DEF CallInv
<1>9. TypeOK'
  <2>1. hook' \in [Hook -> Call \union {Quiet}]
    <3>1. \A h \in Hook : hook'[h] \in Call \union {Quiet}
      BY <1>5, <1>6
    <3>2. hook' = [h \in Hook |-> hook'[h]]
      BY DEF Claim
    <3> QED
      BY <3>1, <3>2
  <2>2. \A h \in Hook : hook'[h].stage \in {"gate", "lookup"} =>
            \E e \in Device : hook'[h].devices = {e}
    BY <1>5, <1>6, QuietIsNoCall DEF TypeOK
  <2>3. requests' \in 0 .. MaxRequests
    BY SessionNotifyAssumption DEF Claim, Requested, TypeOK
  <2> QED
    BY <1>3, <1>4, <2>1, <2>2, <2>3 DEF TypeOK
<1>10. RouteInv'
  <2>1. ASSUME NEW i \in Run, claims'[i] # NoClaim
        PROVE  Opens(i, claims[i].route)'
    <3>1. CASE i \in named
      <4>1. i = r
        BY <1>1, <2>1, <3>1 DEF Ids
      <4> QED
        BY <1>2, <1>4, <3>1, <4>1 DEF Opens
    <3>2. CASE i \notin named
      BY <1>2, <1>4, <2>1, <3>2 DEF RouteInv, Opens
    <3> QED
      BY <3>1, <3>2
  <2>2. ASSUME NEW k \in Key, claims'[k] # NoClaim
        PROVE  claims'[k].route = k
    <3>1. CASE k \in named
      <4>1. k = KeyOf[r]
        BY <1>1, <2>2, <3>1 DEF Ids
      <4> QED
        BY <1>0, <1>2, <3>1, <4>1 DEF RouteOf
    <3>2. CASE k \notin named
      BY <1>2, <2>2, <3>2 DEF RouteInv
    <3> QED
      BY <3>1, <3>2
  <2> QED
    BY <2>1, <2>2 DEF RouteInv
<1> QED
  BY <1>8, <1>9, <1>10

\* A hook call starts with the claims and the revocations of that moment.
LEMMA CallKeeps ==
    ASSUME NotifyInv, NEW h \in Hook, NEW kind \in Kinds, NEW r \in Run, CallHook(h, kind, r)
    PROVE  NotifyInv'
<1> USE DEF NotifyInv
<1> DEFINE stage == IF kind = "cron" THEN "list" ELSE "resolve"
<1>0. PICK one : one = [stage |-> stage, kind |-> kind, run |-> r,
                        id |-> calls + 1, clock |-> now, devices |-> {}, route |-> KeyOf[r],
                        entitled |-> Claimants(kind, r), barred |-> revoked]
  OBVIOUS
<1>1. /\ hook' = [hook EXCEPT ![h] = one] /\ calls' = calls + 1 /\ calls < MaxCalls
      /\ UNCHANGED <<now, claims, keyless, gate, registered, revoked, requests, settled, faults>>
  BY <1>0 DEF CallHook, memoryVars, deviceVars
<1>2. now \in Nat /\ calls \in Nat /\ calls' \in 0 .. MaxCalls
  BY <1>1, SessionNotifyAssumption DEF TypeOK
<1>3. \A i \in Asked(kind, r) :
          i \in Run \union Key /\ (LiveAt(i, now) => claims[i].device \in Device)
  BY IdsAreIds DEF LiveAt, TypeOK
<1>4. Claimants(kind, r) \subseteq Device /\ KeyOf[r] \in Key
  BY <1>3, IdsAreIds DEF Claimants
<1>5. /\ one \in Call
      /\ one.stage = stage /\ one.id = calls + 1 /\ one.clock = now
      /\ one.barred = revoked /\ one.devices = {} /\ one.run = r
      /\ one.kind = kind /\ one.entitled = Claimants(kind, r)
  BY <1>0, <1>2, <1>4 DEF Call, TypeOK
<1>6. OfCall(one)'
  <2>1. \A i \in Asked(kind, r) : LiveAt(i, now) => claims[i].device \in Claimants(kind, r)
    BY DEF Claimants
  <2> QED
    BY <1>1, <1>2, <1>5, <2>1 DEF OfCall, LiveAt, Asked, Ids
<1>7. ASSUME NEW c, c \in Call, OfCall(c)
      PROVE  OfCall(c)'
  BY <1>1, <1>2, <1>7 DEF OfCall, LiveAt, Call, Opens
<1>8. \A g \in Hook : hook'[g] = IF g = h THEN one ELSE hook[g]
  BY <1>1 DEF TypeOK
<1>9. CallInv'
  <2> SUFFICES ASSUME NEW g \in Hook, Active(g)'
               PROVE  OfCall(hook[g])'
    BY DEF CallInv
  <2>1. CASE g = h
    BY <1>6, <1>8, <2>1
  <2>2. CASE g # h
    <3>1. hook'[g] = hook[g] /\ Active(g)
      BY <1>8, <2>2 DEF Active
    <3> QED
      BY <1>7, <3>1, ActiveIsACall
  <2> QED
    BY <2>1, <2>2
<1>10. TypeOK'
  <2>1. hook' \in [Hook -> Call \union {Quiet}]
    BY <1>1, <1>5 DEF TypeOK
  <2>2. \A g \in Hook : hook'[g].stage \in {"gate", "lookup"} =>
            \E e \in Device : hook'[g].devices = {e}
    BY <1>5, <1>8 DEF TypeOK
  <2>3. settled' \subseteq 1 .. calls'
    BY <1>1, <1>2 DEF TypeOK
  <2> QED
    BY <1>1, <1>2, <2>1, <2>2, <2>3 DEF TypeOK
<1>11. RouteInv'
  BY <1>1 DEF RouteInv, Opens
<1> QED
  BY <1>9, <1>10, <1>11

\* Every step keeps the invariant.
LEMMA NotifyStep == NotifyInv /\ [Next]_vars => NotifyInv'
<1> SUFFICES ASSUME NotifyInv, [Next]_vars
             PROVE  NotifyInv'
  OBVIOUS
<1>0. /\ TypeOK /\ MaxRequests \in Nat /\ MaxFaults \in Nat
      /\ \A h \in Hook : Active(h) => hook[h].id \in 1 .. calls
  BY ActiveIsACall, SessionNotifyAssumption DEF NotifyInv, OfCall
<1>1. ASSUME NEW d \in Device, RegisterPush(d) \/ RevokeDevice(d)
      PROVE  NotifyInv'
  <2>1. /\ UNCHANGED <<now, claims, keyless, gate, hook, calls, settled, faults>>
        /\ registered' \subseteq Device /\ revoked' \subseteq Device
        /\ revoked \subseteq revoked'
        /\ requests' \in 0 .. MaxRequests
    BY <1>0, <1>1 DEF RegisterPush, RevokeDevice, Requested, TypeOK, memoryVars
  <2>2. TypeOK'
    BY <1>0, <2>1 DEF TypeOK
  <2>3. CallInv' /\ RouteInv'
    BY <2>1 DEF NotifyInv, CallInv, RouteInv, OfCall, Active, LiveAt, Opens
  <2> QED
    BY <2>2, <2>3 DEF NotifyInv
<1>2. ASSUME NEW d \in Device, NEW r \in Run, NEW named \in SUBSET Ids(r) \ {{}},
             Claim(d, r, named)
      PROVE  NotifyInv'
  BY <1>2, ClaimKeeps
<1>3. ASSUME NEW h \in Hook, HookStep(h)
      PROVE  NotifyInv'
  BY <1>3, HookStepKeeps
<1>4. ASSUME NEW h \in Hook, NEW kind \in Kinds, NEW r \in Run, CallHook(h, kind, r)
      PROVE  NotifyInv'
  BY <1>4, CallKeeps
<1>5. CASE Restart
  <2>1. /\ UNCHANGED <<now, keyless, registered, revoked, requests, calls>>
        /\ claims' = [i \in Run \union Key |-> NoClaim]
        /\ gate' = [slot \in Slots |-> Never]
        /\ hook' = [h \in Hook |-> Quiet]
        /\ faults' \in 0 .. MaxFaults
    BY <1>0, <1>5 DEF Restart, Fault, deviceVars, TypeOK
  <2>2. settled' \subseteq 1 .. calls
    BY <1>0, <1>5 DEF Restart, TypeOK
  <2>3. TypeOK'
    BY <1>0, <2>1, <2>2, QuietIsNoCall DEF TypeOK
  <2>4. CallInv' /\ RouteInv'
    BY <2>1, QuietIsNoCall DEF CallInv, RouteInv, Active
  <2> QED
    BY <2>3, <2>4 DEF NotifyInv
<1>6. CASE Tick
  <2>1. /\ UNCHANGED <<claims, keyless, gate, registered, revoked, requests, hook, calls, settled,
                       faults>>
        /\ now' = now + 1 /\ now \in Nat
    BY <1>0, <1>6 DEF Tick, memoryVars, deviceVars, TypeOK
  <2>2. TypeOK'
    BY <1>0, <2>1 DEF TypeOK
  <2>3. \A h \in Hook : Active(h) => hook[h].clock \in Nat
    BY ActiveIsACall DEF Call
  <2>4. CallInv' /\ RouteInv'
    BY <2>1, <2>3 DEF NotifyInv, CallInv, RouteInv, OfCall, Active, LiveAt, Opens
  <2> QED
    BY <2>2, <2>4 DEF NotifyInv
<1>7. CASE UNCHANGED vars
  <2>1. UNCHANGED <<now, claims, keyless, gate, registered, revoked, hook, requests, calls, settled,
                   faults>>
    BY <1>7 DEF vars
  <2>2. TypeOK'
    BY <1>0, <2>1 DEF TypeOK
  <2>3. CallInv' /\ RouteInv'
    BY <2>1 DEF NotifyInv, CallInv, RouteInv, OfCall, Active, LiveAt, Opens
  <2> QED
    BY <2>2, <2>3 DEF NotifyInv
<1> QED
  BY <1>1, <1>2, <1>3, <1>4, <1>5, <1>6, <1>7 DEF Next

\* Every reachable state of the registry and of the hook calls.
THEOREM NotifyInvariant == Spec => []NotifyInv
BY NotifyInitially, NotifyStep, PTL DEF Spec

\* Every variable has its type; a call in the gate or the lookup has one device.
THEOREM NotifyTypes == Spec => []TypeOK
<1>1. NotifyInv => TypeOK
  BY DEF NotifyInv
<1> QED
  BY <1>1, NotifyInvariant, PTL

\* A push about a session goes to a device whose claim of an id the hook names was
\* live when the hook was called or that claimed one since.  It opens the session
\* by its stored key, or by the live id where a claim came without the key.
THEOREM PushesGoToClaimants == Spec => []PushesFollowClaims
<1>1. NotifyInv => PushesFollowClaims
  <2> SUFFICES ASSUME NotifyInv, NEW h \in Hook, hook[h].stage = "send", hook[h].kind # "cron"
               PROVE  hook[h].devices \subseteq hook[h].entitled
                      /\ Opens(hook[h].run, hook[h].route)
    BY DEF PushesFollowClaims, Opens
  <2> QED
    BY ActiveIsACall DEF Active, OfCall
<1> QED
  BY <1>1, NotifyInvariant, PTL

\* No hook called after a device was revoked sends it anything.
THEOREM RevokedAreSilent == Spec => []RevokedHearNothing
<1>1. NotifyInv => RevokedHearNothing
  <2> SUFFICES ASSUME NotifyInv, NEW h \in Hook, hook[h].stage = "send"
               PROVE  hook[h].devices \cap hook[h].barred = {}
    BY DEF RevokedHearNothing
  <2> QED
    BY ActiveIsACall DEF Active, OfCall
<1> QED
  BY <1>1, NotifyInvariant, PTL

----------------------------------------------------------------------------
(***************************************************************************)
(* The questions the gate let through.                                     *)
(***************************************************************************)
\* A question the gate let through.
Question == [id : Nat, slot : Slots, at : Nat, waited : Nat]

\* The gate still has a question's reading, or a later one, or the clock is past
\* the time for which it would have.
KeptInv ==
    /\ admitted \subseteq Question
    /\ \A a \in admitted : gate[a.slot] >= a.at \/ now >= a.at + GateMemory

\* The inductive invariant of the gate.
GateInv == KeptInv /\ QuestionsAreSpaced

\* The slot of a call at the gate.
LEMMA SlotType ==
    ASSUME NotifyInv, NEW h \in Hook, hook[h].stage = "gate"
    PROVE  SlotOf(h) \in Slots /\ hook[h].clock \in Nat /\ hook[h].clock <= now
           /\ hook[h].id \in Nat
<1>1. hook[h] \in Call /\ OfCall(hook[h])
  BY ActiveIsACall DEF Active
<1>2. (CHOOSE d \in hook[h].devices : TRUE) \in Device /\ hook[h].route \in Key \union Run
  BY <1>1 DEF Call, OfCall
<1> QED
  BY <1>1, <1>2 DEF SlotOf, Slots, OfCall, Call

\* What the gate forgets at a reading is a memory older than it keeps them.
LEMMA ForgetsTheOld ==
    ASSUME NotifyInv, KeptInv, NEW time \in Nat, time <= now, NEW a \in admitted
    PROVE  Remembered(time)[a.slot] >= a.at \/ now >= a.at + GateMemory
<1>1. a \in Question /\ gate[a.slot] \in Nat \union {Never} /\ now \in Nat /\ GateMemory \in Nat
  BY SessionNotifyAssumption DEF KeptInv, NotifyInv, TypeOK, Question
<1>2. a.at \in Nat /\ a.slot \in Slots
  BY <1>1 DEF Question
<1>3. Remembered(time)[a.slot] = IF time - gate[a.slot] < GateMemory THEN gate[a.slot] ELSE Never
  BY <1>2 DEF Remembered
<1> QED
  BY <1>1, <1>2, <1>3 DEF KeptInv, Never

\* A question the gate lets through is a cooldown from every earlier one of its
\* slot that the gate could have remembered.
LEMMA AllowedIsSpaced ==
    ASSUME NotifyInv, GateInv, NEW h \in Hook, GateAllows(h)
    PROVE  GateInv'
<1> DEFINE clock == hook[h].clock
           last == Remembered(clock)[SlotOf(h)]
<1>0. PICK new : new = [id |-> hook[h].id, slot |-> SlotOf(h), at |-> clock,
                        waited |-> now - clock]
  OBVIOUS
<1>1. /\ last = Never \/ clock - last >= Cooldown
      /\ gate' = [Remembered(clock) EXCEPT ![SlotOf(h)] = clock]
      /\ admitted' = admitted \union {new}
      /\ now' = now
      /\ hook[h].stage = "gate"
  BY <1>0 DEF GateAllows
<1>2. SlotOf(h) \in Slots /\ clock \in Nat /\ clock <= now /\ hook[h].id \in Nat /\ now \in Nat
  BY <1>1, SlotType DEF NotifyInv, TypeOK
<1>3. /\ new \in Question /\ new.slot = SlotOf(h) /\ new.at = clock /\ new.waited = now - clock
  BY <1>0, <1>2 DEF Question
<1>4. Remembered(clock) \in [Slots -> Nat \union {Never}]
  BY RememberedType
<1>5. ASSUME NEW a \in admitted
      PROVE  a.at \in Nat /\ a.slot \in Slots /\ a.waited \in Nat
  BY <1>5 DEF GateInv, KeptInv, Question
<1>6. Cooldown \in Nat /\ GateMemory \in Nat /\ Cooldown <= GateMemory
  BY SessionNotifyAssumption
<1>7. ASSUME NEW a \in admitted, a.slot = SlotOf(h)
      PROVE  /\ clock - a.at >= Cooldown \/ new.waited > GateMemory - Cooldown
             /\ clock >= a.at \/ now >= a.at + GateMemory
  <2>1. Remembered(clock)[a.slot] >= a.at \/ now >= a.at + GateMemory
    BY <1>2, ForgetsTheOld DEF GateInv
  <2>2. last = Never \/ last \in Nat
    BY <1>2, <1>4
  <2> HIDE DEF last, clock
  <2>3. CASE last >= a.at
    BY <1>1, <1>2, <1>5, <1>6, <2>2, <2>3 DEF Never
  <2>4. CASE now >= a.at + GateMemory
    BY <1>2, <1>3, <1>5, <1>6, <2>4
  <2>5. last >= a.at \/ now >= a.at + GateMemory
    BY <1>7, <2>1 DEF last, clock
  <2> QED
    BY <2>3, <2>4, <2>5
<1>8. KeptInv'
  <2>1. admitted' \subseteq Question
    BY <1>1, <1>3 DEF GateInv, KeptInv
  <2>2. ASSUME NEW a \in admitted
        PROVE  gate'[a.slot] >= a.at \/ now >= a.at + GateMemory
    <3>1. CASE a.slot = SlotOf(h)
      BY <1>1, <1>2, <1>4, <1>7, <3>1
    <3>2. CASE a.slot # SlotOf(h)
      <4>1. gate'[a.slot] = Remembered(clock)[a.slot]
        BY <1>1, <1>4, <1>5, <3>2
      <4> QED
        BY <1>2, <4>1, ForgetsTheOld DEF GateInv
    <3> QED
      BY <3>1, <3>2
  <2>3. gate'[new.slot] >= new.at
    BY <1>1, <1>2, <1>3, <1>4
  <2> QED
    BY <1>1, <2>1, <2>2, <2>3 DEF KeptInv
<1>9. QuestionsAreSpaced'
  <2> SUFFICES ASSUME NEW a \in admitted', NEW b \in admitted', a # b, a.slot = b.slot
               PROVE  \/ a.at - b.at >= Cooldown
                      \/ b.at - a.at >= Cooldown
                      \/ a.waited > GateMemory - Cooldown
                      \/ b.waited > GateMemory - Cooldown
    BY DEF QuestionsAreSpaced
  <2>1. CASE a \in admitted /\ b \in admitted
    BY <2>1 DEF GateInv, QuestionsAreSpaced
  <2>2. CASE a = new /\ b \in admitted
    BY <1>3, <1>7, <2>2
  <2>3. CASE b = new /\ a \in admitted
    BY <1>3, <1>7, <2>3
  <2> QED
    BY <1>1, <2>1, <2>2, <2>3
<1> QED
  BY <1>8, <1>9 DEF GateInv

\* A question the gate refuses makes it forget only what is old.
LEMMA RefusalKeepsGate ==
    ASSUME NotifyInv, GateInv, NEW h \in Hook, GateRefuses(h)
    PROVE  GateInv'
<1>1. /\ gate' = Remembered(hook[h].clock) /\ UNCHANGED <<now, admitted>>
      /\ hook[h].stage = "gate"
  BY DEF GateRefuses
<1>2. hook[h].clock \in Nat /\ hook[h].clock <= now
  BY <1>1, SlotType
<1>3. KeptInv'
  BY <1>1, <1>2, ForgetsTheOld DEF GateInv, KeptInv
<1> QED
  BY <1>1, <1>3 DEF GateInv, QuestionsAreSpaced

\* No step brings two questions of a slot closer.
LEMMA GateStep ==
    ASSUME NotifyInv, GateInv, [Next]_vars
    PROVE  GateInv'
<1>1. CASE UNCHANGED <<gate, admitted>> /\ now' \in {now, now + 1}
  <2>1. now \in Nat /\ GateMemory \in Nat /\ \A a \in admitted : a.at \in Nat
    BY SessionNotifyAssumption DEF NotifyInv, TypeOK, GateInv, KeptInv, Question
  <2> QED
    BY <1>1, <2>1 DEF GateInv, KeptInv, QuestionsAreSpaced
<1>2. CASE Restart
  BY <1>2 DEF Restart, GateInv, KeptInv, QuestionsAreSpaced
<1>3. ASSUME NEW h \in Hook, HookStep(h)
      PROVE  GateInv'
  <2>1. CASE GateAllows(h)
    BY <2>1, AllowedIsSpaced
  <2>2. CASE GateRefuses(h)
    BY <2>2, RefusalKeepsGate
  <2>3. CASE ~GateAllows(h) /\ ~GateRefuses(h)
    <3>1. UNCHANGED <<now, gate, admitted>>
      BY <1>3, <2>3 DEF HookStep, memoryVars, Resolve, LookUp, LookUpRaises, RaisedReturns,
         ListDevices, ListFails, Send, SendFails
    <3> QED
      BY <1>1, <3>1
  <2> QED
    BY <2>1, <2>2, <2>3
<1>4. ASSUME NEW d \in Device, NEW r \in Run, NEW named \in SUBSET Ids(r) \ {{}},
             Claim(d, r, named)
      PROVE  GateInv'
  BY <1>1, <1>4 DEF Claim
<1>5. ASSUME NEW d \in Device, RegisterPush(d) \/ RevokeDevice(d)
      PROVE  GateInv'
  BY <1>1, <1>5 DEF RegisterPush, RevokeDevice, memoryVars
<1>6. ASSUME NEW h \in Hook, NEW kind \in Kinds, NEW r \in Run, CallHook(h, kind, r)
      PROVE  GateInv'
  BY <1>1, <1>6 DEF CallHook, memoryVars
<1>7. CASE Tick \/ UNCHANGED vars
  BY <1>1, <1>7 DEF Tick, vars, memoryVars
<1> QED
  BY <1>2, <1>3, <1>4, <1>5, <1>6, <1>7 DEF Next

\* Two questions of one session reach one device a cooldown apart, whatever order
\* their clock readings reach the gate in, unless one of them waited so long for
\* the gate's lock that the gate had forgotten the other.
THEOREM QuestionsStaySpaced == Spec => []QuestionsAreSpaced
<1>1. Init => GateInv
  BY DEF Init, GateInv, KeptInv, QuestionsAreSpaced
<1>2. GateInv => QuestionsAreSpaced
  BY DEF GateInv
<1>3. NotifyInv /\ GateInv /\ [Next]_vars => GateInv'
  BY GateStep
<1> QED
  BY <1>1, <1>2, <1>3, NotifyInvariant, PTL DEF Spec

=============================================================================
