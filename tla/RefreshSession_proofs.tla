------------------------ MODULE RefreshSession_proofs ------------------------
(***************************************************************************)
(* Proofs about RefreshSession, in two parts.  The first is about every    *)
(* phone: the store holds one device, whose refresh token is the last one  *)
(* minted.  The second is about a phone that asks one request at a time and*)
(* loses at most one rotation in a row.                                    *)
(***************************************************************************)
EXTENDS RefreshSession, DeviceRecords_proofs

\* The record of the phone.
Paired == devices[Phone]

\* The store holds the phone alone; its refresh token is the last one minted,
\* its access token that one's companion, and the ones it remembers are older.
HeldInv ==
    /\ minted \in Token
    /\ Known(devices) = {Phone}
    /\ Paired.rt = minted
    /\ Paired.at \in {NoToken, minted}
    /\ \A i \in DOMAIN Paired.prevs : Paired.prevs[i] < minted

\* Between rotate_refresh and verify_access the minted pair has not expired.
RotatedInv ==
    \A r \in Request : exchange[r].stage = "rotated" =>
        /\ exchange[r].at = exchange[r].rt
        /\ exchange[r].rt <= minted
        /\ Paired.at = minted
        /\ Paired.atExp > now

\* A serial phone has at most one exchange under way.
OneAtATime ==
    serial => \A q, r \in Request : exchange[q] # Free /\ exchange[r] # Free => q = r

\* An exchange that carries a pair it minted.
HasRotation(r) == exchange[r].stage \in {"rotated", "refreshed"}

\* A request carries the cookies the phone still has, an answer the last ones minted.
SerialInv ==
    serial => \A r \in Request :
        /\ exchange[r].stage \in {"sent", "refresh"} =>
               exchange[r].rt = jar.rt /\ jar.rt # NoToken
        /\ HasRotation(r) => exchange[r].rt = minted

\* The inductive invariant of every phone.
SessionInv == TypeOK /\ HeldInv /\ RotatedInv /\ OneAtATime /\ SerialInv

\* For a store with one device, the four outcomes of rotate_refresh.
LEMMA PhoneOutcome ==
    ASSUME TypeOK, Known(devices) = {Phone}, NEW rt, NEW token
    PROVE  LET outcome == RotateRefresh(devices, rt, token, now)
           IN  \/ outcome.reply \in {"unknown", "expired"} /\ outcome.data = devices
               \/ /\ outcome.reply = "reused"
                  /\ OlderThanPrior(Paired, rt)
                  /\ ~Paired.revoked
                  /\ outcome.data = [devices EXCEPT ![Phone].revoked = TRUE]
               \/ /\ outcome.reply = "rotated"
                  /\ ~Paired.revoked
                  /\ outcome.data = [devices EXCEPT ![Phone] = Rotated(Paired, token, now)]
<1>1. CASE Holders(devices, rt) = {}
  BY <1>1 DEF RotateRefresh, Refused
<1>2. CASE Holders(devices, rt) # {}
  <2>1. Holder(devices, rt) = Phone
    BY <1>2, HolderKnown DEF TypeOK
  <2>2. RotateVerdict(Paired, rt, now) \in {"unknown", "reused", "expired", "rotated"}
    BY DEF RotateVerdict
  <2> QED
    BY <1>2, <2>1, <2>2 DEF RotateRefresh, RotateVerdict, Refused, Saved, Revoked, Paired
<1> QED
  BY <1>1, <1>2

\* What a rotation makes of a record: the token it replaces heads the history.
LEMMA RotatedFields ==
    ASSUME NEW rec \in Record, NEW token, NEW time
    PROVE  LET new == Rotated(rec, token, time)
           IN  /\ new.revoked = rec.revoked
               /\ new.rt = token
               /\ new.at = token
               /\ new.atExp = time + AccessTTL
               /\ new.prevs # <<>>
               /\ new.prevs[1] = rec.rt
               /\ \A i \in DOMAIN new.prevs : 
                     \/ new.prevs[i] = rec.rt
                     \/ \E j \in DOMAIN rec.prevs : new.prevs[i] = rec.prevs[j]
<1> DEFINE long == <<rec.rt>> \o rec.prevs
           kept == Truncate(long)
<1>1. /\ long \in Seq(Token)
      /\ Len(long) = Len(rec.prevs) + 1
      /\ long[1] = rec.rt
      /\ \A i \in 2 .. Len(long) : i - 1 \in DOMAIN rec.prevs /\ long[i] = rec.prevs[i - 1]
  BY DEF Record
<1>2. /\ Len(kept) \in 1 .. Len(long)
      /\ DOMAIN kept = 1 .. Len(kept)
      /\ \A i \in 1 .. Len(kept) : kept[i] = long[i]
  <2> HIDE DEF long
  <2>1. CASE Len(long) <= MaxPrev
    BY <1>1, <2>1 DEF Truncate, Record
  <2>2. CASE ~(Len(long) <= MaxPrev)
    <3>1. MaxPrev \in 1 .. Len(long)
      BY <1>1, <2>2, DeviceRecordsAssumption
    <3> QED
      BY <1>1, <2>2, <3>1 DEF Truncate
  <2> QED
    BY <2>1, <2>2
<1> HIDE DEF kept
<1>3. kept # <<>>
  BY <1>2
<1>4. Rotated(rec, token, time) =
        [rec EXCEPT !.prevs = kept, !.rt = token, !.rtExp = time + RefreshTTL,
                    !.at = token, !.atExp = time + AccessTTL]
  BY DEF Rotated, kept
<1> DEFINE new == Rotated(rec, token, time)
<1>5. /\ new.prevs = kept /\ new.revoked = rec.revoked /\ new.rt = token
      /\ new.at = token /\ new.atExp = time + AccessTTL
  BY <1>4 DEF Record
<1>6. \A i \in DOMAIN kept : kept[i] = rec.rt \/ \E j \in DOMAIN rec.prevs : kept[i] = rec.prevs[j]
  <2> TAKE i \in DOMAIN kept
  <2>1. CASE i = 1
    BY <1>1, <1>2, <2>1
  <2>2. CASE i # 1
    <3>1. i \in 2 .. Len(long) /\ kept[i] = long[i]
      BY <1>1, <1>2, <2>2
    <3> HIDE DEF long
    <3> QED
      BY <1>1, <3>1
  <2> QED
    BY <2>1, <2>2
<1>7. kept[1] = rec.rt
  BY <1>1, <1>2
<1> HIDE DEF new
<1> QED
  BY <1>3, <1>5, <1>6, <1>7 DEF new

\* A token, or none, is a number.
LEMMA TokenIsNumber == \A t \in Token \union {NoToken} : t \in Nat
BY DeviceRecordsAssumption DEF NoToken

\* An exchange that is not under way.
LEMMA FreeExchange == Free \in Exchange /\ Free.stage = "free"
BY DEF Free, Exchange, NoToken

\* A newly stored phone.
LEMMA SessionInitially == Init => SessionInv
<1> SUFFICES ASSUME Init PROVE SessionInv
  OBVIOUS
<1> USE RefreshSessionAssumption, DeviceRecordsAssumption
<1>1. NewRecord(1, 0) \in Record
  BY NewRecordType
<1>2. devices \in Store /\ Known(devices) = {Phone} /\ Paired = NewRecord(1, 0)
  BY <1>1, NoRecordAssumption DEF Init, Store, EmptyStore, Known, Paired
<1>3. Free \in Exchange /\ Free.stage = "free"
  BY DEF Free, Exchange, NoToken
<1>4. TypeOK
  BY <1>2, <1>3 DEF TypeOK, Init, Jar
<1>5. HeldInv
  <2>1. /\ Paired.rt = 1 /\ Paired.at = NoToken
        /\ \A i \in DOMAIN Paired.prevs : Paired.prevs[i] < 1
    BY <1>2 DEF NewRecord
  <2> QED
    BY <1>2, <2>1 DEF HeldInv, Init
<1>6. RotatedInv /\ OneAtATime /\ SerialInv
  BY <1>3 DEF Init, RotatedInv, OneAtATime, SerialInv, HasRotation
<1> QED
  BY <1>4, <1>5, <1>6 DEF SessionInv

\* A step that touches one exchange only.
LEMMA ExchangeMoves ==
    ASSUME SessionInv, NEW r \in Request, NEW one \in Exchange,
           UNCHANGED <<serial, devices, now, minted, jar>>,
           lostInRow' \in 0 .. MaxLostInRow, faults' \in 0 .. MaxFaults,
           exchange' = [exchange EXCEPT ![r] = one],
           serial /\ one # Free => \A q \in Request : q # r => exchange[q] = Free,
           one.stage # "rotated",
           serial => /\ one.stage \in {"sent", "refresh"} => one.rt = jar.rt /\ jar.rt # NoToken
                     /\ one.stage = "refreshed" => one.rt = minted
    PROVE  SessionInv'
<1> USE DEF SessionInv
<1>1. TypeOK'
  BY DEF TypeOK
<1>2. HeldInv' /\ RotatedInv'
  BY DEF HeldInv, RotatedInv, Paired, TypeOK
<1>3. OneAtATime'
  BY DEF OneAtATime, TypeOK
<1>4. SerialInv'
  BY DEF SerialInv, TypeOK, HasRotation
<1> QED
  BY <1>1, <1>2, <1>3, <1>4

\* The phone's record is revoked and nothing else in the store changes.
LEMMA RevocationMoves ==
    ASSUME SessionInv, devices' = [devices EXCEPT ![Phone].revoked = TRUE]
    PROVE  /\ devices' \in Store
           /\ Known(devices') = {Phone}
           /\ Paired' = [Paired EXCEPT !.revoked = TRUE]
<1>1. Phone \in Known(devices) /\ devices \in Store
  BY DEF SessionInv, HeldInv, TypeOK
<1>2. devices' = Revoked(devices, Phone)
  BY DEF Revoked
<1>3. devices' \in Store
  BY <1>1, <1>2, RevokedType
<1>4. Paired \in Record /\ [Paired EXCEPT !.revoked = TRUE] \in Record
  BY <1>1, KnownRecord DEF Paired, Record
<1>5. Paired' = [Paired EXCEPT !.revoked = TRUE]
  BY <1>1, RefreshSessionAssumption DEF Paired, Store
<1>6. \A d \in Device : d # Phone => devices'[d] = devices[d]
  BY <1>1 DEF Store
<1>7. Known(devices') = {Phone}
  BY <1>1, <1>4, <1>5, <1>6, NoRecordAssumption DEF Known, SessionInv, HeldInv, Paired
<1> QED
  BY <1>3, <1>5, <1>7

\* A revocation, whichever exchange may also move on to its answer.
LEMMA RevocationKeeps ==
    ASSUME SessionInv, devices' = [devices EXCEPT ![Phone].revoked = TRUE],
           UNCHANGED <<serial, now, minted, jar, faults, lostInRow>>,
           \/ UNCHANGED exchange
           \/ \E r \in Request, why \in {"unknown", "reused", "expired"} :
                 /\ exchange[r] # Free
                 /\ exchange' = [exchange EXCEPT ![r].stage = "login", ![r].why = why]
    PROVE  SessionInv'
<1> USE DEF SessionInv
<1>0. Paired \in Record
  BY KnownRecord DEF TypeOK, HeldInv, Paired
<1>1. /\ Paired'.rt = Paired.rt /\ Paired'.at = Paired.at /\ Paired'.prevs = Paired.prevs
      /\ Paired'.atExp = Paired.atExp
  BY <1>0, RevocationMoves DEF Record
<1>2. /\ exchange' \in [Request -> Exchange]
      /\ \A r \in Request : exchange'[r] = exchange[r] \/ exchange'[r].stage = "login"
      /\ \A r \in Request : exchange'[r] # Free => exchange[r] # Free
  <2>1. CASE UNCHANGED exchange
    BY <2>1 DEF TypeOK
  <2>2. ASSUME NEW r \in Request, NEW why \in {"unknown", "reused", "expired"},
               exchange[r] # Free,
               exchange' = [exchange EXCEPT ![r].stage = "login", ![r].why = why]
        PROVE  /\ exchange' \in [Request -> Exchange]
               /\ \A q \in Request :
                      exchange'[q] = exchange[q] \/ exchange'[q].stage = "login"
               /\ \A q \in Request : exchange'[q] # Free => exchange[q] # Free
    <3>1. [exchange[r] EXCEPT !.stage = "login", !.why = why] \in Exchange
      <4>1. exchange[r] \in Exchange
        BY DEF TypeOK
      <4> QED
        BY <4>1 DEF Exchange, Answers
    <3> QED
      BY <2>2, <3>1 DEF TypeOK, Exchange
  <2> QED
    BY <2>1, <2>2
<1>3. TypeOK'
  BY <1>2, RevocationMoves DEF TypeOK
<1>4. HeldInv'
  BY <1>1, RevocationMoves DEF HeldInv
<1>5. RotatedInv'
  BY <1>1, <1>2 DEF RotatedInv
<1>6. OneAtATime' /\ SerialInv'
  BY <1>2 DEF OneAtATime, SerialInv, HasRotation
<1> QED
  BY <1>3, <1>4, <1>5, <1>6

\* A rotation gives the phone's record and the exchange the pair it mints.
LEMMA RotationKeeps ==
    ASSUME SessionInv, NEW r \in Request, RefreshRotates(r)
    PROVE  /\ SessionInv'
           /\ devices' = [devices EXCEPT ![Phone] = Rotated(Paired, minted + 1, now)]
           /\ Paired' = Rotated(Paired, minted + 1, now)
           /\ ~Paired.revoked
<1> USE DEF SessionInv
<1>1. Paired \in Record /\ devices \in Store /\ now \in Nat /\ minted \in Nat
  BY KnownRecord DEF TypeOK, HeldInv, Paired
<1>2. /\ devices' = [devices EXCEPT ![Phone] = Rotated(Paired, minted + 1, now)]
      /\ ~Paired.revoked
  <2>1. /\ RotateRefresh(devices, exchange[r].rt, minted + 1, now).reply = "rotated"
        /\ devices' = RotateRefresh(devices, exchange[r].rt, minted + 1, now).data
    BY DEF RefreshRotates
  <2>2. Known(devices) = {Phone}
    BY DEF HeldInv
  <2> QED
    BY <2>1, <2>2, PhoneOutcome
<1>3. Rotated(Paired, minted + 1, now) \in Record
  BY <1>1, RotatedType DEF RefreshRotates
<1>4. /\ Paired' = Rotated(Paired, minted + 1, now)
      /\ \A d \in Device : d # Phone => devices'[d] = devices[d]
      /\ devices' \in Store
  BY <1>1, <1>2, <1>3, RefreshSessionAssumption DEF Paired, Store
<1>5. Known(devices') = {Phone}
  BY <1>3, <1>4, NoRecordAssumption, RefreshSessionAssumption DEF Known, HeldInv, Paired
<1>6. /\ Paired'.rt = minted + 1 /\ Paired'.at = minted + 1
      /\ Paired'.atExp = now + AccessTTL
      /\ \A i \in DOMAIN Paired'.prevs :
             Paired'.prevs[i] = Paired.rt
             \/ \E j \in DOMAIN Paired.prevs : Paired'.prevs[i] = Paired.prevs[j]
  BY <1>1, <1>4, RotatedFields
<1> DEFINE one == [stage |-> "rotated", at |-> minted + 1, rt |-> minted + 1, why |-> ""]
<1>7. /\ one \in Exchange /\ exchange' = [exchange EXCEPT ![r] = one]
      /\ UNCHANGED <<serial, now, jar, faults, lostInRow>>
      /\ minted' = minted + 1 /\ minted + 1 \in Token /\ exchange[r].stage = "refresh"
  BY DEF RefreshRotates, Exchange
<1>a. one.stage = "rotated" /\ one.at = minted + 1 /\ one.rt = minted + 1
  OBVIOUS
<1> HIDE DEF one
<1>b. \A q \in Request : exchange'[q] = IF q = r THEN one ELSE exchange[q]
  BY <1>7 DEF TypeOK
<1>8. TypeOK'
  BY <1>1, <1>4, <1>7 DEF TypeOK
<1>9. HeldInv'
  <2>1. \A i \in DOMAIN Paired'.prevs : Paired'.prevs[i] < minted + 1
    <3> TAKE i \in DOMAIN Paired'.prevs
    <3>1. CASE Paired'.prevs[i] = Paired.rt
      BY <1>1, <3>1 DEF HeldInv
    <3>2. ASSUME NEW j \in DOMAIN Paired.prevs, Paired'.prevs[i] = Paired.prevs[j]
          PROVE  Paired'.prevs[i] < minted + 1
      <4>1. Paired.prevs[j] \in Nat /\ Paired.prevs[j] < minted
        <5>1. Paired.prevs \in Seq(Token)
          BY <1>1 DEF Record
        <5>2. Paired.prevs[j] \in Token
          BY <5>1
        <5>3. Paired.prevs[j] < minted
          BY DEF HeldInv
        <5> QED
          BY <5>2, <5>3, TokenIsNumber
      <4> QED
        BY <1>1, <3>2, <4>1
    <3> QED
      BY <1>6, <3>1, <3>2
  <2> QED
    BY <1>5, <1>6, <1>7, <2>1 DEF HeldInv
<1>10. RotatedInv'
  <2>1. now + AccessTTL > now
    BY <1>1, DeviceRecordsAssumption
  <2>2. ASSUME NEW q \in Request, exchange'[q].stage = "rotated"
        PROVE  exchange'[q].at = exchange'[q].rt /\ exchange'[q].rt <= minted + 1
    <3>1. CASE q = r
      BY <1>1, <1>a, <1>b, <3>1
    <3>2. CASE q # r
      <4>1. exchange'[q] = exchange[q] /\ exchange[q] \in Exchange
        BY <1>b, <3>2 DEF TypeOK
      <4>2. exchange[q].rt \in Nat
        <5>1. exchange[q].rt \in Token \union {NoToken}
          BY <4>1 DEF Exchange
        <5> QED
          BY <5>1, TokenIsNumber
      <4> QED
        BY <1>1, <2>2, <4>1, <4>2 DEF RotatedInv, HeldInv
    <3> QED
      BY <3>1, <3>2
  <2> QED
    BY <1>6, <1>7, <2>1, <2>2 DEF RotatedInv
<1>11. OneAtATime' /\ SerialInv'
  <2>1. exchange[r].stage = "refresh" /\ serial' = serial
    BY <1>7
  <2>2. exchange[r] # Free
    BY <2>1, FreeExchange
  <2>3. OneAtATime'
    BY <1>b, <2>1, <2>2 DEF OneAtATime
  <2>4. serial => \A q \in Request : q # r => exchange'[q].stage = "free"
    BY <1>b, <2>2, FreeExchange DEF OneAtATime
  <2>5. SerialInv'
    BY <1>7, <1>a, <1>b, <2>4 DEF SerialInv, HasRotation
  <2> QED
    BY <2>3, <2>5
<1> QED
  BY <1>2, <1>4, <1>8, <1>9, <1>10, <1>11

\* In a serial phone's run, whoever is under way is alone.
LEMMA AloneUnderWay ==
    ASSUME SessionInv, NEW r \in Request, exchange[r].stage # "free"
    PROVE  serial => \A q \in Request : q # r => exchange[q] = Free
BY FreeExchange DEF SessionInv, OneAtATime

\* The token an exchange minted is live unless the phone is revoked or another
\* exchange has rotated in between.
LEMMA MintedIsLive ==
    ASSUME SessionInv, NEW r \in Request, exchange[r].stage = "rotated",
           Authenticated(devices, exchange[r].at, now) = {}
    PROVE  Paired.revoked \/ (~serial /\ Paired.rt > exchange[r].rt)
<1> SUFFICES ASSUME ~Paired.revoked
             PROVE  ~serial /\ Paired.rt > exchange[r].rt
  OBVIOUS
<1> USE DEF SessionInv
<1>1. Phone \in Known(devices) /\ minted \in Nat \ {0}
  BY DeviceRecordsAssumption DEF HeldInv
<1>2. /\ exchange[r].at = exchange[r].rt /\ exchange[r].rt <= minted
      /\ Paired.at = minted /\ Paired.atExp > now
  BY DEF RotatedInv
<1>3. exchange[r].rt # minted
  BY <1>1, <1>2, RefreshSessionAssumption DEF Authenticated, Paired, NoToken
<1>4. ~serial
  BY <1>3 DEF SerialInv, HasRotation
<1>5. exchange[r] \in Exchange
  BY DEF TypeOK
<1>6. exchange[r].rt \in Nat
  BY <1>5, TokenIsNumber DEF Exchange
<1> QED
  BY <1>1, <1>2, <1>3, <1>4, <1>6 DEF HeldInv

\* An exchange moves to another stage, with the cookies it has.
LEMMA AdvanceMoves ==
    ASSUME SessionInv, NEW r \in Request, exchange[r].stage # "free",
           NEW stage \in {"refresh"} \union Answers,
           stage = "refresh" => exchange[r].stage \in {"sent", "refresh"},
           stage = "refreshed" => HasRotation(r),
           Advance(r, stage),
           UNCHANGED <<serial, devices, now, minted, jar>>,
           lostInRow' \in 0 .. MaxLostInRow, faults' \in 0 .. MaxFaults
    PROVE  SessionInv'
<1> DEFINE one == [exchange[r] EXCEPT !.stage = stage]
<1>1. exchange[r] \in Exchange
  BY DEF SessionInv, TypeOK
<1>2. one \in Exchange /\ one.stage = stage /\ one.rt = exchange[r].rt
  BY <1>1 DEF Exchange, Answers
<1>3. exchange' = [exchange EXCEPT ![r] = one]
  BY DEF Advance
<1> HIDE DEF one
<1>4. one.stage # "rotated"
  BY <1>2 DEF Answers
<1>5. serial => \A q \in Request : q # r => exchange[q] = Free
  BY AloneUnderWay
<1>6. serial => /\ one.stage \in {"sent", "refresh"} => one.rt = jar.rt /\ jar.rt # NoToken
                /\ one.stage = "refreshed" => one.rt = minted
  BY <1>2 DEF SessionInv, SerialInv, HasRotation, Answers
<1> QED
  BY <1>2, <1>3, <1>4, <1>5, <1>6, ExchangeMoves

\* An exchange ends; the phone may store the cookies that came with the answer.
LEMMA ExchangeEnds ==
    ASSUME SessionInv, NEW r \in Request, exchange[r].stage # "free",
           exchange' = [exchange EXCEPT ![r] = Free],
           jar' \in Jar, jar' = jar \/ exchange[r].stage \in Answers,
           UNCHANGED <<serial, devices, now, minted>>,
           lostInRow' \in 0 .. MaxLostInRow, faults' \in 0 .. MaxFaults
    PROVE  SessionInv'
<1> USE DEF SessionInv
<1>1. \A q \in Request : exchange'[q] = IF q = r THEN Free ELSE exchange[q]
  BY DEF TypeOK
<1>2. TypeOK'
  BY FreeExchange DEF TypeOK
<1>3. HeldInv'
  BY DEF HeldInv, Paired
<1>4. RotatedInv'
  BY <1>1, FreeExchange DEF RotatedInv, Paired
<1>5. OneAtATime'
  BY <1>1 DEF OneAtATime
<1>6. SerialInv'
  BY <1>1, AloneUnderWay, FreeExchange DEF SerialInv, HasRotation
<1> QED
  BY <1>2, <1>3, <1>4, <1>5, <1>6

\* What handles an exchange keeps the invariant.
LEMMA HandleKeeps ==
    ASSUME SessionInv, NEW r \in Request, Handle(r)
    PROVE  SessionInv'
<1>0. /\ faults \in 0 .. MaxFaults /\ lostInRow \in 0 .. MaxLostInRow
      /\ MaxFaults \in Nat /\ MaxLostInRow \in Nat
  BY RefreshSessionAssumption DEF SessionInv, TypeOK
<1>1. CASE VerifySession(r)
  BY <1>0, <1>1, AdvanceMoves DEF VerifySession, Answers
<1>2. CASE VerifySessionFails(r)
  BY <1>0, <1>2, AdvanceMoves DEF VerifySessionFails
<1>3. CASE RefreshRotates(r)
  BY <1>3, RotationKeeps
<1>4. CASE RefreshRefused(r)
  <2> DEFINE outcome == RotateRefresh(devices, exchange[r].rt, NoToken, now)
  <2>1. /\ exchange[r].stage = "refresh"
        /\ exchange' = [exchange EXCEPT ![r].stage = "login", ![r].why = outcome.reply]
        /\ UNCHANGED <<serial, now, minted, jar, faults, lostInRow>>
        /\ devices' = outcome.data
        /\ outcome.reply # "rotated"
    BY <1>4 DEF RefreshRefused
  <2>2. \/ outcome.reply \in {"unknown", "expired"} /\ devices' = devices
        \/ outcome.reply = "reused" /\ devices' = [devices EXCEPT ![Phone].revoked = TRUE]
    BY <2>1, PhoneOutcome DEF SessionInv, HeldInv
  <2> HIDE DEF outcome
  <2>3. CASE outcome.reply \in {"unknown", "expired"} /\ devices' = devices
    <3> DEFINE one == [exchange[r] EXCEPT !.stage = "login", !.why = outcome.reply]
    <3>1. exchange[r] \in Exchange
      BY DEF SessionInv, TypeOK
    <3>2. one \in Exchange /\ one.stage = "login"
      BY <2>3, <3>1 DEF Exchange, Answers
    <3>3. exchange' = [exchange EXCEPT ![r] = one]
      BY <2>1 
    <3>4. serial => \A q \in Request : q # r => exchange[q] = Free
      BY <2>1, AloneUnderWay
    <3> HIDE DEF one
    <3> QED
      BY <1>0, <2>1, <2>3, <3>2, <3>3, <3>4, ExchangeMoves
  <2>4. CASE outcome.reply = "reused" /\ devices' = [devices EXCEPT ![Phone].revoked = TRUE]
    <3>1. exchange[r] # Free
      BY <2>1, FreeExchange
    <3> QED
      BY <2>1, <2>4, <3>1, RevocationKeeps
  <2> QED
    BY <2>2, <2>3, <2>4
<1>5. CASE RefreshUnavailable(r)
  BY <1>0, <1>5, AdvanceMoves DEF RefreshUnavailable, Answers
<1>6. CASE VerifyRotated(r)
  BY <1>0, <1>6, AdvanceMoves DEF VerifyRotated, Answers, HasRotation
<1>7. CASE VerifyRotatedFails(r)
  BY <1>0, <1>7, AdvanceMoves DEF VerifyRotatedFails, Answers
<1> QED
  BY <1>1, <1>2, <1>3, <1>4, <1>5, <1>6, <1>7 DEF Handle

\* Every step keeps the invariant.
LEMMA SessionStep == SessionInv /\ [Next]_vars => SessionInv'
<1> SUFFICES ASSUME SessionInv, [Next]_vars
             PROVE  SessionInv'
  OBVIOUS
<1>0. /\ faults \in 0 .. MaxFaults /\ lostInRow \in 0 .. MaxLostInRow /\ jar \in Jar
      /\ MaxFaults \in Nat /\ MaxLostInRow \in Nat
  BY RefreshSessionAssumption DEF SessionInv, TypeOK
<1>1. ASSUME NEW r \in Request, Send(r)
      PROVE  SessionInv'
  <2> DEFINE one == [stage |-> "sent", at |-> jar.at, rt |-> jar.rt, why |-> ""]
  <2>1. /\ one \in Exchange /\ one.stage = "sent" /\ one.rt = jar.rt
    BY <1>0 DEF Exchange, Jar
  <2>2. /\ exchange' = [exchange EXCEPT ![r] = one] /\ jar.rt # NoToken
        /\ UNCHANGED <<serial, devices, now, minted, jar, faults, lostInRow>>
        /\ serial => \A q \in Request : exchange[q] = Free
    BY <1>1 DEF Send
  <2> HIDE DEF one
  <2> QED
    BY <1>0, <2>1, <2>2, ExchangeMoves
<1>2. ASSUME NEW r \in Request, Handle(r)
      PROVE  SessionInv'
  BY <1>2, HandleKeeps
<1>3. ASSUME NEW r \in Request, Deliver(r)
      PROVE  SessionInv'
  <2>1. exchange[r].stage \in Answers /\ exchange[r].stage # "free"
    BY <1>3 DEF Deliver, Answers
  <2>2. [at |-> exchange[r].at, rt |-> exchange[r].rt] \in Jar /\ NoCookies \in Jar
    <3>1. exchange[r] \in Exchange
      BY DEF SessionInv, TypeOK
    <3> QED
      BY <3>1 DEF Exchange, Jar, NoCookies
  <2>3. jar' \in Jar
    BY <1>0, <1>3, <2>2 DEF Deliver
  <2>4. lostInRow' \in 0 .. MaxLostInRow /\ faults' \in 0 .. MaxFaults
    BY <1>0, <1>3 DEF Deliver
  <2>5. /\ exchange' = [exchange EXCEPT ![r] = Free]
        /\ UNCHANGED <<serial, devices, now, minted>>
    BY <1>3 DEF Deliver
  <2> QED
    BY <2>1, <2>3, <2>4, <2>5, ExchangeEnds
<1>4. ASSUME NEW r \in Request, Lose(r)
      PROVE  SessionInv'
  <2>1. exchange[r].stage # "free"
    BY <1>4 DEF Lose, Answers
  <2>2. lostInRow' \in 0 .. MaxLostInRow /\ faults' \in 0 .. MaxFaults
    BY <1>0, <1>4 DEF Lose
  <2>3. /\ exchange' = [exchange EXCEPT ![r] = Free] /\ jar' = jar
        /\ UNCHANGED <<serial, devices, now, minted>>
    BY <1>4 DEF Lose
  <2> QED
    BY <1>0, <2>1, <2>2, <2>3, ExchangeEnds
<1>5. CASE OperatorRevokes
  <2>1. devices' = [devices EXCEPT ![Phone].revoked = TRUE]
    <3>1. devices[Phone] # NoRecord
      BY DEF SessionInv, HeldInv, Known
    <3> QED
      BY <1>5, <3>1 DEF OperatorRevokes, Revoke, Revoked, Saved
  <2> QED
    BY <1>5, <2>1, RevocationKeeps DEF OperatorRevokes
<1>6. CASE Tick
  <2> USE DEF SessionInv
  <2>1. /\ UNCHANGED <<serial, devices, minted, jar, exchange, faults, lostInRow>>
        /\ \A r \in Request : exchange[r].stage # "rotated"
        /\ now' \in Nat
    BY <1>6, FreeExchange DEF Tick, TypeOK
  <2>2. TypeOK'
    BY <2>1 DEF TypeOK
  <2>3. HeldInv' /\ RotatedInv'
    BY <2>1 DEF HeldInv, RotatedInv, Paired
  <2>4. OneAtATime' /\ SerialInv'
    BY <2>1 DEF OneAtATime, SerialInv, HasRotation
  <2> QED
    BY <2>2, <2>3, <2>4
<1>7. CASE UNCHANGED vars
  <2> USE DEF SessionInv
  <2>1. UNCHANGED <<serial, devices, now, minted, jar, exchange, faults, lostInRow>>
    BY <1>7 DEF vars
  <2>2. TypeOK' /\ HeldInv' /\ RotatedInv'
    BY <2>1 DEF TypeOK, HeldInv, RotatedInv, Paired
  <2>3. OneAtATime' /\ SerialInv'
    BY <2>1 DEF OneAtATime, SerialInv, HasRotation
  <2> QED
    BY <2>2, <2>3
<1> QED
  BY <1>1, <1>2, <1>3, <1>4, <1>5, <1>6, <1>7 DEF Next

\* Every reachable state of a phone, its exchanges and its record.
THEOREM SessionInvariant == Spec => []SessionInv
BY SessionInitially, SessionStep, PTL DEF Spec

\* Every variable of the session lifecycle has its type.
THEOREM SessionTypes == Spec => []TypeOK
<1>1. SessionInv => TypeOK
  BY DEF SessionInv
<1> QED
  BY <1>1, SessionInvariant, PTL

\* refresh_session reports an inconsistent store only when the device was
\* revoked, or another request rotated, between its rotation and its check.
THEOREM InconsistencyExplained == Spec => []InconsistencyHasACause
<1>1. SessionInv => InconsistencyHasACause
  BY MintedIsLive DEF InconsistencyHasACause, Paired
<1> QED
  BY <1>1, SessionInvariant, PTL

\* Whatever had been checked before a revocation, no request of the device is
\* answered with a page or with cookies after it.
THEOREM RevocationEndsSessions == Spec => NoSessionAfterRevoke
<1> DEFINE Quiet ==
        \A r \in Request :
            devices[Phone].revoked /\ exchange'[r].stage \in {"served", "refreshed"} =>
                exchange'[r] = exchange[r]
<1>1. SessionInv /\ [Next]_vars => [Quiet]_vars
  <2> SUFFICES ASSUME SessionInv, Next, NEW r \in Request, Paired.revoked,
                      exchange'[r].stage \in {"served", "refreshed"}
               PROVE  exchange'[r] = exchange[r]
    BY DEF Paired
  <2> USE DEF SessionInv
  <2>1. \A at : Authenticated(devices, at, now) = {}
    BY DEF Authenticated, HeldInv, Paired
  <2>2. exchange \in [Request -> Exchange] /\ Free.stage = "free"
    BY FreeExchange DEF TypeOK
  <2>3. ASSUME NEW q \in Request, NEW one, one.stage \notin {"served", "refreshed"},
               exchange' = [exchange EXCEPT ![q] = one]
        PROVE  exchange'[r] = exchange[r]
    BY <2>2, <2>3
  <2>4. ASSUME NEW q \in Request, NEW stage, stage \notin {"served", "refreshed"},
               Advance(q, stage)
        PROVE  exchange'[r] = exchange[r]
    BY <2>2, <2>4 DEF Advance, Exchange
  <2>5. ASSUME NEW q \in Request, Handle(q)
        PROVE  exchange'[r] = exchange[r]
    <3>1. CASE VerifySession(q) \/ VerifyRotated(q)
      BY <2>1, <2>4, <3>1 DEF VerifySession, VerifyRotated
    <3>2. CASE VerifySessionFails(q) \/ RefreshUnavailable(q) \/ VerifyRotatedFails(q)
      BY <2>4, <3>2 DEF VerifySessionFails, RefreshUnavailable, VerifyRotatedFails
    <3>3. CASE RefreshRotates(q) 
      BY <2>3, <3>3 DEF RefreshRotates
    <3>4. CASE RefreshRefused(q)
      BY <2>2, <3>4 DEF RefreshRefused, Exchange
    <3> QED
      BY <2>5, <3>1, <3>2, <3>3, <3>4 DEF Handle
  <2>6. ASSUME NEW q \in Request, Send(q) \/ Deliver(q) \/ Lose(q)
        PROVE  exchange'[r] = exchange[r]
    BY <2>2, <2>3, <2>6 DEF Send, Deliver, Lose
  <2>7. CASE OperatorRevokes \/ Tick
    BY <2>7 DEF OperatorRevokes, Tick
  <2> QED
    BY <2>5, <2>6, <2>7 DEF Next
<1> QED
  BY <1>1, SessionInvariant, PTL DEF Spec, NoSessionAfterRevoke

----------------------------------------------------------------------------
(***************************************************************************)
(* How far a phone that asks one request at a time falls behind its record *)
(* when at most one rotation in a row is lost to it.                       *)
(***************************************************************************)
\* The token the phone's last rotation replaced.
Prior(t) == Paired.prevs # <<>> /\ Paired.prevs[1] = t

\* The phone's token is the current one or, once a rotation is lost or while
\* one is under way, the immediately prior one.
BehindInv ==
    serial /\ jar.rt # NoToken /\ ~Paired.revoked =>
        IF \E r \in Request : HasRotation(r)
        THEN lostInRow = 0 => Prior(jar.rt)
        ELSE jar.rt = minted \/ (lostInRow = 1 /\ Prior(jar.rt))

\* No exchange of a serial phone was refused for reuse.
NeverReused ==
    serial => \A r \in Request : exchange[r].stage = "login" => exchange[r].why # "reused"

\* Neither the current token nor the immediately prior one counts as reused.
LEMMA PriorIsAccepted ==
    ASSUME SessionInv, BehindInv, serial, jar.rt # NoToken, ~Paired.revoked,
           \A r \in Request : ~HasRotation(r)
    PROVE  ~OlderThanPrior(Paired, jar.rt)
<1>1. jar.rt = minted \/ Prior(jar.rt)
  BY DEF BehindInv
<1>2. CASE jar.rt = minted
  <2>1. Paired \in Record /\ minted \in Nat
    BY KnownRecord DEF SessionInv, TypeOK, HeldInv, Paired
  <2>2. \A i \in DOMAIN Paired.prevs : Paired.prevs[i] < minted /\ Paired.prevs[i] \in Nat
    <3>1. Paired.prevs \in Seq(Token)
      BY <2>1 DEF Record
    <3>2. \A i \in DOMAIN Paired.prevs : Paired.prevs[i] \in Token
      BY <3>1
    <3> QED
      BY <3>2, TokenIsNumber DEF SessionInv, HeldInv
  <2>3. minted \notin Range(Paired.prevs)
    BY <2>1, <2>2 DEF Range
  <2> QED
    BY <1>2, <2>3 DEF OlderThanPrior
<1>3. CASE Prior(jar.rt)
  BY <1>3 DEF Prior, OlderThanPrior
<1> QED
  BY <1>1, <1>2, <1>3

\* Other exchanges than the one under way have no rotation.
LEMMA OnlyRotation ==
    ASSUME SessionInv, serial, NEW r \in Request, exchange[r].stage # "free"
    PROVE  (\E q \in Request : HasRotation(q)) <=> HasRotation(r)
BY AloneUnderWay, FreeExchange DEF HasRotation

\* A step that changes neither the record, nor the jar, nor who has a rotation.
LEMMA NothingRotates ==
    ASSUME BehindInv, UNCHANGED <<serial, devices, minted, jar, lostInRow>>,
           serial => ((\E r \in Request : HasRotation(r)) <=> (\E r \in Request : HasRotation(r)'))
    PROVE  BehindInv'
BY DEF BehindInv, Prior, Paired

\* A rotation is lost to the phone: it is then one behind.
LEMMA RotationLost ==
    ASSUME SessionInv, BehindInv, MaxLostInRow <= 1,
           NEW r \in Request, HasRotation(r), lostInRow < MaxLostInRow,
           lostInRow' = lostInRow + 1,
           UNCHANGED <<serial, devices, minted, jar>>,
           \A q \in Request : q # r => exchange'[q] = exchange[q],
           exchange'[r].stage \notin {"rotated", "refreshed"}
    PROVE  BehindInv'
<1> SUFFICES ASSUME serial, jar.rt # NoToken, ~Paired.revoked
             PROVE  BehindInv'
  BY DEF BehindInv, Paired
<1>1. lostInRow = 0 /\ lostInRow' = 1
  BY RefreshSessionAssumption DEF SessionInv, TypeOK
<1>2. Prior(jar.rt) /\ Prior(jar.rt)'
  BY <1>1 DEF BehindInv, Prior, Paired
<1>3. exchange[r].stage # "free"
  BY DEF HasRotation
<1>4. \A q \in Request : ~HasRotation(q)'
  BY <1>3, AloneUnderWay, FreeExchange DEF HasRotation
<1> QED
  BY <1>1, <1>2, <1>4 DEF BehindInv

\* No handler leaves the phone further behind.
LEMMA HandleKeepsBehind ==
    ASSUME SessionInv, BehindInv, MaxLostInRow <= 1, NEW r \in Request, Handle(r)
    PROVE  BehindInv'
<1>1. ASSUME NEW stage, Advance(r, stage), exchange[r].stage # "free",
             HasRotation(r) <=> stage \in {"rotated", "refreshed"},
             UNCHANGED <<serial, devices, minted, jar, lostInRow>>
      PROVE  BehindInv'
  <2>1. /\ exchange'[r].stage = stage
        /\ \A q \in Request : q # r => exchange'[q] = exchange[q]
    BY <1>1 DEF Advance, SessionInv, TypeOK, Exchange
  <2>2. serial => \A q \in Request : q # r => ~HasRotation(q) /\ ~HasRotation(q)'
    BY <1>1, <2>1, AloneUnderWay, FreeExchange DEF HasRotation
  <2>3. HasRotation(r) <=> HasRotation(r)'
    BY <1>1, <2>1 DEF HasRotation
  <2> QED
    BY <1>1, <2>2, <2>3, NothingRotates
<1>2. CASE VerifySession(r)
  BY <1>1, <1>2 DEF VerifySession, HasRotation
<1>3. CASE VerifySessionFails(r)
  BY <1>1, <1>3 DEF VerifySessionFails, HasRotation
<1>4. CASE RefreshRotates(r)
  <2> SUFFICES ASSUME serial, jar.rt # NoToken, lostInRow = 0
               PROVE  Prior(jar.rt)'
    <3>1. exchange'[r].stage = "rotated" /\ UNCHANGED <<serial, jar, lostInRow>>
      BY <1>4 DEF RefreshRotates, SessionInv, TypeOK
    <3> QED
      BY <3>1 DEF BehindInv, HasRotation, Prior
  <2>1. Paired' = Rotated(Paired, minted + 1, now) /\ ~Paired.revoked
    BY <1>4, RotationKeeps
  <2>2. Paired \in Record /\ Paired.rt = minted
    BY KnownRecord DEF SessionInv, TypeOK, HeldInv, Paired
  <2>3. Paired'.prevs # <<>> /\ Paired'.prevs[1] = minted
    BY <2>1, <2>2, RotatedFields
  <2>4. exchange[r].stage = "refresh" /\ jar' = jar
    BY <1>4 DEF RefreshRotates
  <2>5. jar.rt = minted
    BY <2>1, <2>4, OnlyRotation DEF BehindInv, HasRotation
  <2> QED
    BY <2>3, <2>4, <2>5 DEF Prior
<1>5. CASE RefreshRefused(r)
  <2> SUFFICES ASSUME serial
               PROVE  BehindInv'
    BY <1>5 DEF BehindInv, RefreshRefused
  <2> DEFINE outcome == RotateRefresh(devices, exchange[r].rt, NoToken, now)
  <2>1. /\ exchange[r].stage = "refresh"
        /\ exchange' = [exchange EXCEPT ![r].stage = "login", ![r].why = outcome.reply]
        /\ UNCHANGED <<serial, minted, jar, lostInRow>>
        /\ devices' = outcome.data
        /\ outcome.reply # "rotated"
    BY <1>5 DEF RefreshRefused
  <2>2. \/ outcome.reply \in {"unknown", "expired"} /\ devices' = devices
        \/ /\ outcome.reply = "reused" /\ ~Paired.revoked
           /\ OlderThanPrior(Paired, exchange[r].rt)
    BY <2>1, PhoneOutcome DEF SessionInv, HeldInv
  <2> HIDE DEF outcome
  <2>3. \A q \in Request : ~HasRotation(q)
    BY <2>1, OnlyRotation DEF HasRotation
  <2>4. exchange[r].rt = jar.rt /\ jar.rt # NoToken
    BY <2>1 DEF SessionInv, SerialInv
  <2>5. devices' = devices
    BY <2>2, <2>3, <2>4, PriorIsAccepted
  <2>6. \A q \in Request : ~HasRotation(q)'
    BY <2>1, <2>3 DEF HasRotation, SessionInv, TypeOK, Exchange
  <2> QED
    BY <2>1, <2>3, <2>5, <2>6, NothingRotates
<1>6. CASE RefreshUnavailable(r)
  BY <1>1, <1>6 DEF RefreshUnavailable, HasRotation
<1>7. CASE VerifyRotated(r)
  <2>1. CASE Authenticated(devices, exchange[r].at, now) # {}
    BY <1>1, <1>7, <2>1 DEF VerifyRotated, HasRotation
  <2>2. CASE Authenticated(devices, exchange[r].at, now) = {}
    <3>1. Paired.revoked \/ ~serial
      BY <1>7, <2>2, MintedIsLive DEF VerifyRotated
    <3> QED
      BY <1>7, <3>1 DEF VerifyRotated, BehindInv, Paired
  <2> QED
    BY <2>1, <2>2
<1>8. CASE VerifyRotatedFails(r)
  <2>1. /\ exchange'[r].stage = "unavailable"
        /\ \A q \in Request : q # r => exchange'[q] = exchange[q]
    BY <1>8 DEF VerifyRotatedFails, Advance, SessionInv, TypeOK, Exchange
  <2> QED
    BY <1>8, <2>1, RotationLost DEF VerifyRotatedFails, HasRotation
<1> QED
  BY <1>2, <1>3, <1>4, <1>5, <1>6, <1>7, <1>8 DEF Handle

\* No step leaves the phone further behind.
LEMMA BehindStep ==
    ASSUME MaxLostInRow <= 1, SessionInv, BehindInv, [Next]_vars
    PROVE  BehindInv'
<1>1. ASSUME NEW r \in Request, Send(r)
      PROVE  BehindInv'
  <2>1. /\ UNCHANGED <<serial, devices, minted, jar, lostInRow>>
        /\ exchange'[r].stage = "sent"
        /\ serial => \A q \in Request : ~HasRotation(q)
        /\ \A q \in Request : q # r => exchange'[q] = exchange[q]
    BY <1>1, FreeExchange DEF Send, HasRotation, SessionInv, TypeOK
  <2>2. serial => \A q \in Request : ~HasRotation(q)'
    BY <2>1 DEF HasRotation
  <2> QED
    BY <2>1, <2>2, NothingRotates
<1>2. ASSUME NEW r \in Request, Handle(r)
      PROVE  BehindInv'
  BY <1>2, HandleKeepsBehind
<1>3. ASSUME NEW r \in Request, exchange' = [exchange EXCEPT ![r] = Free],
             exchange[r].stage # "free", ~HasRotation(r),
             UNCHANGED <<serial, devices, minted, jar, lostInRow>>
      PROVE  BehindInv'
  <2>1. \A q \in Request : exchange'[q] = exchange[q] \/ exchange'[q].stage = "free"
    BY <1>3, FreeExchange DEF SessionInv, TypeOK
  <2>2. serial => \A q \in Request : ~HasRotation(q)
    BY <1>3, OnlyRotation
  <2>3. serial => \A q \in Request : ~HasRotation(q)'
    BY <2>1, <2>2 DEF HasRotation
  <2> QED
    BY <1>3, <2>2, <2>3, NothingRotates
<1>4. ASSUME NEW r \in Request, Deliver(r)
      PROVE  BehindInv'
  <2>1. /\ exchange[r].stage \in Answers /\ exchange[r].stage # "free"
        /\ exchange' = [exchange EXCEPT ![r] = Free]
        /\ UNCHANGED <<serial, devices, minted>>
    BY <1>4 DEF Deliver, Answers
  <2>2. CASE exchange[r].stage = "refreshed"
    <3> SUFFICES ASSUME serial
                 PROVE  BehindInv'
      BY <2>1 DEF BehindInv
    <3>1. jar'.rt = minted
      BY <1>4, <2>2 DEF Deliver, SessionInv, SerialInv, HasRotation
    <3>2. \A q \in Request : ~HasRotation(q)'
      BY <2>1, AloneUnderWay, FreeExchange DEF HasRotation, SessionInv, TypeOK
    <3> QED
      BY <2>1, <3>1, <3>2 DEF BehindInv
  <2>3. CASE exchange[r].stage = "login"
    BY <1>4, <2>3 DEF Deliver, NoCookies, BehindInv
  <2>4. CASE exchange[r].stage \in {"served", "unavailable"}
    BY <1>3, <1>4, <2>1, <2>4 DEF Deliver, HasRotation
  <2> QED
    BY <2>1, <2>2, <2>3, <2>4 DEF Answers
<1>5. ASSUME NEW r \in Request, Lose(r)
      PROVE  BehindInv'
  <2>1. /\ exchange[r].stage # "free"
        /\ exchange' = [exchange EXCEPT ![r] = Free]
        /\ UNCHANGED <<serial, devices, minted, jar>>
        /\ IF HasRotation(r)
           THEN lostInRow' = lostInRow + 1 /\ lostInRow < MaxLostInRow
           ELSE lostInRow' = lostInRow
    BY <1>5 DEF Lose, LosesRotation, HasRotation, Answers
  <2>2. CASE HasRotation(r)
    <3>1. /\ exchange'[r].stage = "free"
          /\ \A q \in Request : q # r => exchange'[q] = exchange[q]
      BY <2>1, FreeExchange DEF SessionInv, TypeOK
    <3> QED
      BY <2>1, <2>2, <3>1, RotationLost
  <2>3. CASE ~HasRotation(r)
    BY <1>3, <2>1, <2>3
  <2> QED
    BY <2>2, <2>3
<1>6. CASE OperatorRevokes
  <2>1. devices' = [devices EXCEPT ![Phone].revoked = TRUE]
    <3>1. devices[Phone] # NoRecord
      BY DEF SessionInv, HeldInv, Known
    <3> QED
      BY <1>6, <3>1 DEF OperatorRevokes, Revoke, Revoked, Saved
  <2>2. Paired'.revoked
    <3>1. Paired \in Record
      BY KnownRecord DEF SessionInv, TypeOK, HeldInv, Paired
    <3> QED
      BY <2>1, <3>1, RevocationMoves DEF Record
  <2> QED
    BY <2>2 DEF BehindInv
<1>7. CASE Tick \/ UNCHANGED vars
  <2>1. UNCHANGED <<serial, devices, minted, jar, exchange, lostInRow>>
    BY <1>7 DEF Tick, vars
  <2> QED
    BY <2>1, NothingRotates DEF HasRotation
<1> QED
  BY <1>1, <1>2, <1>4, <1>5, <1>6, <1>7 DEF Next

\* rotate_refresh never takes the phone for one that holds an old copy.
LEMMA ReuseStep ==
    ASSUME MaxLostInRow <= 1, SessionInv, BehindInv, NeverReused, [Next]_vars
    PROVE  NeverReused'
<1> SUFFICES ASSUME serial, NEW r \in Request,
                    exchange'[r].stage = "login", exchange'[r].why = "reused",
                    exchange'[r] # exchange[r]
             PROVE  FALSE
  <2>1. serial' = serial
    BY DEF Next, vars, Send, Handle, VerifySession, VerifySessionFails, RefreshRotates,
           RefreshRefused, RefreshUnavailable, VerifyRotated, VerifyRotatedFails, Deliver,
           Lose, OperatorRevokes, Tick
  <2> QED
    BY <2>1 DEF NeverReused
<1>1. exchange \in [Request -> Exchange]
  BY DEF SessionInv, TypeOK
<1>2. RefreshRefused(r)
  <2>1. ASSUME NEW q \in Request, NEW one, one.stage # "login",
               exchange' = [exchange EXCEPT ![q] = one]
        PROVE  FALSE
    BY <1>1, <2>1
  <2>2. ASSUME NEW q \in Request, NEW stage, stage # "login", Advance(q, stage)
        PROVE  FALSE
    BY <1>1, <2>2 DEF Advance, Exchange
  <2>3. ASSUME NEW q \in Request, Handle(q), ~RefreshRefused(q)
        PROVE  FALSE
    <3>1. CASE VerifySession(q) \/ VerifyRotated(q)
      BY <2>2, <3>1 DEF VerifySession, VerifyRotated
    <3>2. CASE VerifySessionFails(q) \/ RefreshUnavailable(q) \/ VerifyRotatedFails(q)
      BY <2>2, <3>2 DEF VerifySessionFails, RefreshUnavailable, VerifyRotatedFails
    <3>3. CASE RefreshRotates(q)
      BY <2>1, <3>3 DEF RefreshRotates
    <3> QED
      BY <2>3, <3>1, <3>2, <3>3 DEF Handle
  <2>4. ASSUME NEW q \in Request, Send(q) \/ Deliver(q) \/ Lose(q)
        PROVE  FALSE
    BY <2>1, <2>4, FreeExchange DEF Send, Deliver, Lose
  <2>5. CASE OperatorRevokes \/ Tick \/ UNCHANGED vars
    BY <2>5 DEF OperatorRevokes, Tick, vars
  <2>6. ASSUME NEW q \in Request, RefreshRefused(q), q # r
        PROVE  FALSE
    BY <1>1, <2>6 DEF RefreshRefused
  <2> QED
    BY <2>3, <2>4, <2>5, <2>6 DEF Next
<1> DEFINE outcome == RotateRefresh(devices, exchange[r].rt, NoToken, now)
<1>3. /\ exchange[r].stage = "refresh"
      /\ exchange' = [exchange EXCEPT ![r].stage = "login", ![r].why = outcome.reply]
      /\ outcome.reply # "rotated"
  BY <1>2 DEF RefreshRefused
<1>4. outcome.reply = "reused"
  BY <1>1, <1>3 DEF Exchange
<1>5. OlderThanPrior(Paired, exchange[r].rt) /\ ~Paired.revoked
  BY <1>4, PhoneOutcome DEF SessionInv, HeldInv
<1>6. exchange[r].rt = jar.rt /\ jar.rt # NoToken
  BY <1>3 DEF SessionInv, SerialInv
<1>7. \A q \in Request : ~HasRotation(q)
  BY <1>3, OnlyRotation DEF HasRotation
<1> QED
  BY <1>5, <1>6, <1>7, PriorIsAccepted

\* With at most one rotation lost in a row, where the phone stands.
THEOREM PhoneStaysClose ==
    ASSUME MaxLostInRow <= 1
    PROVE  Spec => [](SessionInv /\ BehindInv /\ NeverReused)
<1>1. Init => BehindInv /\ NeverReused
  BY FreeExchange DEF Init, BehindInv, NeverReused, HasRotation
<1>2. SessionInv /\ BehindInv /\ NeverReused /\ [Next]_vars
        => SessionInv' /\ BehindInv' /\ NeverReused'
  BY SessionStep, BehindStep, ReuseStep
<1> QED
  BY <1>1, <1>2, SessionInitially, PTL DEF Spec

\* A phone that asks one request at a time is never taken for someone holding
\* an old copy, if no two rotations in a row are lost to it.
THEOREM NoFalseReuse == ASSUME MaxLostInRow <= 1 PROVE Spec => []ReuseIsGenuine
<1>1. NeverReused => ReuseIsGenuine
  BY DEF NeverReused, ReuseIsGenuine
<1> QED
  BY <1>1, PhoneStaysClose, PTL

\* What such a phone holds between exchanges is recognised and can be refreshed,
\* unless the phone is revoked or its 30 days have passed.
THEOREM PhoneRecovers == ASSUME MaxLostInRow <= 1 PROVE Spec => []PhoneCanRefresh
<1>1. SessionInv /\ BehindInv => PhoneCanRefresh
  <2> SUFFICES ASSUME SessionInv, BehindInv, serial, jar.rt # NoToken, ~Paired.revoked,
                      \A r \in Request : exchange[r] = Free,
                      ~(Paired.rtExp <= now)
               PROVE  /\ Phone \in Holders(devices, jar.rt)
                      /\ RotateRefresh(devices, jar.rt, minted + 1, now).reply = "rotated"
    BY DEF PhoneCanRefresh, Paired
  <2>1. \A r \in Request : ~HasRotation(r)
    BY FreeExchange DEF HasRotation
  <2>2. RotateVerdict(Paired, jar.rt, now) = "rotated"
    BY <2>1, PriorIsAccepted DEF RotateVerdict
  <2>3. jar.rt \in Chain(Paired)
    <3>1. Paired.rt = minted /\ Paired.prevs \in Seq(Token)
      BY KnownRecord DEF SessionInv, TypeOK, HeldInv, Paired, Record
    <3>2. CASE jar.rt = minted
      BY <3>1, <3>2 DEF Chain
    <3>3. CASE Prior(jar.rt)
      <4>1. 1 \in DOMAIN Paired.prevs
        BY <3>1, <3>3 DEF Prior
      <4> QED
        BY <3>3, <4>1 DEF Prior, Chain, Range
    <3> QED
      BY <2>1, <3>2, <3>3 DEF BehindInv
  <2>4. Phone \in Holders(devices, jar.rt)
    BY <2>3 DEF Holders, SessionInv, HeldInv, Paired
  <2>5. Holder(devices, jar.rt) = Phone
    BY <2>4, HolderKnown DEF SessionInv, TypeOK, HeldInv
  <2> QED
    BY <2>2, <2>4, <2>5 DEF RotateRefresh, Saved, Paired
<1> QED
  BY <1>1, PhoneStaysClose, PTL

----------------------------------------------------------------------------
(* The phone, the dashboard and the operator use the store as AtomicStore  *)
(* offers it, which is what DeviceStore is proved to implement.            *)

\* The abstract store, over the records and the clock of this module.
Records == INSTANCE AtomicStore

\* AtomicStore computes with the operators refresh_session and revoke call.
LEMMA SameRecords ==
    /\ \A data, rt, token, time :
          Records!RotateRefresh(data, rt, token, time) = RotateRefresh(data, rt, token, time)
    /\ \A data, d : Records!Revoke(data, d) = Revoke(data, d)
    /\ \A token : Records!Unused(token) <=> \A d \in Known(devices) : token \notin Chain(devices[d])
<1> USE DEF Records!Saved, Saved, Records!Refused, Refused, Records!Revoked, Revoked
<1>1. \A rec : Records!Chain(rec) = Chain(rec)
  BY DEF Records!Chain, Chain, Records!Range, Range
<1>2. \A data : Records!Known(data) = Known(data)
  BY DEF Records!Known, Known
<1>3. \A data, rt : Records!Holders(data, rt) = Holders(data, rt)
  BY <1>1, <1>2 DEF Records!Holders, Holders
<1>4. \A data, rt : Records!Holder(data, rt) = Holder(data, rt)
  BY <1>3 DEF Records!Holder, Holder
<1>5. \A rec, token, time : Records!Rotated(rec, token, time) = Rotated(rec, token, time)
  BY DEF Records!Rotated, Rotated, Records!Truncate, Truncate
<1>6. \A rec, rt, time : Records!RotateVerdict(rec, rt, time) = RotateVerdict(rec, rt, time)
  BY DEF Records!RotateVerdict, RotateVerdict, Records!OlderThanPrior, OlderThanPrior,
         Records!Range, Range
<1>7. ASSUME NEW data, NEW rt, NEW token, NEW time
      PROVE  Records!RotateRefresh(data, rt, token, time) = RotateRefresh(data, rt, token, time)
  <2>1. PICK d : d = Holder(data, rt)
    OBVIOUS
  <2>2. PICK verdict : verdict = RotateVerdict(data[d], rt, time)
    OBVIOUS
  <2>3. Records!Rotated(data[d], token, time) = Rotated(data[d], token, time)
    BY <1>5
  <2>4. Records!RotateVerdict(data[d], rt, time) = verdict
    BY <1>6, <2>2
  <2>5. Records!Holder(data, rt) = d /\ Records!Holders(data, rt) = Holders(data, rt)
    BY <1>3, <1>4, <2>1
  <2> QED
    BY <2>1, <2>2, <2>3, <2>4, <2>5 DEF Records!RotateRefresh, RotateRefresh
<1>8. \A data, d : Records!Revoke(data, d) = Revoke(data, d)
  BY DEF Records!Revoke, Revoke
<1>9. \A token : Records!Unused(token) <=> \A d \in Known(devices) : token \notin Chain(devices[d])
  BY <1>1, <1>2 DEF Records!Unused
<1> QED
  BY <1>7, <1>8, <1>9

\* A rotation by refresh_session is one of the store, of a token it has not had.
LEMMA RotationIsAtomic ==
    ASSUME SessionInv, NEW r \in Request, RefreshRotates(r)
    PROVE  Records!AtomicRotate
<1>1. PICK rt, outcome : /\ rt = exchange[r].rt
                         /\ outcome = RotateRefresh(devices, rt, minted + 1, now)
  OBVIOUS
<1>2. /\ outcome.reply = "rotated" /\ minted + 1 \in Token /\ devices' = outcome.data /\ now' = now
      /\ outcome.saves
  <2>1. outcome.reply = "rotated" => outcome.saves
    BY <1>1 DEF RotateRefresh, RotateVerdict, Saved, Refused
  <2> QED
    BY <1>1, <2>1 DEF RefreshRotates
<1>3. devices \in Store /\ now \in Nat /\ exchange[r] \in Exchange
  BY DEF SessionInv, TypeOK
<1>4. rt \in Token
  <2>1. rt \in Token \union {NoToken}
    BY <1>1, <1>3 DEF Exchange
  <2>2. PICK d \in Known(devices) : rt \in Chain(devices[d])
    BY <1>1, <1>2 DEF RotateRefresh, Holders, Refused
  <2>3. rt \in Tokens(devices)
    BY <2>2 DEF Tokens
  <2> QED
    BY <1>3, <2>3, StoreTokens
<1>5. Records!Unused(minted + 1)
  <2>1. Known(devices) = {Phone} /\ Paired.rt = minted /\ minted \in Nat
    BY TokenIsNumber DEF SessionInv, HeldInv
  <2>2. \A i \in DOMAIN Paired.prevs : Paired.prevs[i] \in Nat /\ Paired.prevs[i] < minted
    <3>1. Paired \in Record
      BY <1>3, <2>1, KnownRecord DEF Paired
    <3>2. Paired.prevs \in Seq(Token)
      BY <3>1 DEF Record
    <3> QED
      BY <3>2, TokenIsNumber DEF SessionInv, HeldInv
  <2>3. minted + 1 \notin Range(Paired.prevs)
    BY <2>1, <2>2 DEF Range
  <2>4. minted + 1 \notin Chain(Paired)
    BY <2>1, <2>3 DEF Chain
  <2> QED
    BY <2>1, <2>4, SameRecords DEF Paired
<1>6. Records!RotateRefresh(devices, rt, minted + 1, now) = outcome
  BY <1>1, SameRecords
<1>7. now \in 0 .. now
  BY <1>3
<1> QED
  BY <1>2, <1>4, <1>5, <1>6, <1>7 DEF Records!AtomicRotate, Records!Takes

\* A refusal by refresh_session leaves the store, or is its detection of reuse.
LEMMA RefusalIsAtomic ==
    ASSUME SessionInv, NEW r \in Request, RefreshRefused(r)
    PROVE  UNCHANGED <<devices, now>> \/ Records!AtomicReuse
<1>1. PICK rt, outcome : rt = exchange[r].rt /\ outcome = RotateRefresh(devices, rt, NoToken, now)
  OBVIOUS
<1>2. outcome.reply # "rotated" /\ devices' = outcome.data /\ now' = now
  BY <1>1 DEF RefreshRefused
<1>3. devices \in Store /\ now \in Nat /\ exchange[r] \in Exchange
  BY DEF SessionInv, TypeOK
<1>4. \/ outcome.data = devices
      \/ outcome.saves /\ outcome.reply = "reused" /\ Holders(devices, rt) # {}
  BY <1>1, <1>2 DEF RotateRefresh, Saved, Refused
<1>5. CASE outcome.data = devices
  BY <1>2, <1>5
<1>6. CASE outcome.saves /\ outcome.reply = "reused" /\ Holders(devices, rt) # {}
  <2>1. rt \in Token
    <3>1. rt \in Token \union {NoToken}
      BY <1>1, <1>3 DEF Exchange
    <3>2. PICK d \in Known(devices) : rt \in Chain(devices[d])
      BY <1>6 DEF Holders
    <3>3. rt \in Tokens(devices)
      BY <3>2 DEF Tokens
    <3> QED
      BY <1>3, <3>3, StoreTokens
  <2>2. Records!RotateRefresh(devices, rt, Records!NoToken, now) = outcome
    BY <1>1, SameRecords DEF Records!NoToken, NoToken
  <2>3. now \in 0 .. now
    BY <1>3
  <2> QED
    BY <1>2, <1>6, <2>1, <2>2, <2>3 DEF Records!AtomicReuse, Records!Takes
<1> QED
  BY <1>4, <1>5, <1>6

\* Whatever the phone, the network and the operator do, the records start as
\* create_device leaves them and go through the steps of AtomicStore: what is
\* shown of the phone is shown over the store that DeviceStore implements.
THEOREM SessionsUseTheStore ==
    Spec => /\ devices = CreateDevice(EmptyStore, Phone, 1, 0).data
            /\ [][Records!AtomicNext]_<<devices, now>>
<1>1. ASSUME SessionInv, [Next]_vars PROVE [Records!AtomicNext]_<<devices, now>>
  <2>1. CASE \E r \in Request : RefreshRotates(r)
    BY <1>1, <2>1, RotationIsAtomic DEF Records!AtomicNext
  <2>2. CASE \E r \in Request : RefreshRefused(r)
    BY <1>1, <2>2, RefusalIsAtomic DEF Records!AtomicNext
  <2>3. CASE OperatorRevokes
    <3>1. Known(devices) = {Phone}
      BY <1>1 DEF SessionInv, HeldInv
    <3>2. Revoke(devices, Phone).saves
      BY <3>1 DEF Revoke, Saved, Known
    <3>3. Records!Takes(Records!Revoke(devices, Phone))
      BY <2>3, <3>2, SameRecords DEF OperatorRevokes, Records!Takes
    <3> QED
      BY <3>3, RefreshSessionAssumption DEF Records!AtomicNext, Records!AtomicRevoke
  <2>4. CASE Tick
    BY <2>4 DEF Tick, Records!Tick, Records!AtomicNext
  <2>5. CASE UNCHANGED <<devices, now>>
    BY <2>5
  <2> QED
    BY <1>1, <2>1, <2>2, <2>3, <2>4, <2>5
    DEF Next, Handle, Send, VerifySession, VerifySessionFails, RefreshUnavailable,
        VerifyRotated, VerifyRotatedFails, Deliver, Lose, vars
<1>2. Init => devices = CreateDevice(EmptyStore, Phone, 1, 0).data
  BY DEF Init, CreateDevice, Saved
<1> QED
  BY <1>1, <1>2, SessionInvariant, PTL DEF Spec

=============================================================================
