------------------------ MODULE DeviceRecords_proofs ------------------------
(* What the mutators' operators return, preserve and leave alone. *)
EXTENDS DeviceRecords, TLAPS

\* Cutting the list of old hashes leaves a list of hashes.
LEMMA TruncateType ==
  ASSUME NEW S, NEW s \in Seq(S)
  PROVE  Truncate(s) \in Seq(S)
<1>1. CASE Len(s) <= MaxPrev
  BY <1>1 DEF Truncate
<1>2. CASE ~(Len(s) <= MaxPrev)
  <2>1. MaxPrev \in 0 .. Len(s)
    BY <1>2, DeviceRecordsAssumption
  <2> QED
    BY <1>2, <2>1 DEF Truncate
<1> QED
  BY <1>1, <1>2

\* What pairing stores is a record.
LEMMA NewRecordType ==
  ASSUME NEW token \in Token, NEW time \in Nat
  PROVE  NewRecord(token, time) \in Record
BY DeviceRecordsAssumption DEF NewRecord, Record, NoToken

\* What a rotation stores is a record.
LEMMA RotatedType ==
  ASSUME NEW rec \in Record, NEW token \in Token, NEW time \in Nat
  PROVE  Rotated(rec, token, time) \in Record
<1>1. <<rec.rt>> \o rec.prevs \in Seq(Token)
  BY DEF Record
<1>2. Truncate(<<rec.rt>> \o rec.prevs) \in Seq(Token)
  BY <1>1, TruncateType
<1>3. time + RefreshTTL \in Nat /\ time + AccessTTL \in Nat
  BY DeviceRecordsAssumption
<1> DEFINE kept == Truncate(<<rec.rt>> \o rec.prevs)
<1> HIDE DEF kept
<1>4. Rotated(rec, token, time) =
        [rec EXCEPT !.prevs = kept, !.rt = token, !.rtExp = time + RefreshTTL,
                    !.at = token, !.atExp = time + AccessTTL]
  BY DEF Rotated, kept
<1>5. kept \in Seq(Token)
  BY <1>2 DEF kept
<1> QED
  BY <1>3, <1>4, <1>5 DEF Record

\* A device that is known has a record.
LEMMA KnownRecord ==
  ASSUME NEW data \in Store, NEW d \in Known(data)
  PROVE  d \in Device /\ data[d] \in Record
BY DEF Store, Known

\* The device the loop stops at is a known one.
LEMMA HolderKnown ==
  ASSUME NEW data \in Store, NEW rt, Holders(data, rt) # {}
  PROVE  Holder(data, rt) \in Known(data)
BY DEF Holder, Holders

\* Marking a known device revoked leaves a store.
LEMMA RevokedType ==
  ASSUME NEW data \in Store, NEW d \in Known(data)
  PROVE  Revoked(data, d) \in Store
<1>1. [data[d] EXCEPT !.revoked = TRUE] \in Record
  BY KnownRecord DEF Record
<1> QED
  BY <1>1, KnownRecord DEF Revoked, Store

\* Whatever a mutator is asked, the data it would save is a store.
LEMMA CreateType ==
  ASSUME NEW data \in Store, NEW d \in Device, NEW token \in Token, NEW time \in Nat
  PROVE  CreateDevice(data, d, token, time).data \in Store
BY NewRecordType DEF CreateDevice, Saved, Store

\* So it is for a rotation, whose token is one if it rotates.
LEMMA RotateType ==
  ASSUME NEW data \in Store, NEW rt, NEW time \in Nat, NEW token,
         RotateRefresh(data, rt, token, time).reply = "rotated" => token \in Token
  PROVE  RotateRefresh(data, rt, token, time).data \in Store
<1> DEFINE d == Holder(data, rt)
           verdict == RotateVerdict(data[d], rt, time)
<1>1. CASE Holders(data, rt) = {}
  BY <1>1 DEF RotateRefresh, Refused
<1>2. CASE Holders(data, rt) # {}
  <2>1. d \in Known(data)
    BY <1>2, HolderKnown
  <2>2. CASE verdict = "reused"
    BY <1>2, <2>1, <2>2, RevokedType DEF RotateRefresh, Saved
  <2>3. CASE verdict = "rotated"
    <3>1. token \in Token
      BY <1>2, <2>3 DEF RotateRefresh, Saved
    <3>2. Rotated(data[d], token, time) \in Record
      BY <2>1, <3>1, KnownRecord, RotatedType
    <3> QED
      BY <1>2, <2>3, <3>2 DEF RotateRefresh, Saved, Store
  <2>4. CASE verdict \notin {"reused", "rotated"}
    BY <1>2, <2>4 DEF RotateRefresh, Refused
  <2> QED
    BY <2>2, <2>3, <2>4
<1> QED
  BY <1>1, <1>2

\* So it is for revoke.
LEMMA RevokeType ==
  ASSUME NEW data \in Store, NEW d \in Device
  PROVE  Revoke(data, d).data \in Store
BY RevokedType DEF Revoke, Refused, Saved, Known

\* So it is for revoke_by_refresh.
LEMMA LogoutType ==
  ASSUME NEW data \in Store, NEW rt
  PROVE  RevokeByRefresh(data, rt).data \in Store
BY RevokedType, HolderKnown DEF RevokeByRefresh, Refused, Saved

\* So it is for set_push_token.
LEMMA SetPushType ==
  ASSUME NEW data \in Store, NEW d \in Device, NEW push \in Push \union {NoPush}
  PROVE  SetPushToken(data, d, push).data \in Store
<1>1. CASE data[d] = NoRecord \/ data[d].revoked
  BY <1>1 DEF SetPushToken, Refused
<1>2. CASE ~(data[d] = NoRecord \/ data[d].revoked)
  <2>1. data[d] \in Record
    BY <1>2 DEF Store
  <2>2. [data[d] EXCEPT !.push = push] \in Record
    BY <2>1 DEF Record
  <2> QED
    BY <1>2, <2>2 DEF SetPushToken, Saved, Store
<1> QED
  BY <1>1, <1>2

----------------------------------------------------------------------------
\* A store that forgets no device and un-revokes none.
KeepsRevoked(data, next) ==
  \A d \in Known(data) : data[d].revoked => d \in Known(next) /\ next[d].revoked

\* No mutator brings a revoked device back, in the data it loaded.
LEMMA RevokedKeeps ==
  ASSUME NEW data \in Store, NEW d \in Known(data)
  PROVE  KeepsRevoked(data, Revoked(data, d))
<1>1. [data[d] EXCEPT !.revoked = TRUE] \in Record
  BY KnownRecord DEF Record
<1> QED
  BY <1>1, KnownRecord, NoRecordAssumption DEF KeepsRevoked, Revoked, Known, Store, Record

\* Pairing writes under an id that is not in use.
LEMMA CreateKeeps ==
  ASSUME NEW data \in Store, NEW d \in Device \ Known(data), NEW token, NEW time
  PROVE  KeepsRevoked(data, CreateDevice(data, d, token, time).data)
BY DEF KeepsRevoked, CreateDevice, Saved, Known, Store

\* A rotation leaves revoked records alone, or revokes one.
LEMMA RotateKeeps ==
  ASSUME NEW data \in Store, NEW rt, NEW token, NEW time
  PROVE  KeepsRevoked(data, RotateRefresh(data, rt, token, time).data)
<1> DEFINE d == Holder(data, rt)
           verdict == RotateVerdict(data[d], rt, time)
<1>0. KeepsRevoked(data, data)
  BY DEF KeepsRevoked
<1>1. CASE Holders(data, rt) = {}
  BY <1>0, <1>1 DEF RotateRefresh, Refused
<1>2. CASE Holders(data, rt) # {}
  <2>1. d \in Known(data)
    BY <1>2, HolderKnown
  <2>2. CASE verdict = "reused"
    BY <1>2, <2>1, <2>2, RevokedKeeps DEF RotateRefresh, Saved
  <2>3. CASE verdict = "rotated"
    <3>1. ~data[d].revoked
      BY <2>3 DEF RotateVerdict
    <3>2. RotateRefresh(data, rt, token, time).data =
            [data EXCEPT ![d] = Rotated(data[d], token, time)]
      BY <1>2, <2>3 DEF RotateRefresh, Saved
    <3> QED
      BY <2>1, <3>1, <3>2 DEF KeepsRevoked, Known, Store
  <2>4. CASE verdict \notin {"reused", "rotated"}
    BY <1>0, <1>2, <2>4 DEF RotateRefresh, Refused
  <2> QED
    BY <2>2, <2>3, <2>4
<1> QED
  BY <1>1, <1>2

\* revoke keeps them revoked.
LEMMA RevokeKeeps ==
  ASSUME NEW data \in Store, NEW d \in Device
  PROVE  KeepsRevoked(data, Revoke(data, d).data)
<1>1. CASE data[d] = NoRecord
  BY <1>1 DEF Revoke, Refused, KeepsRevoked
<1>2. CASE data[d] # NoRecord
  BY <1>2, RevokedKeeps DEF Revoke, Saved, Known
<1> QED
  BY <1>1, <1>2

\* So does revoke_by_refresh.
LEMMA LogoutKeeps ==
  ASSUME NEW data \in Store, NEW rt
  PROVE  KeepsRevoked(data, RevokeByRefresh(data, rt).data)
<1>1. CASE Holders(data, rt) = {}
  BY <1>1 DEF RevokeByRefresh, Refused, KeepsRevoked
<1>2. CASE Holders(data, rt) # {}
  BY <1>2, RevokedKeeps, HolderKnown DEF RevokeByRefresh, Saved
<1> QED
  BY <1>1, <1>2

\* So does set_push_token, which refuses revoked devices.
LEMMA SetPushKeeps ==
  ASSUME NEW data \in Store, NEW d \in Device, NEW push
  PROVE  KeepsRevoked(data, SetPushToken(data, d, push).data)
<1>1. CASE data[d] = NoRecord \/ data[d].revoked
  BY <1>1 DEF SetPushToken, Refused, KeepsRevoked
<1>2. CASE ~(data[d] = NoRecord \/ data[d].revoked)
  <2>1. SetPushToken(data, d, push).data = [data EXCEPT ![d] = [data[d] EXCEPT !.push = push]]
    BY <1>2 DEF SetPushToken, Saved
  <2> QED
    BY <1>2, <2>1 DEF KeepsRevoked, Known, Store
<1> QED
  BY <1>1, <1>2

----------------------------------------------------------------------------
\* Only create_device adds a device.
LEMMA RotateKnown ==
  ASSUME NEW data \in Store, NEW rt, NEW token, NEW time
  PROVE  Known(RotateRefresh(data, rt, token, time).data) \subseteq Known(data)
<1> DEFINE d == Holder(data, rt)
           verdict == RotateVerdict(data[d], rt, time)
<1>1. CASE Holders(data, rt) = {}
  BY <1>1 DEF RotateRefresh, Refused
<1>2. CASE Holders(data, rt) # {}
  <2>1. d \in Known(data)
    BY <1>2, HolderKnown
  <2> QED
    BY <1>2, <2>1 DEF RotateRefresh, Refused, Saved, Revoked, Known, Store
<1> QED
  BY <1>1, <1>2

\* Logging out adds no device.
LEMMA LogoutKnown ==
  ASSUME NEW data \in Store, NEW rt
  PROVE  Known(RevokeByRefresh(data, rt).data) \subseteq Known(data)
<1>1. CASE Holders(data, rt) = {}
  BY <1>1 DEF RevokeByRefresh, Refused
<1>2. CASE Holders(data, rt) # {}
  BY <1>2, HolderKnown DEF RevokeByRefresh, Saved, Revoked, Known, Store
<1> QED
  BY <1>1, <1>2

----------------------------------------------------------------------------
(* The refresh tokens a store recognises: one device each, and forgotten   *)
(* only by a device whose history is full.                                 *)

Tokens(data) == UNION {Chain(data[d]) : d \in Known(data)}

\* A token sits once in the chain of a record.
Single(rec) ==
  /\ rec.rt \notin Range(rec.prevs)
  /\ \A i, j \in DOMAIN rec.prevs : rec.prevs[i] = rec.prevs[j] => i = j

\* A token sits in the chain of one device.
Unshared(data) ==
  /\ \A d, e \in Known(data) : d # e => Chain(data[d]) \cap Chain(data[e]) = {}
  /\ \A d \in Known(data) : Single(data[d])

\* A token is known, or it may have been pushed out of a full history.
Recognised(data, token) ==
  \E d \in Known(data) : token \in Chain(data[d]) \/ Len(data[d].prevs) = MaxPrev

\* The chain of a record after a mutator that mints the tokens in new for it.
Follows(old, rec, new) ==
  /\ Chain(rec) \subseteq Chain(old) \union new
  /\ new \subseteq Chain(rec)
  /\ Single(old) /\ new \cap Chain(old) = {} => Single(rec)
  /\ Chain(old) \subseteq Chain(rec) \/ Len(rec.prevs) = MaxPrev
  /\ Len(old.prevs) = MaxPrev => Len(rec.prevs) = MaxPrev

\* The same for the store.
TokensFollow(data, next, new) ==
  /\ Tokens(next) \subseteq Tokens(data) \union new
  /\ new \subseteq Tokens(next)
  /\ Unshared(data) /\ new \cap Tokens(data) = {} => Unshared(next)

\* What the store recognised it still does.
Remembers(data, next) == \A token : Recognised(data, token) => Recognised(next, token)

\* The tokens of a store are tokens.
LEMMA StoreTokens ==
  ASSUME NEW data \in Store
  PROVE  Tokens(data) \subseteq Token
<1>1. ASSUME NEW d \in Known(data) PROVE Chain(data[d]) \subseteq Token
  <2>1. data[d].rt \in Token /\ data[d].prevs \in Seq(Token)
    BY KnownRecord DEF Record
  <2>2. \A i \in DOMAIN data[d].prevs : data[d].prevs[i] \in Token
    BY <2>1
  <2> QED
    BY <2>1, <2>2 DEF Chain, Range
<1> QED
  BY <1>1 DEF Tokens

\* Truncate keeps the newest hashes, all of them or as many as fit.
LEMMA TruncateKeeps ==
  ASSUME NEW S, NEW s \in Seq(S)
  PROVE  /\ Truncate(s) \in Seq(S) /\ Len(Truncate(s)) \in 0 .. Len(s)
         /\ \A i \in 1 .. Len(Truncate(s)) : Truncate(s)[i] = s[i]
         /\ Truncate(s) = s \/ Len(Truncate(s)) = MaxPrev
         /\ Len(s) > MaxPrev => Len(Truncate(s)) = MaxPrev
<1>1. CASE Len(s) <= MaxPrev
  BY <1>1, DeviceRecordsAssumption DEF Truncate
<1>2. CASE ~(Len(s) <= MaxPrev)
  <2>1. MaxPrev \in 1 .. Len(s)
    BY <1>2, DeviceRecordsAssumption
  <2>2. Truncate(s) = SubSeq(s, 1, MaxPrev)
    BY <1>2 DEF Truncate
  <2>3. /\ SubSeq(s, 1, MaxPrev) \in Seq(S) /\ Len(SubSeq(s, 1, MaxPrev)) = MaxPrev
        /\ \A i \in 1 .. MaxPrev : SubSeq(s, 1, MaxPrev)[i] = s[i]
    BY <2>1
  <2> QED
    BY <2>1, <2>2, <2>3
<1> QED
  BY <1>1, <1>2

\* A rotation puts the old token first in the history.
LEMMA RotatedFollows ==
  ASSUME NEW rec \in Record, NEW token \in Token, NEW time \in Nat
  PROVE  Follows(rec, Rotated(rec, token, time), {token})
<1> DEFINE new == Rotated(rec, token, time)
           all == <<rec.rt>> \o rec.prevs
<1>1. PICK kept : kept = Truncate(all)
  OBVIOUS
<1>2. new.prevs = kept /\ new.rt = token /\ rec.rt \in Token /\ rec.prevs \in Seq(Token)
  BY <1>1 DEF Rotated, Record
<1>3. /\ all \in Seq(Token) /\ Len(all) = Len(rec.prevs) + 1 /\ Len(rec.prevs) \in Nat
      /\ all[1] = rec.rt /\ \A i \in 2 .. Len(all) : all[i] = rec.prevs[i - 1]
  BY <1>2
<1> HIDE DEF all, new
<1>4. /\ kept \in Seq(Token) /\ Len(kept) \in 0 .. Len(all)
      /\ \A i \in 1 .. Len(kept) : kept[i] = all[i]
      /\ kept = all \/ Len(kept) = MaxPrev
      /\ Len(all) > MaxPrev => Len(kept) = MaxPrev
  BY <1>1, <1>3, TruncateKeeps
<1>5. /\ DOMAIN kept = 1 .. Len(kept) /\ DOMAIN rec.prevs = 1 .. Len(rec.prevs)
      /\ Range(kept) = {kept[i] : i \in 1 .. Len(kept)}
      /\ Range(rec.prevs) = {rec.prevs[i] : i \in 1 .. Len(rec.prevs)}
  BY <1>2, <1>4 DEF Range
<1>6. \A i \in 1 .. Len(all) :
          \/ i = 1 /\ all[i] = rec.rt
          \/ i - 1 \in 1 .. Len(rec.prevs) /\ all[i] = rec.prevs[i - 1]
  BY <1>3
<1>7. \A i \in 1 .. Len(all) : all[i] \in Chain(rec)
  BY <1>5, <1>6 DEF Chain
<1>8. Range(kept) \subseteq Chain(rec)
  <2>1. \A i \in 1 .. Len(kept) : i \in 1 .. Len(all)
    BY <1>3, <1>4
  <2>2. \A i \in 1 .. Len(kept) : kept[i] \in Chain(rec)
    BY <1>4, <1>7, <2>1
  <2> QED
    BY <1>5, <2>2
<1>9. Chain(rec) \subseteq Range(kept) \/ Len(kept) = MaxPrev
  <2> SUFFICES ASSUME kept = all PROVE Chain(rec) \subseteq Range(kept)
    BY <1>4
  <2>1. 1 \in 1 .. Len(kept) /\ \A i \in 1 .. Len(rec.prevs) :
            i + 1 \in 1 .. Len(kept) /\ kept[i + 1] = rec.prevs[i]
    BY <1>3
  <2>2. rec.rt \in Range(kept)
    BY <1>3, <1>5, <2>1
  <2>3. Range(rec.prevs) \subseteq Range(kept)
    BY <1>5, <2>1
  <2> QED
    BY <2>2, <2>3 DEF Chain
<1>10. ASSUME Single(rec), {token} \cap Chain(rec) = {}
       PROVE  Single(new)
  <2>1. new.rt \notin Range(new.prevs)
    BY <1>2, <1>8, <1>10
  <2>2. \A i, j \in 1 .. Len(kept) : kept[i] = kept[j] => i = j
    <3> SUFFICES ASSUME NEW i \in 1 .. Len(kept), NEW j \in 1 .. Len(kept), kept[i] = kept[j]
                 PROVE  i = j
      OBVIOUS
    <3>1. i \in 1 .. Len(all) /\ j \in 1 .. Len(all) /\ all[i] = all[j]
      BY <1>3, <1>4
    <3>2. rec.rt \notin Range(rec.prevs)
      BY <1>10 DEF Single
    <3>3. CASE i = 1 \/ j = 1
      <4>1. \A k \in 1 .. Len(all) : k # 1 => all[k] \in Range(rec.prevs)
        BY <1>5, <1>6
      <4>2. all[1] \notin Range(rec.prevs)
        BY <1>3, <3>2
      <4> QED
        BY <3>1, <3>3, <4>1, <4>2
    <3>4. CASE i # 1 /\ j # 1
      <4>1. /\ i - 1 \in 1 .. Len(rec.prevs) /\ j - 1 \in 1 .. Len(rec.prevs)
            /\ rec.prevs[i - 1] = rec.prevs[j - 1]
        BY <1>6, <3>1, <3>4
      <4>2. i - 1 = j - 1
        BY <1>5, <1>10, <4>1 DEF Single
      <4> QED
        BY <1>3, <3>1, <4>2
    <3> QED
      BY <3>3, <3>4
  <2> QED
    BY <1>2, <1>5, <2>1, <2>2 DEF Single
<1>11. Chain(new) = {token} \union Range(kept)
  BY <1>2 DEF Chain
<1>12. Len(rec.prevs) = MaxPrev => Len(kept) = MaxPrev
  BY <1>3, <1>4, DeviceRecordsAssumption
<1>13. Follows(rec, new, {token})
  BY <1>2, <1>8, <1>9, <1>10, <1>11, <1>12 DEF Follows
<1> QED
  BY <1>13 DEF new

\* A mutator that changes one record changes the store's tokens as the record's.
LEMMA ReplacedFollows ==
  ASSUME NEW data \in Store, NEW d \in Known(data), NEW rec \in Record, NEW new,
         Follows(data[d], rec, new)
  PROVE  /\ TokensFollow(data, [data EXCEPT ![d] = rec], new)
         /\ Remembers(data, [data EXCEPT ![d] = rec])
<1> DEFINE next == [data EXCEPT ![d] = rec]
<1>1. /\ Known(next) = Known(data) /\ next[d] = rec
      /\ \A e \in Known(data) \ {d} : next[e] = data[e]
  BY NoRecordAssumption DEF Known, Store
<1> HIDE DEF next
<1>2. Tokens(next) \subseteq Tokens(data) \union new /\ new \subseteq Tokens(next)
  BY <1>1 DEF Tokens, Follows
<1>3. ASSUME Unshared(data), new \cap Tokens(data) = {} PROVE Unshared(next)
  <2>1. \A e \in Known(data) : Chain(data[e]) \subseteq Tokens(data)
    BY DEF Tokens
  <2>2. Single(rec)
    BY <1>3, <2>1 DEF Follows, Unshared
  <2>3. \A e, f \in Known(data) : e # f => Chain(next[e]) \cap Chain(next[f]) = {}
    <3>1. Chain(rec) \subseteq Chain(data[d]) \union new
      BY DEF Follows
    <3>2. \A e \in Known(data) \ {d} : Chain(rec) \cap Chain(data[e]) = {}
      BY <1>3, <2>1, <3>1 DEF Unshared
    <3> QED
      BY <1>1, <1>3, <3>2 DEF Unshared
  <2> QED
    BY <1>1, <1>3, <2>2, <2>3 DEF Unshared
<1>4. ASSUME NEW token, Recognised(data, token) PROVE Recognised(next, token)
  <2>1. PICK e \in Known(data) : token \in Chain(data[e]) \/ Len(data[e].prevs) = MaxPrev
    BY <1>4 DEF Recognised
  <2>2. token \in Chain(next[e]) \/ Len(next[e].prevs) = MaxPrev
    BY <1>1, <2>1 DEF Follows
  <2> QED
    BY <1>1, <2>2 DEF Recognised
<1>5. TokensFollow(data, next, new) /\ Remembers(data, next)
  BY <1>2, <1>3, <1>4 DEF TokensFollow, Remembers
<1> QED
  BY <1>5 DEF next

\* A store that stays as it is.
LEMMA NothingFollows ==
  ASSUME NEW data
  PROVE  TokensFollow(data, data, {}) /\ Remembers(data, data)
BY DEF TokensFollow, Remembers

\* A new device has a token and no history.
LEMMA CreateFollows ==
  ASSUME NEW data \in Store, NEW d \in Device, NEW token \in Token, NEW time \in Nat
  PROVE  /\ TokensFollow(data, CreateDevice(data, d, token, time).data, {token})
         /\ d \notin Known(data) => Remembers(data, CreateDevice(data, d, token, time).data)
<1> DEFINE rec == NewRecord(token, time)
           next == [data EXCEPT ![d] = rec]
<1>0. CreateDevice(data, d, token, time).data = next
  BY DEF CreateDevice, Saved
<1>1. rec \in Record /\ rec.rt = token /\ rec.prevs = <<>>
  BY NewRecordType DEF NewRecord
<1>2. Range(<<>>) = {} /\ DOMAIN <<>> = {}
  BY DEF Range
<1> HIDE DEF rec
<1>3. Chain(rec) = {token} /\ Single(rec)
  BY <1>1, <1>2 DEF Chain, Single
<1>4. /\ Known(next) = Known(data) \union {d} /\ next[d] = rec
      /\ \A e \in Known(data) \ {d} : next[e] = data[e]
  BY <1>1, NoRecordAssumption DEF Known, Store
<1> HIDE DEF next
<1>5. Tokens(next) \subseteq Tokens(data) \union {token} /\ token \in Tokens(next)
  BY <1>3, <1>4 DEF Tokens
<1>6. ASSUME Unshared(data), {token} \cap Tokens(data) = {} PROVE Unshared(next)
  <2>1. \A e \in Known(data) : token \notin Chain(data[e])
    BY <1>6 DEF Tokens
  <2> QED
    BY <1>3, <1>4, <1>6, <2>1 DEF Unshared
<1>7. d \notin Known(data) => Remembers(data, next)
  BY <1>4 DEF Recognised, Remembers
<1>8. TokensFollow(data, next, {token})
  BY <1>5, <1>6 DEF TokensFollow
<1> QED
  BY <1>0, <1>7, <1>8

\* Revoking a device keeps its chain.
LEMMA RevokedFollows ==
  ASSUME NEW data \in Store, NEW d \in Known(data)
  PROVE  TokensFollow(data, Revoked(data, d), {}) /\ Remembers(data, Revoked(data, d))
<1>1. PICK rec : rec = [data[d] EXCEPT !.revoked = TRUE]
  OBVIOUS
<1>2. rec \in Record /\ rec.rt = data[d].rt /\ rec.prevs = data[d].prevs
  BY <1>1, KnownRecord DEF Record
<1>3. Follows(data[d], rec, {})
  BY <1>2 DEF Follows, Chain, Single
<1>4. Revoked(data, d) = [data EXCEPT ![d] = rec]
  BY <1>1, KnownRecord DEF Revoked
<1> QED
  BY <1>2, <1>3, <1>4, ReplacedFollows

\* Only a rotation that succeeds mints a token, the one it was given.
LEMMA RotateFollows ==
  ASSUME NEW data \in Store, NEW rt, NEW time \in Nat, NEW token,
         RotateRefresh(data, rt, token, time).reply = "rotated" => token \in Token
  PROVE  /\ TokensFollow(data, RotateRefresh(data, rt, token, time).data,
                IF RotateRefresh(data, rt, token, time).reply = "rotated"
                THEN {token} ELSE {})
         /\ Remembers(data, RotateRefresh(data, rt, token, time).data)
<1> DEFINE d == Holder(data, rt)
           verdict == RotateVerdict(data[d], rt, time)
<1>1. CASE Holders(data, rt) = {}
  <2>1. RotateRefresh(data, rt, token, time) = Refused("unknown", data)
    BY <1>1 DEF RotateRefresh
  <2> QED
    BY <2>1, NothingFollows DEF Refused
<1>2. CASE Holders(data, rt) # {} /\ verdict = "reused"
  <2>1. RotateRefresh(data, rt, token, time) = Saved("reused", Revoked(data, d))
    BY <1>2 DEF RotateRefresh
  <2>2. d \in Known(data)
    BY <1>2, HolderKnown
  <2> QED
    BY <2>1, <2>2, RevokedFollows DEF Saved
<1>3. CASE Holders(data, rt) # {} /\ verdict = "rotated"
  <2>1. RotateRefresh(data, rt, token, time) =
          Saved("rotated", [data EXCEPT ![d] = Rotated(data[d], token, time)])
    BY <1>3 DEF RotateRefresh
  <2>2. d \in Known(data) /\ token \in Token
    BY <1>3, <2>1, HolderKnown DEF Saved
  <2>3. Rotated(data[d], token, time) \in Record
    BY <2>2, KnownRecord, RotatedType
  <2>4. Follows(data[d], Rotated(data[d], token, time), {token})
    BY <2>2, KnownRecord, RotatedFollows
  <2> HIDE DEF d
  <2>5. /\ TokensFollow(data, [data EXCEPT ![d] = Rotated(data[d], token, time)], {token})
        /\ Remembers(data, [data EXCEPT ![d] = Rotated(data[d], token, time)])
    BY <2>2, <2>3, <2>4, ReplacedFollows
  <2> QED
    BY <2>1, <2>5 DEF Saved
<1>4. CASE Holders(data, rt) # {} /\ verdict \notin {"reused", "rotated"}
  <2>1. RotateRefresh(data, rt, token, time) = Refused(verdict, data)
    BY <1>4 DEF RotateRefresh
  <2>2. verdict # "rotated"
    BY <1>4
  <2> QED
    BY <2>1, <2>2, NothingFollows DEF Refused
<1> QED
  BY <1>1, <1>2, <1>3, <1>4

\* revoke, revoke_by_refresh and set_push_token mint none.
LEMMA RevokeFollows ==
  ASSUME NEW data \in Store, NEW d \in Device
  PROVE  /\ TokensFollow(data, Revoke(data, d).data, {})
         /\ Remembers(data, Revoke(data, d).data)
BY RevokedFollows, NothingFollows DEF Revoke, Refused, Saved, Known

\* Logging out revokes the holder of the token, or nobody.
LEMMA LogoutFollows ==
  ASSUME NEW data \in Store, NEW rt
  PROVE  /\ TokensFollow(data, RevokeByRefresh(data, rt).data, {})
         /\ Remembers(data, RevokeByRefresh(data, rt).data)
BY RevokedFollows, NothingFollows, HolderKnown DEF RevokeByRefresh, Refused, Saved

\* Registering a push token leaves the chain alone.
LEMMA SetPushFollows ==
  ASSUME NEW data \in Store, NEW d \in Device, NEW push \in Push \union {NoPush}
  PROVE  /\ TokensFollow(data, SetPushToken(data, d, push).data, {})
         /\ Remembers(data, SetPushToken(data, d, push).data)
<1>1. CASE data[d] = NoRecord \/ data[d].revoked
  BY <1>1, NothingFollows DEF SetPushToken, Refused
<1>2. CASE ~(data[d] = NoRecord \/ data[d].revoked)
  <2>1. PICK rec : rec = [data[d] EXCEPT !.push = push]
    OBVIOUS
  <2>2. d \in Known(data)
    BY <1>2 DEF Known
  <2>3. rec \in Record /\ rec.rt = data[d].rt /\ rec.prevs = data[d].prevs
    BY <2>1, <2>2, KnownRecord DEF Record
  <2>4. Follows(data[d], rec, {})
    BY <2>3 DEF Follows, Chain, Single
  <2>5. SetPushToken(data, d, push).data = [data EXCEPT ![d] = rec]
    BY <1>2, <2>1 DEF SetPushToken, Saved
  <2> QED
    BY <2>2, <2>3, <2>4, <2>5, ReplacedFollows
<1> QED
  BY <1>1, <1>2

=============================================================================
