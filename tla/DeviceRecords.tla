--------------------------- MODULE DeviceRecords ---------------------------
(***************************************************************************)
(* What the mutators of hermes_mobile/device_store.py compute from the     *)
(* loaded store: pure operators on device records, shared by the           *)
(* specifications that call them.                                          *)
(*                                                                         *)
(* Tokens are the serial numbers of their minting.  The store keeps only   *)
(* SHA-256 hashes and compares hashes; distinct tokens have distinct       *)
(* hashes, so a serial stands for a token and for its hash.  A rotation    *)
(* mints an access and a refresh token together and both get its serial.   *)
(* NoToken is the empty string: no access token yet, or an absent one.     *)
(***************************************************************************)
EXTENDS Integers, Sequences, Functions

CONSTANTS
    Device,      \* device ids
    Token,       \* tokens that can be minted
    NoRecord,    \* what the store holds for an id that is not paired
    Push,        \* Expo push tokens
    NoPush,      \* no push token registered
    AccessTTL,   \* ACCESS_TTL_SECONDS
    RefreshTTL,  \* REFRESH_TTL_SECONDS
    MaxPrev      \* _MAX_PREV_HASHES

ASSUME DeviceRecordsAssumption ==
    /\ Token \subseteq Nat \ {0}
    /\ NoPush \notin Push
    /\ AccessTTL \in Nat \ {0}
    /\ RefreshTTL \in Nat \ {0}
    /\ MaxPrev \in Nat \ {0}

NoToken == 0

Record ==
    [revoked : BOOLEAN,
     rt      : Token,             \* refresh_token_hash
     rtExp   : Nat,               \* refresh_expires_at
     prevs   : Seq(Token),        \* prev_refresh_token_hashes, newest first
     at      : Token \union {NoToken},  \* access_token_hash
     atExp   : Nat,               \* access_expires_at
     push    : Push \union {NoPush}]

ASSUME NoRecordAssumption == NoRecord \notin Record

\* The "devices" object of devices.json.
Store == [Device -> Record \union {NoRecord}]

EmptyStore == [d \in Device |-> NoRecord]

Known(data) == {d \in Device : data[d] # NoRecord}

\* Every refresh token the record still recognises.
Chain(rec) == {rec.rt} \union Range(rec.prevs)

\* The devices the loop over data["devices"] stops at.
Holders(data, rt) == {d \in Known(data) : rt \in Chain(data[d])}

Holder(data, rt) == CHOOSE d \in Holders(data, rt) : TRUE

\* Mutant of Truncate: the oldest hashes are kept, not the newest.
TruncateNewest(hashes) ==
    IF Len(hashes) <= MaxPrev THEN hashes
    ELSE SubSeq(hashes, Len(hashes) - MaxPrev + 1, Len(hashes))

Truncate(hashes) == IF Len(hashes) <= MaxPrev THEN hashes ELSE SubSeq(hashes, 1, MaxPrev)

NewRecord(token, time) ==
    [revoked |-> FALSE, rt |-> token, rtExp |-> time + RefreshTTL, prevs |-> <<>>,
     at |-> NoToken, atExp |-> 0, push |-> NoPush]

\* Mutants of Rotated: the old access hash stays; the history gets the access
\* hash; it gets the new hash; it grows at its end; it is not kept.
RotatedLeavesAccess(rec, token, time) ==
    [rec EXCEPT !.prevs = Truncate(<<rec.rt>> \o rec.prevs),
                !.rt = token, !.rtExp = time + RefreshTTL, !.atExp = time + AccessTTL]

RotatedKeepsAccessHash(rec, token, time) ==
    [rec EXCEPT !.prevs = Truncate(<<rec.at>> \o rec.prevs),
                !.rt = token, !.rtExp = time + RefreshTTL,
                !.at = token, !.atExp = time + AccessTTL]

RotatedKeepsNewHash(rec, token, time) ==
    [rec EXCEPT !.prevs = Truncate(<<token>> \o rec.prevs),
                !.rt = token, !.rtExp = time + RefreshTTL,
                !.at = token, !.atExp = time + AccessTTL]

RotatedOldestFirst(rec, token, time) ==
    [rec EXCEPT !.prevs = Truncate(rec.prevs \o <<rec.rt>>),
                !.rt = token, !.rtExp = time + RefreshTTL,
                !.at = token, !.atExp = time + AccessTTL]

RotatedForgetsPrior(rec, token, time) ==
    [rec EXCEPT !.prevs = <<>>,
                !.rt = token, !.rtExp = time + RefreshTTL,
                !.at = token, !.atExp = time + AccessTTL]

Rotated(rec, token, time) ==
    [rec EXCEPT !.prevs = Truncate(<<rec.rt>> \o rec.prevs),
                !.rt = token,
                !.rtExp = time + RefreshTTL,
                !.at = token,
                !.atExp = time + AccessTTL]

\* Mutant of OlderThanPrior: the immediately prior token is no exception.
AnyPrior(rec, rt) == rt \in Range(rec.prevs)

\* The replayed token is two or more rotations old.
OlderThanPrior(rec, rt) == rt \in Range(rec.prevs) /\ rt # rec.prevs[1]

\* What rotate_refresh answers for a record that recognises rt.
RotateVerdict(rec, rt, time) ==
    IF rec.revoked THEN "unknown"
    ELSE IF OlderThanPrior(rec, rt) THEN "reused"
    ELSE IF rec.rtExp <= time THEN "expired"
    ELSE "rotated"

\* verify_access: the devices whose live access token is at.
Authenticated(data, at, time) ==
    {d \in Known(data) : /\ ~data[d].revoked
                         /\ data[d].at # NoToken
                         /\ data[d].at = at
                         /\ data[d].atExp > time}

----------------------------------------------------------------------------
(***************************************************************************)
(* The outcome of a mutator: the reply it returns or raises, whether it    *)
(* calls _save, and the data it saves.                                     *)
(***************************************************************************)
Refused(reply, data) == [reply |-> reply, saves |-> FALSE, data |-> data]
Saved(reply, data) == [reply |-> reply, saves |-> TRUE, data |-> data]

CreateDevice(data, d, token, time) ==
    Saved("created", [data EXCEPT ![d] = NewRecord(token, time)])

Revoked(data, d) == [data EXCEPT ![d].revoked = TRUE]

RotateRefresh(data, rt, token, time) ==
    LET d == Holder(data, rt)
        verdict == RotateVerdict(data[d], rt, time)
    IN  IF Holders(data, rt) = {} THEN Refused("unknown", data)
        ELSE IF verdict = "reused" THEN Saved("reused", Revoked(data, d))
        ELSE IF verdict = "rotated"
             THEN Saved("rotated", [data EXCEPT ![d] = Rotated(data[d], token, time)])
        ELSE Refused(verdict, data)

Revoke(data, d) ==
    IF data[d] = NoRecord THEN Refused("none", data) ELSE Saved("none", Revoked(data, d))

RevokeByRefresh(data, rt) ==
    IF Holders(data, rt) = {} THEN Refused("false", data)
    ELSE Saved("true", Revoked(data, Holder(data, rt)))

SetPushToken(data, d, push) ==
    IF data[d] = NoRecord THEN Refused("false", data)
    ELSE IF data[d].revoked THEN Refused("false", data)
    ELSE Saved("true", [data EXCEPT ![d].push = push])

=============================================================================
