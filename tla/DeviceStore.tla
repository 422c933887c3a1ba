---------------------------- MODULE DeviceStore ----------------------------
(***************************************************************************)
(* The device store of hermes_mobile/device_store.py: the threads of       *)
(* several processes run its mutators, each of which, inside _locked, reads*)
(* the whole of devices.json (_load), computes the new records, and        *)
(* replaces the file (_save: a synced temporary file, then os.replace).    *)
(*                                                                         *)
(* A step from StoreLock moves a call through the lock; LoadStore and      *)
(* Conclude are the two points of the body other processes can see.  A     *)
(* call that raises leaves the file as it was.  A killed process loses the *)
(* calls it was running, the file keeps what was last renamed into place.  *)
(***************************************************************************)
EXTENDS StoreMutex, DeviceRecords

CONSTANTS
    Time,        \* clock readings
    Serves,      \* the mutators each process calls
    NoDraft      \* a call that has not loaded the store

Mutators == {"create", "rotate", "revoke", "logout", "push"}

VARIABLES
    disk,        \* the records in devices.json
    now,         \* the wall clock
    minted,      \* tokens drawn so far: the last serial
    issued,      \* refresh tokens returned to a caller
    op,          \* the request each thread has still to answer
    draft,       \* what its body loaded, drew and read from the clock
    result       \* the token its call will return, NoToken if none

storeVars == <<disk, now, minted, issued, op, draft, result>>
vars == <<stage, storeVars>>

ASSUME DeviceStoreAssumption ==
    /\ Time \subseteq Nat
    /\ Serves \in [Process -> SUBSET Mutators]
    /\ NoDraft \notin [base : Store, token : Token \union {NoToken}, time : Nat]

NoRequest == [kind |-> "none"]

Request ==
    {NoRequest}
    \union [kind : {"create"}, device : Device, token : Token, time : Nat]
    \union [kind : {"rotate", "logout"}, rt : Token \union {NoToken}]
    \union [kind : {"revoke"}, device : Device]
    \union [kind : {"push"}, device : Device, push : Push \union {NoPush}]

Draft == [base : Store, token : Token \union {NoToken}, time : Nat]

Init ==
    /\ MutexInit
    /\ disk = EmptyStore
    /\ now = 0
    /\ minted = 0
    /\ issued = {}
    /\ op = [t \in Thread |-> NoRequest]
    /\ draft = [t \in Thread |-> NoDraft]
    /\ result = [t \in Thread |-> NoToken]

----------------------------------------------------------------------------
(* Calls.  create_device draws its id and token and reads the clock before *)
(* it asks for the lock; clients present tokens they were issued, or one   *)
(* the store never knew (NoToken).                                         *)

Submit(t, request) ==
    /\ request.kind \in Serves[ProcessOf[t]]
    /\ Ask(t)
    /\ op' = [op EXCEPT ![t] = request]
    /\ UNCHANGED <<disk, now, issued, draft, result>>

BeingCreated(d) == \E t \in Thread : op[t].kind = "create" /\ op[t].device = d

CallCreate(t) ==
    /\ minted + 1 \in Token
    /\ minted' = minted + 1
    /\ \E d \in Device \ Known(disk) :
        /\ ~BeingCreated(d)
        /\ Submit(t, [kind |-> "create", device |-> d, token |-> minted + 1, time |-> now])

Presented == issued \union {NoToken}

CallRotate(t) ==
    \E rt \in Presented : Submit(t, [kind |-> "rotate", rt |-> rt]) /\ UNCHANGED minted

CallLogout(t) ==
    \E rt \in Presented : Submit(t, [kind |-> "logout", rt |-> rt]) /\ UNCHANGED minted

CallRevoke(t) ==
    \E d \in Device : Submit(t, [kind |-> "revoke", device |-> d]) /\ UNCHANGED minted

CallSetPush(t) ==
    \E d \in Device, push \in Push \union {NoPush} :
        Submit(t, [kind |-> "push", device |-> d, push |-> push]) /\ UNCHANGED minted

----------------------------------------------------------------------------
(* Inside a call. *)

\* The lock is granted.
EnterBody(t) == Enter(t) /\ UNCHANGED storeVars

\* The request of a call that has nothing left to do but return is dropped.
Answered(t) == op' = [op EXCEPT ![t] = NoRequest]

\* The lock is refused: the call raises DeviceStoreError.
LockTimeout(t) ==
    /\ GiveUp(t)
    /\ Answered(t)
    /\ UNCHANGED <<disk, now, minted, issued, draft, result>>

Outcome(request, d) ==
    CASE request.kind = "create" -> CreateDevice(d.base, request.device, d.token, d.time)
      [] request.kind = "rotate" -> RotateRefresh(d.base, request.rt, d.token, d.time)
      [] request.kind = "revoke" -> Revoke(d.base, request.device)
      [] request.kind = "logout" -> RevokeByRefresh(d.base, request.rt)
      [] request.kind = "push"   -> SetPushToken(d.base, request.device, request.push)

\* rotate_refresh gets as far as drawing the new tokens.
DrawsToken(t) ==
    /\ op[t].kind = "rotate"
    /\ RotateRefresh(disk, op[t].rt, minted + 1, now).reply = "rotated"

\* Mutant of LoadStore: the store is read before the lock is taken.
LoadBeforeLock(t) ==
    /\ stage[t] = "waiting"
    /\ draft[t] = NoDraft
    /\ DrawsToken(t) => minted + 1 \in Token
    /\ minted' = IF DrawsToken(t) THEN minted + 1 ELSE minted
    /\ draft' = [draft EXCEPT ![t] =
        [base |-> disk,
         token |-> IF DrawsToken(t) THEN minted + 1
                   ELSE IF op[t].kind = "create" THEN op[t].token ELSE NoToken,
         time |-> IF op[t].kind = "create" THEN op[t].time ELSE now]]
    /\ UNCHANGED <<stage, disk, now, issued, op, result>>

\* _load, then the clock and the new tokens where the mutator takes them here.
LoadStore(t) ==
    /\ stage[t] = "body"
    /\ draft[t] = NoDraft
    /\ DrawsToken(t) => minted + 1 \in Token
    /\ minted' = IF DrawsToken(t) THEN minted + 1 ELSE minted
    /\ draft' = [draft EXCEPT ![t] =
        [base |-> disk,
         token |-> IF DrawsToken(t) THEN minted + 1
                   ELSE IF op[t].kind = "create" THEN op[t].token ELSE NoToken,
         time |-> IF op[t].kind = "create" THEN op[t].time ELSE now]]
    /\ UNCHANGED <<stage, disk, now, issued, op, result>>

\* The mutator's answer: with _save's os.replace if it saves, and then the
\* with-block ends.
Conclude(t) ==
    /\ draft[t] # NoDraft
    /\ Leave(t)
    /\ disk' = IF Outcome(op[t], draft[t]).saves THEN Outcome(op[t], draft[t]).data ELSE disk
    /\ result' = [result EXCEPT ![t] =
        IF Outcome(op[t], draft[t]).reply \in {"created", "rotated"}
        THEN draft[t].token ELSE NoToken]
    /\ draft' = [draft EXCEPT ![t] = NoDraft]
    /\ Answered(t)
    /\ UNCHANGED <<now, minted, issued>>

\* Mutants of BodyRaises: the error is swallowed and the token handed out; the
\* file was being rewritten in place.
BodyRaisesQuietly(t) ==
    /\ draft[t] # NoDraft
    /\ Leave(t)
    /\ result' = [result EXCEPT ![t] = draft[t].token]
    /\ draft' = [draft EXCEPT ![t] = NoDraft]
    /\ Answered(t)
    /\ UNCHANGED <<disk, now, minted, issued>>

BodyRaisesMidWrite(t) ==
    /\ Leave(t)
    /\ disk' = EmptyStore
    /\ draft' = [draft EXCEPT ![t] = NoDraft]
    /\ Answered(t)
    /\ UNCHANGED <<now, minted, issued, result>>

\* _load or _save raises (I/O error); _save has unlinked its temporary file.
BodyRaises(t) ==
    /\ Leave(t)
    /\ draft' = [draft EXCEPT ![t] = NoDraft]
    /\ Answered(t)
    /\ UNCHANGED <<disk, now, minted, issued, result>>

\* The call ends; only now does the caller learn its token.
Finish(t) ==
    /\ Return(t)
    /\ issued' = issued \union ({result[t]} \ {NoToken})
    /\ Answered(t)
    /\ result' = [result EXCEPT ![t] = NoToken]
    /\ UNCHANGED <<disk, now, minted, draft>>

ProcessDies(p) ==
    /\ Die(p)
    /\ op' = [t \in Thread |-> IF t \in ThreadsOf(p) THEN NoRequest ELSE op[t]]
    /\ draft' = [t \in Thread |-> IF t \in ThreadsOf(p) THEN NoDraft ELSE draft[t]]
    /\ result' = [t \in Thread |-> IF t \in ThreadsOf(p) THEN NoToken ELSE result[t]]
    /\ UNCHANGED <<disk, now, minted, issued>>

Tick ==
    /\ now + 1 \in Time
    /\ now' = now + 1
    /\ UNCHANGED <<stage, disk, minted, issued, op, draft, result>>

Next ==
    \/ \E t \in Thread :
        \/ CallCreate(t)
        \/ CallRotate(t)
        \/ CallLogout(t)
        \/ CallRevoke(t)
        \/ CallSetPush(t)
        \/ EnterBody(t)
        \/ LockTimeout(t)
        \/ LoadStore(t)
        \/ Conclude(t)
        \/ BodyRaises(t)
        \/ Finish(t)
    \/ \E p \in Process : ProcessDies(p)
    \/ Tick

Spec == Init /\ [][Next]_vars

----------------------------------------------------------------------------
\* Every variable has its type.
TypeOK ==
    /\ StageTypeOK
    /\ disk \in Store
    /\ now \in Nat
    /\ minted \in Nat
    /\ issued \subseteq Token
    /\ op \in [Thread -> Request]
    /\ draft \in [Thread -> Draft \union {NoDraft}]
    /\ result \in [Thread -> Token \union {NoToken}]

\* A mutator replaces exactly the records it loaded: nothing another thread
\* or process saved in between is overwritten (the reason for _locked), as
\* long as every process can lock.
NoLostUpdate ==
    Unlockable = {} => \A t \in Thread : draft[t] # NoDraft => draft[t].base = disk

\* A device once revoked stays revoked: no refresh, push registration or
\* pairing that was under way when revoke saved brings it back.
RevokedForever ==
    [][Unlockable = {} =>
        \A d \in Known(disk) : disk[d].revoked => d \in Known(disk)' /\ disk'[d].revoked]_vars

\* A refresh token is recognised by one device and sits once in its chain, so
\* the loops that stop at the first match have only one (rotate_refresh,
\* revoke_by_refresh), and immediate_prior tests the only place it is at.
TokensUnshared ==
    /\ \A d, e \in Known(disk) : d # e => Chain(disk[d]) \cap Chain(disk[e]) = {}
    /\ \A d \in Known(disk) :
        /\ disk[d].rt \notin Range(disk[d].prevs)
        /\ \A i, j \in DOMAIN disk[d].prevs :
            disk[d].prevs[i] = disk[d].prevs[j] => i = j

\* A token a caller was given is one the store recognises, until later
\* rotations push it out of the window of _MAX_PREV_HASHES: no interleaving or
\* crash hands out a token the store has forgotten, which would strand a phone.
IssuedTokensKnown ==
    Unlockable = {} =>
        \A token \in issued :
            \E d \in Known(disk) :
                token \in Chain(disk[d]) \/ Len(disk[d].prevs) = MaxPrev

Atomic == INSTANCE AtomicStore WITH devices <- disk

\* The mutators are atomic: the file goes through the states of AtomicStore.
MutatorsAreAtomic == Atomic!AtomicSpec

=============================================================================
