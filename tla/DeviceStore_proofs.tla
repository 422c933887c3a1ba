------------------------- MODULE DeviceStore_proofs -------------------------
(* Proofs about DeviceStore: types, no lost update, revoked devices stay    *)
(* revoked.                                                                 *)
EXTENDS DeviceStore, DeviceRecords_proofs

\* A draft belongs to a call inside the block.
DraftsInBody == \A t \in Thread : draft[t] # NoDraft => stage[t] = "body"

\* A call that has still to answer knows what it was asked.
Requested == \A t \in Thread : stage[t] \in {"waiting", "body"} => op[t].kind \in Mutators

\* A call that will hand out a token has drawn it.
DraftsDrawn ==
    \A t \in Thread :
        draft[t] # NoDraft /\ Outcome(op[t], draft[t]).reply \in {"created", "rotated"} =>
            draft[t].token \in Token

\* A device being created is not there yet, and by one call only.
CreatingNew ==
    \A t \in Thread : op[t].kind = "create" =>
        /\ op[t].device \notin Known(disk)
        /\ \A u \in Thread \ {t} : op[u].kind = "create" => op[u].device # op[t].device

StoreInv ==
    /\ TypeOK
    /\ MutualExclusion
    /\ DraftsInBody
    /\ Requested
    /\ DraftsDrawn
    /\ NoLostUpdate
    /\ Unlockable = {} => CreatingNew

\* What a step of the store is to the mutex.
LEMMA StoreStepIsMutexStep == [Next]_vars => [MutexNext]_stage
BY DEF Next, vars, MutexNext, CallCreate, CallRotate, CallLogout, CallRevoke, CallSetPush,
       Submit, EnterBody, LockTimeout, LoadStore, Conclude, BodyRaises, Finish, ProcessDies, Tick

\* The mutex lets two calls into the block only if they may share it.
LEMMA MutexInductive ==
  StageTypeOK /\ MutualExclusion /\ [MutexNext]_stage => StageTypeOK' /\ MutualExclusion'
<1> SUFFICES ASSUME StageTypeOK, MutualExclusion, [MutexNext]_stage
             PROVE  StageTypeOK' /\ MutualExclusion'
  OBVIOUS
<1> USE DEF StageTypeOK, MutualExclusion, Stages, MayOverlap, Move
<1>1. ASSUME NEW t \in Thread, Ask(t) \/ GiveUp(t) \/ Leave(t) \/ Return(t)
      PROVE  StageTypeOK' /\ MutualExclusion'
  BY <1>1 DEF Ask, GiveUp, Leave, Return
<1>2. ASSUME NEW t \in Thread, Enter(t) PROVE StageTypeOK' /\ MutualExclusion'
  BY <1>2 DEF Enter
<1>3. ASSUME NEW p \in Process, Die(p) PROVE StageTypeOK' /\ MutualExclusion'
  BY <1>3 DEF Die
<1>4. CASE UNCHANGED stage
  BY <1>4
<1> QED
  BY <1>1, <1>2, <1>3, <1>4 DEF MutexNext

----------------------------------------------------------------------------
\* The data a mutator concludes with is a store.
LEMMA OutcomeType ==
  ASSUME NEW request \in Request, request.kind \in Mutators, NEW d \in Draft,
         Outcome(request, d).reply \in {"created", "rotated"} => d.token \in Token
  PROVE  Outcome(request, d).data \in Store
<1> USE DEF Request, Draft
<1>1. CASE request.kind = "create"
  <2>1. d.token \in Token
    BY <1>1 DEF Outcome, CreateDevice, Saved
  <2> QED
    BY <1>1, <2>1, CreateType DEF Outcome, NoRequest
<1>2. CASE request.kind = "rotate"
  <2>1. Outcome(request, d) = RotateRefresh(d.base, request.rt, d.token, d.time)
    BY <1>2 DEF Outcome
  <2> QED
    BY <2>1, RotateType
<1>3. CASE request.kind = "revoke"
  BY <1>3, RevokeType DEF Outcome, NoRequest
<1>4. CASE request.kind = "logout"
  BY <1>4, LogoutType DEF Outcome, NoRequest
<1>5. CASE request.kind = "push"
  BY <1>5, SetPushType DEF Outcome, NoRequest
<1> QED
  BY <1>1, <1>2, <1>3, <1>4, <1>5 DEF Mutators

\* The data a mutator concludes with keeps every revoked device revoked.
LEMMA OutcomeKeeps ==
  ASSUME NEW request \in Request, request.kind \in Mutators, NEW d \in Draft,
         request.kind = "create" => request.device \notin Known(d.base)
  PROVE  KeepsRevoked(d.base, Outcome(request, d).data)
<1> USE DEF Request, Draft
<1>1. CASE request.kind = "create"
  BY <1>1, CreateKeeps DEF Outcome, NoRequest
<1>2. CASE request.kind = "rotate"
  BY <1>2, RotateKeeps DEF Outcome, NoRequest
<1>3. CASE request.kind = "revoke"
  BY <1>3, RevokeKeeps DEF Outcome, NoRequest
<1>4. CASE request.kind = "logout"
  BY <1>4, LogoutKeeps DEF Outcome, NoRequest
<1>5. CASE request.kind = "push"
  BY <1>5, SetPushKeeps DEF Outcome, NoRequest
<1> QED
  BY <1>1, <1>2, <1>3, <1>4, <1>5 DEF Mutators

\* Only create_device adds a device, the one it drew.
LEMMA OutcomeKnown ==
  ASSUME NEW request \in Request, request.kind \in Mutators, NEW d \in Draft,
         NEW e \in Known(Outcome(request, d).data)
  PROVE  e \in Known(d.base) \/ (request.kind = "create" /\ e = request.device)
<1> USE DEF Request, Draft
<1>1. CASE request.kind = "create"
  BY <1>1 DEF Outcome, CreateDevice, Saved, Known, Store
<1>2. CASE request.kind = "rotate"
  BY <1>2, RotateKnown DEF Outcome, NoRequest
<1>3. CASE request.kind = "revoke"
  BY <1>3 DEF Outcome, Revoke, Refused, Saved, Revoked, Known, Store
<1>4. CASE request.kind = "logout"
  BY <1>4, LogoutKnown DEF Outcome, NoRequest
<1>5. CASE request.kind = "push"
  BY <1>5 DEF Outcome, SetPushToken, Refused, Saved, Known, Store
<1> QED
  BY <1>1, <1>2, <1>3, <1>4, <1>5 DEF Mutators
----------------------------------------------------------------------------
\* The store starts empty with no call under way.
LEMMA StoreInitial == Init => StoreInv
BY StoreMutexAssumption
DEF Init, MutexInit, StoreInv, TypeOK, StageTypeOK, Stages, MutualExclusion, DraftsInBody,
    Requested, DraftsDrawn, NoLostUpdate, CreatingNew, Store, EmptyStore, Known, Request,
    NoRequest, NoToken

\* A call of a mutator starts it.
LEMMA SubmitInductive ==
  ASSUME StoreInv, NEW t \in Thread, NEW request \in Request, request.kind \in Mutators,
         Submit(t, request), minted' \in Nat,
         request.kind = "create" =>
             request.device \notin Known(disk) /\ ~BeingCreated(request.device)
  PROVE  StoreInv'
<1> USE DEF StoreInv
<1>1. StageTypeOK' /\ MutualExclusion'
  BY MutexInductive DEF Submit, MutexNext, TypeOK
<1>2. stage[t] = "idle" /\ draft[t] = NoDraft
  BY DEF Submit, Ask, Move, DraftsInBody
<1>3. op' = [op EXCEPT ![t] = request] /\ UNCHANGED <<disk, now, issued, draft, result>>
  BY DEF Submit
<1>4. stage' = [stage EXCEPT ![t] = "waiting"]
  BY DEF Submit, Ask, Move
<1>5. TypeOK'
  BY <1>1, <1>3 DEF TypeOK
<1>6. DraftsInBody' /\ NoLostUpdate'
  BY <1>2, <1>3, <1>4 DEF DraftsInBody, NoLostUpdate, TypeOK, StageTypeOK
<1>7. Requested'
  BY <1>3, <1>4 DEF Requested, TypeOK, StageTypeOK
<1>8. DraftsDrawn'
  BY <1>2, <1>3 DEF DraftsDrawn, TypeOK
<1>9. CreatingNew' \/ Unlockable # {}
  BY <1>3 DEF CreatingNew, BeingCreated, TypeOK
<1> QED
  BY <1>1, <1>5, <1>6, <1>7, <1>8, <1>9

\* A step that answers no call and touches no file keeps the invariant: the
\* lock is granted or refused, the body raises, the call returns.
LEMMA QuietInductive ==
  ASSUME StoreInv, NEW t \in Thread,
         EnterBody(t) \/ LockTimeout(t) \/ BodyRaises(t) \/ Finish(t)
  PROVE  StoreInv'
<1> USE DEF StoreInv
<1>1. StageTypeOK' /\ MutualExclusion'
  BY MutexInductive
  DEF EnterBody, LockTimeout, BodyRaises, Finish, MutexNext, TypeOK
<1>2. /\ UNCHANGED <<disk, now, minted>>
      /\ issued' \subseteq Token
      /\ result' \in [Thread -> Token \union {NoToken}]
      /\ op' = op \/ op' = [op EXCEPT ![t] = NoRequest]
      /\ draft' = draft \/ draft' = [draft EXCEPT ![t] = NoDraft]
  BY DEF EnterBody, LockTimeout, BodyRaises, Finish, Answered, storeVars, TypeOK
<1>3. TypeOK'
  BY <1>1, <1>2 DEF TypeOK, Request, NoRequest
<1>4. \/ EnterBody(t) /\ stage' = [stage EXCEPT ![t] = "body"]
                      /\ stage[t] = "waiting" /\ op' = op /\ draft' = draft
      \/ /\ stage' \in {[stage EXCEPT ![t] = s] : s \in {"idle", "leaving"}}
         /\ op' = [op EXCEPT ![t] = NoRequest]
         /\ draft' = [draft EXCEPT ![t] = NoDraft]
  BY DEF EnterBody, LockTimeout, BodyRaises, Finish, Enter, GiveUp, Leave, Return, Move,
         Answered, storeVars, TypeOK, StageTypeOK, DraftsInBody
<1>5. DraftsInBody' /\ Requested'
  BY <1>4 DEF DraftsInBody, Requested, TypeOK, StageTypeOK
<1>6. DraftsDrawn' /\ NoLostUpdate'
  BY <1>2, <1>4 DEF DraftsDrawn, NoLostUpdate, TypeOK
<1>7. CreatingNew' \/ Unlockable # {}
  BY <1>2 DEF CreatingNew, NoRequest, TypeOK
<1> QED
  BY <1>1, <1>3, <1>5, <1>6, <1>7

\* The body reads the file as it is.
LEMMA LoadInductive ==
  ASSUME StoreInv, NEW t \in Thread, LoadStore(t)
  PROVE  StoreInv'
<1> USE DEF StoreInv
<1> DEFINE new == draft'[t]
<1>1. /\ stage[t] = "body"
      /\ UNCHANGED <<stage, disk, now, issued, op, result>>
      /\ draft' = [draft EXCEPT ![t] = new]
  BY DEF LoadStore, TypeOK
<1>2. op[t] \in Request /\ op[t].kind \in Mutators
  BY <1>1 DEF Requested, TypeOK
<1>3. new.base = disk /\ new.time \in Nat /\ new.token \in Token \union {NoToken}
      /\ new = [base |-> disk, token |-> new.token, time |-> new.time]
  <2>1. op[t].kind = "create" => op[t].token \in Token /\ op[t].time \in Nat
    BY <1>2 DEF Request, NoRequest
  <2> QED
    BY <2>1 DEF LoadStore, TypeOK
<1>4. new \in Draft
  BY <1>3 DEF Draft, TypeOK
<1>5. minted' \in Nat
  BY DEF LoadStore, TypeOK
<1>6. TypeOK' /\ MutualExclusion' /\ DraftsInBody' /\ Requested'
  BY <1>1, <1>4, <1>5 DEF TypeOK, StageTypeOK, MutualExclusion, DraftsInBody, Requested
<1>7. Outcome(op[t], new).reply \in {"created", "rotated"} => new.token \in Token
  <2>1. CASE op[t].kind = "create"
    <3>1. ~DrawsToken(t)
      BY <2>1 DEF DrawsToken
    <3>2. op[t].token \in Token
      BY <1>2, <2>1 DEF Request, NoRequest
    <3> QED
      BY <2>1, <3>1, <3>2 DEF LoadStore, TypeOK
  <2>2. CASE op[t].kind = "rotate"
    <3>1. CASE DrawsToken(t)
      BY <2>2, <3>1 DEF LoadStore, TypeOK
    <3>2. CASE ~DrawsToken(t)
      <4>1. new.time = now
        BY <2>2 DEF LoadStore, TypeOK
      <4>2. RotateRefresh(disk, op[t].rt, minted + 1, now).reply # "rotated"
        BY <2>2, <3>2 DEF DrawsToken
      <4>3. RotateRefresh(disk, op[t].rt, minted + 1, now).reply =
            RotateRefresh(disk, op[t].rt, new.token, now).reply
        BY DEF RotateRefresh, Saved, Refused
      <4>4. RotateRefresh(disk, op[t].rt, new.token, now).reply # "created"
        BY DEF RotateRefresh, RotateVerdict, Saved, Refused
      <4> QED
        BY <1>3, <2>2, <4>1, <4>2, <4>3, <4>4 DEF Outcome
    <3> QED
      BY <3>1, <3>2
  <2>3. CASE op[t].kind \in {"revoke", "logout", "push"}
    BY <2>3 DEF Outcome, Revoke, RevokeByRefresh, SetPushToken, Saved, Refused
  <2> QED
    BY <1>2, <2>1, <2>2, <2>3 DEF Mutators
<1>8. DraftsDrawn'
  BY <1>1, <1>7 DEF DraftsDrawn, TypeOK
<1>9. NoLostUpdate'
  BY <1>1, <1>3 DEF NoLostUpdate, TypeOK
<1>10. CreatingNew' \/ Unlockable # {}
  BY <1>1 DEF CreatingNew
<1> QED
  BY <1>6, <1>8, <1>9, <1>10

\* The only call in the block replaces the file with what it computed.
LEMMA ConcludeInductive ==
  ASSUME StoreInv, NEW t \in Thread, Conclude(t)
  PROVE  StoreInv'
<1> USE DEF StoreInv
<1> DEFINE outcome == Outcome(op[t], draft[t])
<1>1. StageTypeOK' /\ MutualExclusion'
  BY MutexInductive DEF Conclude, MutexNext, TypeOK
<1>2. /\ stage[t] = "body" /\ draft[t] # NoDraft
      /\ stage' = [stage EXCEPT ![t] = "leaving"]
      /\ draft' = [draft EXCEPT ![t] = NoDraft]
      /\ op' = [op EXCEPT ![t] = NoRequest]
      /\ UNCHANGED <<now, minted, issued>>
  BY DEF Conclude, Leave, Move, Answered
<1>3. op[t] \in Request /\ op[t].kind \in Mutators /\ draft[t] \in Draft
  BY <1>2 DEF Requested, TypeOK
<1>4. disk' \in Store
  <2>1. outcome.data \in Store
    BY <1>2, <1>3, OutcomeType DEF DraftsDrawn
  <2> QED
    BY <2>1 DEF Conclude, TypeOK
<1>5. result' \in [Thread -> Token \union {NoToken}]
  BY <1>3 DEF Conclude, TypeOK, Draft
<1>6. TypeOK'
  BY <1>1, <1>2, <1>4, <1>5 DEF TypeOK, Request, NoRequest
<1>7. DraftsInBody' /\ Requested' /\ DraftsDrawn'
  BY <1>2 DEF DraftsInBody, Requested, DraftsDrawn, TypeOK, StageTypeOK
<1>8. ASSUME Unlockable = {} PROVE NoLostUpdate' /\ CreatingNew'
  <2>1. \A u \in Thread \ {t} : draft[u] = NoDraft
    BY <1>2, <1>8 DEF MutualExclusion, MayOverlap, DraftsInBody
  <2>2. \A u \in Thread : draft'[u] = NoDraft
    BY <1>2, <2>1 DEF TypeOK
  <2>3. draft[t].base = disk
    BY <1>2, <1>8 DEF NoLostUpdate
  <2>4. ASSUME NEW u \in Thread \ {t}, op[u].kind = "create", op[u].device \in Known(disk')
        PROVE  FALSE
    <3>1. op[u].device \notin Known(disk)
      BY <1>8, <2>4 DEF CreatingNew
    <3>2. disk' = outcome.data
      BY <2>4, <3>1 DEF Conclude
    <3>3. op[t].kind = "create" /\ op[u].device = op[t].device
      BY <1>3, <2>3, <2>4, <3>1, <3>2, OutcomeKnown
    <3> QED
      BY <1>8, <2>4, <3>3 DEF CreatingNew
  <2> QED
    BY <1>2, <1>8, <2>2, <2>4 DEF NoLostUpdate, CreatingNew, NoRequest, TypeOK
<1>9. NoLostUpdate' /\ (Unlockable = {} => CreatingNew')
  BY <1>8 DEF NoLostUpdate
<1> QED
  BY <1>1, <1>6, <1>7, <1>9

\* A process that dies takes its calls with it.
LEMMA DiesInductive ==
  ASSUME StoreInv, NEW p \in Process, ProcessDies(p)
  PROVE  StoreInv'
<1> USE DEF StoreInv
<1>1. StageTypeOK' /\ MutualExclusion'
  BY MutexInductive DEF ProcessDies, MutexNext, TypeOK
<1>2. TypeOK'
  BY <1>1 DEF ProcessDies, TypeOK, Request, NoRequest
<1>3. DraftsInBody' /\ Requested' /\ DraftsDrawn' /\ NoLostUpdate'
  BY DEF ProcessDies, Die, DraftsInBody, Requested, DraftsDrawn, NoLostUpdate, TypeOK,
         StageTypeOK
<1>4. CreatingNew' \/ Unlockable # {}
  BY DEF ProcessDies, CreatingNew, NoRequest, TypeOK
<1> QED
  BY <1>1, <1>2, <1>3, <1>4

\* The clock disturbs nothing.
LEMMA TickInductive ==
  ASSUME StoreInv, Tick \/ UNCHANGED vars
  PROVE  StoreInv'
<1> USE DEF StoreInv
<1>1. now' \in Nat /\ UNCHANGED <<stage, disk, minted, issued, op, draft, result>>
  BY DeviceStoreAssumption DEF Tick, vars, storeVars, TypeOK
<1> QED
  BY <1>1 DEF TypeOK, StageTypeOK, MutualExclusion, DraftsInBody, Requested, DraftsDrawn,
              NoLostUpdate, CreatingNew

\* A call that is made is a request of its kind.
LEMMA CallInductive ==
  ASSUME StoreInv, NEW t \in Thread,
         CallCreate(t) \/ CallRotate(t) \/ CallLogout(t) \/ CallRevoke(t) \/ CallSetPush(t)
  PROVE  StoreInv'
<1> USE DEF Request, Mutators
<1>0. minted \in Nat /\ now \in Nat /\ issued \subseteq Token
  BY DEF StoreInv, TypeOK
<1>1. CASE CallCreate(t)
  <2>1. minted + 1 \in Token /\ minted' = minted + 1
    BY <1>1 DEF CallCreate
  <2>2. PICK d \in Device \ Known(disk) :
            /\ ~BeingCreated(d)
            /\ Submit(t, [kind |-> "create", device |-> d, token |-> minted + 1, time |-> now])
    BY <1>1 DEF CallCreate
  <2> QED
    BY <1>0, <2>1, <2>2, SubmitInductive
<1>2. CASE CallRotate(t)
  <2>1. PICK rt \in Presented : Submit(t, [kind |-> "rotate", rt |-> rt]) /\ UNCHANGED minted
    BY <1>2 DEF CallRotate
  <2> QED
    BY <1>0, <2>1, SubmitInductive DEF Presented
<1>3. CASE CallLogout(t)
  <2>1. PICK rt \in Presented : Submit(t, [kind |-> "logout", rt |-> rt]) /\ UNCHANGED minted
    BY <1>3 DEF CallLogout
  <2> QED
    BY <1>0, <2>1, SubmitInductive DEF Presented
<1>4. CASE CallRevoke(t)
  <2>1. PICK d \in Device : Submit(t, [kind |-> "revoke", device |-> d]) /\ UNCHANGED minted
    BY <1>4 DEF CallRevoke
  <2> QED
    BY <1>0, <2>1, SubmitInductive
<1>5. CASE CallSetPush(t)
  <2>1. PICK d \in Device, push \in Push \union {NoPush} :
            Submit(t, [kind |-> "push", device |-> d, push |-> push]) /\ UNCHANGED minted
    BY <1>5 DEF CallSetPush
  <2> QED
    BY <1>0, <2>1, SubmitInductive
<1> QED
  BY <1>1, <1>2, <1>3, <1>4, <1>5

\* Every step keeps the invariant of the store.
LEMMA StoreInductive == StoreInv /\ [Next]_vars => StoreInv'
BY CallInductive, QuietInductive, LoadInductive, ConcludeInductive, DiesInductive, TickInductive
DEF Next

\* A mutator in the block works on the file as it is, whatever the number of
\* threads and processes.
THEOREM StoreInvariant == Spec => []StoreInv
<1>1. Init => StoreInv
  BY StoreInitial
<1>2. StoreInv /\ [Next]_vars => StoreInv'
  BY StoreInductive
<1> QED
  BY <1>1, <1>2, PTL DEF Spec

\* Every variable keeps its type.
THEOREM TypeCorrect == Spec => []TypeOK
<1>1. StoreInv => TypeOK
  BY DEF StoreInv
<1> QED
  BY <1>1, StoreInvariant, PTL

\* No saved update is overwritten by a mutator that did not see it.
THEOREM UpdatesAreNotLost == Spec => []NoLostUpdate
<1>1. StoreInv => NoLostUpdate
  BY DEF StoreInv
<1> QED
  BY <1>1, StoreInvariant, PTL

\* A step of the store keeps every revoked device revoked.
LEMMA StepKeepsRevoked ==
  ASSUME StoreInv, [Next]_vars, Unlockable = {}
  PROVE  KeepsRevoked(disk, disk')
<1>1. CASE disk' = disk
  BY <1>1 DEF KeepsRevoked
<1>2. CASE \E t \in Thread : Conclude(t)
  <2>1. PICK t \in Thread : Conclude(t)
    BY <1>2
  <2>2. stage[t] = "body" /\ draft[t] # NoDraft
    BY <2>1 DEF Conclude, Leave, Move
  <2>3. op[t] \in Request /\ op[t].kind \in Mutators /\ draft[t] \in Draft /\ draft[t].base = disk
    BY <2>2 DEF StoreInv, TypeOK, Requested, NoLostUpdate
  <2>4. op[t].kind = "create" => op[t].device \notin Known(draft[t].base)
    BY <2>3 DEF StoreInv, CreatingNew
  <2>5. KeepsRevoked(disk, Outcome(op[t], draft[t]).data)
    BY <2>3, <2>4, OutcomeKeeps
  <2> QED
    BY <1>1, <2>1, <2>5 DEF Conclude
<1> QED
  BY <1>1, <1>2
  DEF Next, vars, storeVars, CallCreate, CallRotate, CallLogout, CallRevoke, CallSetPush, Submit,
      EnterBody, LockTimeout, LoadStore, BodyRaises, Finish, ProcessDies, Tick

\* No call under way when a device is revoked brings it back.
THEOREM RevocationIsFinal == Spec => RevokedForever
<1>1. StoreInv /\ [Next]_vars =>
        [Unlockable = {} =>
            \A d \in Known(disk) : disk[d].revoked => d \in Known(disk)' /\ disk'[d].revoked]_vars
  BY StepKeepsRevoked DEF KeepsRevoked, Known
<1> QED
  BY <1>1, StoreInvariant, PTL DEF Spec, RevokedForever

----------------------------------------------------------------------------
(* The tokens in the store, in the loaded stores and in the hands of calls. *)

\* The stores a save can start from: the file and what the calls have loaded.
Loaded == {disk} \union {draft[t].base : t \in {u \in Thread : draft[u] # NoDraft}}

\* The token a call has drawn and not saved.
InHand(t) ==
    IF op[t].kind = "create" THEN {op[t].token}
    ELSE IF draft[t] # NoDraft THEN {draft[t].token} \ {NoToken}
    ELSE {}

\* No store has a token twice, and a drawn token is nobody else's yet.
TokenInv ==
    /\ \A data \in Loaded : Unshared(data) /\ \A token \in Tokens(data) : token <= minted
    /\ \A t \in Thread : \A token \in InHand(t) :
        /\ token <= minted
        /\ \A data \in Loaded : token \notin Tokens(data)
        /\ \A u \in Thread \ {t} : token \notin InHand(u)
    /\ \A t \in Thread :
        op[t].kind = "create" /\ draft[t] # NoDraft => draft[t].token = op[t].token

\* What a caller was given, or is about to be, the store knows.
RememberInv ==
    Unlockable = {} =>
        \A token \in issued \union {result[t] : t \in Thread} :
            token # NoToken => Recognised(disk, token)

\* What is mutated has a time that has come.
TimeInv ==
    \A t \in Thread :
        /\ op[t].kind = "create" => op[t].time \in 0 .. now
        /\ draft[t] # NoDraft => draft[t].time \in 0 .. now

ChainInv == StoreInv /\ TokenInv /\ RememberInv /\ TimeInv

\* The token a mutator mints, if it succeeds.
Minted(request, d) ==
    IF Outcome(request, d).reply \in {"created", "rotated"} THEN {d.token} ELSE {}

\* A mutator's data has the tokens of what it loaded and the one it mints.
LEMMA OutcomeFollows ==
  ASSUME NEW request \in Request, request.kind \in Mutators, NEW d \in Draft,
         Outcome(request, d).reply \in {"created", "rotated"} => d.token \in Token
  PROVE  /\ TokensFollow(d.base, Outcome(request, d).data, Minted(request, d))
         /\ (request.kind = "create" => request.device \notin Known(d.base)) =>
                Remembers(d.base, Outcome(request, d).data)
<1> USE DEF Request, Draft
<1>1. CASE request.kind = "create"
  <2>1. Outcome(request, d) = CreateDevice(d.base, request.device, d.token, d.time)
    BY <1>1 DEF Outcome
  <2>2. d.token \in Token /\ Minted(request, d) = {d.token}
    BY <2>1 DEF CreateDevice, Saved, Minted
  <2>3. d.base \in Store /\ d.time \in Nat /\ request.device \in Device
    BY <1>1 DEF NoRequest
  <2>4. PICK data, time, device : data = d.base /\ time = d.time /\ device = request.device
    OBVIOUS
  <2>5. /\ TokensFollow(data, CreateDevice(data, device, d.token, time).data, {d.token})
        /\ device \notin Known(data) =>
               Remembers(data, CreateDevice(data, device, d.token, time).data)
    BY <2>2, <2>3, <2>4, CreateFollows
  <2> QED
    BY <1>1, <2>1, <2>2, <2>4, <2>5
<1>2. CASE request.kind = "rotate"
  <2>1. Outcome(request, d) = RotateRefresh(d.base, request.rt, d.token, d.time)
    BY <1>2 DEF Outcome
  <2>2. Outcome(request, d).reply # "created"
    BY <2>1 DEF RotateRefresh, RotateVerdict, Saved, Refused
  <2>3. Minted(request, d) =
            IF RotateRefresh(d.base, request.rt, d.token, d.time).reply = "rotated"
            THEN {d.token} ELSE {}
    BY <2>1, <2>2 DEF Minted
  <2>4. d.base \in Store /\ d.time \in Nat
    OBVIOUS
  <2>5. PICK data, rt, token, time :
            data = d.base /\ rt = request.rt /\ token = d.token /\ time = d.time
    OBVIOUS
  <2>6. RotateRefresh(data, rt, token, time).reply = "rotated" => token \in Token
    BY <2>1, <2>5
  <2>7. data \in Store /\ time \in Nat
    BY <2>4, <2>5
  <2>8. /\ TokensFollow(data, RotateRefresh(data, rt, token, time).data,
               IF RotateRefresh(data, rt, token, time).reply = "rotated"
               THEN {token} ELSE {})
        /\ Remembers(data, RotateRefresh(data, rt, token, time).data)
    BY <2>6, <2>7, RotateFollows
  <2> QED
    BY <2>1, <2>3, <2>5, <2>8
<1>3. CASE request.kind = "revoke"
  <2>1. Outcome(request, d) = Revoke(d.base, request.device)
    BY <1>3 DEF Outcome
  <2>2. Minted(request, d) = {}
    BY <2>1 DEF Minted, Revoke, Saved, Refused
  <2> QED
    BY <1>3, <2>1, <2>2, RevokeFollows DEF NoRequest
<1>4. CASE request.kind = "logout"
  <2>1. Outcome(request, d) = RevokeByRefresh(d.base, request.rt)
    BY <1>4 DEF Outcome
  <2>2. Minted(request, d) = {}
    BY <2>1 DEF Minted, RevokeByRefresh, Saved, Refused
  <2> QED
    BY <1>4, <2>1, <2>2, LogoutFollows DEF NoRequest
<1>5. CASE request.kind = "push"
  <2>1. Outcome(request, d) = SetPushToken(d.base, request.device, request.push)
    BY <1>5 DEF Outcome
  <2>2. Minted(request, d) = {}
    BY <2>1 DEF Minted, SetPushToken, Saved, Refused
  <2> QED
    BY <1>5, <2>1, <2>2, SetPushFollows DEF NoRequest
<1> QED
  BY <1>1, <1>2, <1>3, <1>4, <1>5 DEF Mutators

\* What a call has drawn is a token.
LEMMA HandsAreTokens == ASSUME StoreInv, NEW t \in Thread PROVE InHand(t) \subseteq Token
<1>1. op[t] \in Request /\ (draft[t] # NoDraft => draft[t] \in Draft)
  BY DEF StoreInv, TypeOK
<1>2. op[t].kind = "create" => op[t].token \in Token
  BY <1>1 DEF Request, NoRequest
<1>3. draft[t] # NoDraft => draft[t].token \in Token \union {NoToken}
  BY <1>1 DEF Draft
<1> QED
  BY <1>2, <1>3 DEF InHand

\* No token is drawn and no store is saved: hands may only lose tokens.
LEMMA TokensRest ==
  ASSUME TokenInv, StoreInv, UNCHANGED minted, Loaded' \subseteq Loaded,
         \A t \in Thread : InHand(t)' \subseteq InHand(t),
         \A t \in Thread :
             op'[t].kind = "create" /\ draft'[t] # NoDraft => draft'[t].token = op'[t].token
  PROVE  TokenInv'
BY DEF TokenInv

\* The stores that calls have loaded are stores.
LEMMA LoadedStores == StoreInv => Loaded \subseteq Store
<1> SUFFICES ASSUME StoreInv PROVE Loaded \subseteq Store
  OBVIOUS
<1>1. \A t \in Thread : draft[t] # NoDraft => draft[t] \in Draft
  BY DEF StoreInv, TypeOK
<1>2. \A d \in Draft : d.base \in Store
  BY DEF Draft
<1>3. disk \in Store
  BY DEF StoreInv, TypeOK
<1> QED
  BY <1>1, <1>2, <1>3 DEF Loaded

\* One token is drawn, larger than all there are.
LEMMA TokenIsDrawn ==
  ASSUME TokenInv, StoreInv, minted' = minted + 1, Loaded' \subseteq Loaded, NEW t \in Thread,
         InHand(t)' \subseteq {minted + 1},
         \A u \in Thread \ {t} : InHand(u)' \subseteq InHand(u),
         \A u \in Thread :
             op'[u].kind = "create" /\ draft'[u] # NoDraft => draft'[u].token = op'[u].token
  PROVE  TokenInv'
<1>1. minted \in Nat /\ Loaded \subseteq Store
  BY LoadedStores DEF StoreInv, TypeOK
<1>2. \A data \in Store : Tokens(data) \subseteq Nat
  BY StoreTokens, DeviceRecordsAssumption
<1>3. \A u \in Thread : InHand(u) \subseteq Nat
  BY HandsAreTokens, DeviceRecordsAssumption
<1>4. \A data \in Loaded' : /\ Unshared(data) /\ minted + 1 \notin Tokens(data)
                            /\ \A token \in Tokens(data) : token <= minted'
  <2> SUFFICES ASSUME NEW data \in Loaded'
               PROVE  /\ Unshared(data) /\ minted + 1 \notin Tokens(data)
                      /\ \A token \in Tokens(data) : token <= minted'
    OBVIOUS
  <2>1. Unshared(data) /\ Tokens(data) \subseteq Nat /\ \A token \in Tokens(data) : token <= minted
    BY <1>1, <1>2 DEF TokenInv
  <2> QED
    BY <1>1, <2>1
<1>5. ASSUME NEW u \in Thread, NEW token \in InHand(u)'
      PROVE  /\ token <= minted'
             /\ \A data \in Loaded' : token \notin Tokens(data)
             /\ \A v \in Thread \ {u} : token \notin InHand(v)'
  <2>1. \A v \in Thread \ {t} : \A other \in InHand(v)' :
            other \in Nat /\ other <= minted /\ other # minted + 1
    <3> SUFFICES ASSUME NEW v \in Thread \ {t}, NEW other \in InHand(v)
                 PROVE  other \in Nat /\ other <= minted /\ other # minted + 1
      OBVIOUS
    <3>1. other \in Nat /\ other <= minted
      BY <1>3 DEF TokenInv
    <3> QED
      BY <1>1, <3>1
  <2>2. CASE u = t
    BY <1>1, <1>4, <1>5, <2>1, <2>2
  <2>3. CASE u # t
    <3>1. token <= minted'
      BY <1>1, <1>5, <2>1, <2>3
    <3>2. /\ \A data \in Loaded' : token \notin Tokens(data)
          /\ \A v \in Thread \ {u, t} : token \notin InHand(v)'
      BY <1>5, <2>3 DEF TokenInv
    <3>3. token \notin InHand(t)'
      BY <1>5, <2>1, <2>3
    <3> QED
      BY <3>1, <3>2, <3>3
  <2> QED
    BY <2>2, <2>3
<1> QED
  BY <1>4, <1>5 DEF TokenInv

\* A call that has loaded nothing adds nothing to what is loaded.
LEMMA LoadedShrinks ==
  ASSUME StoreInv, UNCHANGED disk,
         \A t \in Thread : draft'[t] \in {draft[t], NoDraft}
  PROVE  Loaded' \subseteq Loaded
BY DEF Loaded

\* Nothing is drawn or saved when a call starts, but for a create.
LEMMA CallTokens ==
  ASSUME StoreInv, TokenInv, NEW t \in Thread,
         CallCreate(t) \/ CallRotate(t) \/ CallLogout(t) \/ CallRevoke(t) \/ CallSetPush(t)
  PROVE  TokenInv'
<1>1. PICK request : Submit(t, request) /\ \/ request.kind # "create" /\ UNCHANGED minted
                                           \/ request.token = minted + 1 /\ minted' = minted + 1
  <2>1. CASE CallCreate(t)
    <3>1. PICK d : Submit(t, [kind |-> "create", device |-> d, token |-> minted + 1, time |-> now])
      BY <2>1 DEF CallCreate
    <3>2. PICK request :
              request = [kind |-> "create", device |-> d, token |-> minted + 1, time |-> now]
      OBVIOUS
    <3>3. request.token = minted + 1 /\ minted' = minted + 1 /\ Submit(t, request)
      BY <2>1, <3>1, <3>2 DEF CallCreate
    <3> QED
      BY <3>3
  <2>2. CASE CallRotate(t)
    <3>1. PICK rt : Submit(t, [kind |-> "rotate", rt |-> rt])
      BY <2>2 DEF CallRotate
    <3>2. PICK request : request = [kind |-> "rotate", rt |-> rt]
      OBVIOUS
    <3>3. request.kind # "create" /\ UNCHANGED minted /\ Submit(t, request)
      BY <2>2, <3>1, <3>2 DEF CallRotate
    <3> QED
      BY <3>3
  <2>5. CASE CallLogout(t)
    <3>1. PICK rt : Submit(t, [kind |-> "logout", rt |-> rt])
      BY <2>5 DEF CallLogout
    <3>2. PICK request : request = [kind |-> "logout", rt |-> rt]
      OBVIOUS
    <3>3. request.kind # "create" /\ UNCHANGED minted /\ Submit(t, request)
      BY <2>5, <3>1, <3>2 DEF CallLogout
    <3> QED
      BY <3>3
  <2>3. CASE CallRevoke(t)
    <3>1. PICK d : Submit(t, [kind |-> "revoke", device |-> d])
      BY <2>3 DEF CallRevoke
    <3>2. PICK request : request = [kind |-> "revoke", device |-> d]
      OBVIOUS
    <3>3. request.kind # "create" /\ UNCHANGED minted /\ Submit(t, request)
      BY <2>3, <3>1, <3>2 DEF CallRevoke
    <3> QED
      BY <3>3
  <2>4. CASE CallSetPush(t)
    <3>1. PICK d, push : Submit(t, [kind |-> "push", device |-> d, push |-> push])
      BY <2>4 DEF CallSetPush
    <3>2. PICK request : request = [kind |-> "push", device |-> d, push |-> push]
      OBVIOUS
    <3>3. request.kind # "create" /\ UNCHANGED minted /\ Submit(t, request)
      BY <2>4, <3>1, <3>2 DEF CallSetPush
    <3> QED
      BY <3>3
  <2> QED
    BY <2>1, <2>2, <2>3, <2>4, <2>5
<1>2. /\ op' = [op EXCEPT ![t] = request] /\ UNCHANGED <<disk, draft>>
      /\ stage[t] = "idle"
  BY <1>1 DEF Submit, Ask, Move
<1>3. /\ draft[t] = NoDraft /\ draft' = draft /\ disk' = disk /\ op'[t] = request
      /\ \A u \in Thread \ {t} : op'[u] = op[u]
  BY <1>2 DEF StoreInv, DraftsInBody, TypeOK
<1>4. Loaded' \subseteq Loaded
  BY <1>3, LoadedShrinks
<1>5. \A u \in Thread \ {t} : InHand(u)' \subseteq InHand(u)
  BY <1>3 DEF InHand
<1>6. InHand(t)' \subseteq IF request.kind = "create" THEN {request.token} ELSE {}
  BY <1>3 DEF InHand
<1>7. \A u \in Thread :
          op'[u].kind = "create" /\ draft'[u] # NoDraft => draft'[u].token = op'[u].token
  BY <1>3 DEF TokenInv
<1>8. CASE request.kind # "create" /\ UNCHANGED minted
  <2>1. \A u \in Thread : InHand(u)' \subseteq InHand(u)
    BY <1>5, <1>6, <1>8
  <2> QED
    BY <1>4, <1>7, <1>8, <2>1, TokensRest
<1>9. CASE request.token = minted + 1 /\ minted' = minted + 1
  <2>1. InHand(t)' \subseteq {minted + 1}
    BY <1>6, <1>9
  <2> QED
    BY <1>4, <1>5, <1>7, <1>9, <2>1, TokenIsDrawn
<1> QED
  BY <1>1, <1>8, <1>9

\* Nothing is drawn or saved when a call waits, fails, returns or dies.
LEMMA QuietTokens ==
  ASSUME StoreInv, TokenInv,
         \/ \E t \in Thread : EnterBody(t) \/ LockTimeout(t) \/ BodyRaises(t) \/ Finish(t)
         \/ \E p \in Process : ProcessDies(p)
         \/ Tick
         \/ UNCHANGED vars
  PROVE  TokenInv'
<1>1. /\ UNCHANGED <<disk, minted>>
      /\ \A t \in Thread : op'[t] \in {op[t], NoRequest} /\ draft'[t] \in {draft[t], NoDraft}
  BY DEF EnterBody, LockTimeout, BodyRaises, Finish, ProcessDies, Tick, vars, storeVars,
         Answered, StoreInv, TypeOK
<1>2. ASSUME NEW t \in Thread
      PROVE  op'[t] = NoRequest => draft'[t] = NoDraft \/ draft[t] = NoDraft \/ op[t] = NoRequest
  BY DEF EnterBody, LockTimeout, BodyRaises, Finish, ProcessDies, Tick, vars, storeVars,
         Answered, StoreInv, TypeOK, DraftsInBody, GiveUp, Return, Move
<1>3. Loaded' \subseteq Loaded
  BY <1>1, LoadedShrinks
<1>4. ASSUME NEW t \in Thread PROVE InHand(t)' \subseteq InHand(t)
  BY <1>1, <1>2 DEF InHand, NoRequest
<1>5. \A t \in Thread :
          op'[t].kind = "create" /\ draft'[t] # NoDraft => draft'[t].token = op'[t].token
  BY <1>1 DEF TokenInv, NoRequest
<1> QED
  BY <1>1, <1>3, <1>4, <1>5, TokensRest

\* A call that loads the store draws a token if it rotates.
LEMMA LoadTokens ==
  ASSUME StoreInv, TokenInv, NEW t \in Thread, LoadStore(t)
  PROVE  TokenInv'
<1>1. PICK new : new = draft'[t]
  OBVIOUS
<1>2. /\ UNCHANGED <<disk, op>>
      /\ draft' = [draft EXCEPT ![t] = new] /\ draft[t] = NoDraft /\ new.base = disk
      /\ new.token = IF DrawsToken(t) THEN minted + 1
                     ELSE IF op[t].kind = "create" THEN op[t].token ELSE NoToken
      /\ minted' = IF DrawsToken(t) THEN minted + 1 ELSE minted
  BY <1>1 DEF LoadStore, StoreInv, TypeOK
<1>3. \A u \in Thread \ {t} : draft'[u] = draft[u] /\ op'[u] = op[u]
  BY <1>2 DEF StoreInv, TypeOK
<1>4. op' = op /\ disk' = disk /\ draft'[t] = new
  BY <1>1, <1>2
<1>5. Loaded' \subseteq Loaded
  BY <1>2, <1>3, <1>4 DEF Loaded
<1>6. \A u \in Thread \ {t} : InHand(u)' \subseteq InHand(u)
  BY <1>3 DEF InHand
<1>7. DrawsToken(t) => op[t].kind # "create"
  BY DEF DrawsToken
<1>8. \A u \in Thread :
          op'[u].kind = "create" /\ draft'[u] # NoDraft => draft'[u].token = op'[u].token
  BY <1>2, <1>3, <1>4, <1>7 DEF TokenInv
<1>9. CASE DrawsToken(t)
  <2>1. InHand(t)' \subseteq {minted + 1}
    BY <1>2, <1>4, <1>7, <1>9 DEF InHand
  <2> QED
    BY <1>2, <1>5, <1>6, <1>8, <1>9, <2>1, TokenIsDrawn
<1>10. CASE ~DrawsToken(t)
  <2>1. InHand(t)' \subseteq InHand(t)
    BY <1>2, <1>4, <1>10 DEF InHand
  <2> QED
    BY <1>2, <1>5, <1>6, <1>8, <1>10, <2>1, TokensRest
<1> QED
  BY <1>9, <1>10

\* What a call that concludes computed, and what its store was.
LEMMA Concluding ==
  ASSUME StoreInv, TokenInv, NEW t \in Thread, Conclude(t)
  PROVE  /\ op[t] \in Request /\ op[t].kind \in Mutators /\ draft[t] \in Draft
         /\ draft[t] # NoDraft /\ draft[t].base \in Loaded
         /\ TokensFollow(draft[t].base, Outcome(op[t], draft[t]).data, Minted(op[t], draft[t]))
         /\ Minted(op[t], draft[t]) \subseteq InHand(t)
         /\ Unlockable = {} =>
                /\ draft[t].base = disk
                /\ Remembers(disk, Outcome(op[t], draft[t]).data)
<1>1. stage[t] = "body" /\ draft[t] # NoDraft
  BY DEF Conclude, Leave, Move
<1>2. op[t] \in Request /\ op[t].kind \in Mutators /\ draft[t] \in Draft
  BY <1>1 DEF StoreInv, Requested, TypeOK
<1>3. Outcome(op[t], draft[t]).reply \in {"created", "rotated"} => draft[t].token \in Token
  BY <1>1 DEF StoreInv, DraftsDrawn
<1>4. /\ TokensFollow(draft[t].base, Outcome(op[t], draft[t]).data, Minted(op[t], draft[t]))
      /\ (op[t].kind = "create" => op[t].device \notin Known(draft[t].base)) =>
             Remembers(draft[t].base, Outcome(op[t], draft[t]).data)
  BY <1>2, <1>3, OutcomeFollows
<1>5. Minted(op[t], draft[t]) \subseteq InHand(t)
  <2>1. op[t].kind = "create" => draft[t].token = op[t].token
    BY <1>1 DEF TokenInv
  <2>2. \A token \in Minted(op[t], draft[t]) : token = draft[t].token /\ token # NoToken
    BY <1>3, DeviceRecordsAssumption DEF Minted, NoToken
  <2> QED
    BY <1>1, <2>1, <2>2 DEF InHand
<1>6. Unlockable = {} => draft[t].base = disk /\ Remembers(disk, Outcome(op[t], draft[t]).data)
  <2> SUFFICES ASSUME Unlockable = {}
               PROVE  draft[t].base = disk /\ Remembers(disk, Outcome(op[t], draft[t]).data)
    OBVIOUS
  <2>1. draft[t].base = disk
    BY <1>1 DEF StoreInv, NoLostUpdate
  <2>2. op[t].kind = "create" => op[t].device \notin Known(draft[t].base)
    BY <2>1 DEF StoreInv, CreatingNew
  <2> QED
    BY <1>4, <2>1, <2>2
<1> QED
  BY <1>1, <1>2, <1>4, <1>5, <1>6 DEF Loaded

\* A call that concludes saves the token it had in hand, or drops it.
LEMMA ConcludeTokens ==
  ASSUME StoreInv, TokenInv, NEW t \in Thread, Conclude(t)
  PROVE  TokenInv'
<1>1. PICK base, next, new : /\ base = draft[t].base
                             /\ next = Outcome(op[t], draft[t]).data
                             /\ new = Minted(op[t], draft[t])
  OBVIOUS
<1>2. /\ base \in Loaded /\ TokensFollow(base, next, new) /\ new \subseteq InHand(t)
      /\ draft[t] # NoDraft
  BY <1>1, Concluding
<1>3. /\ disk' \in {disk, next} /\ minted' = minted
      /\ draft' = [draft EXCEPT ![t] = NoDraft] /\ op' = [op EXCEPT ![t] = NoRequest]
  BY <1>1 DEF Conclude, Answered
<1>4. /\ draft'[t] = NoDraft /\ op'[t] = NoRequest
      /\ \A u \in Thread \ {t} : draft'[u] = draft[u] /\ op'[u] = op[u]
  BY <1>3 DEF StoreInv, TypeOK
<1>5. Loaded' \subseteq Loaded \union {next}
  BY <1>3, <1>4 DEF Loaded
<1>6. /\ InHand(t)' = {}
      /\ \A u \in Thread \ {t} : InHand(u)' = InHand(u)
  BY <1>4 DEF InHand, NoRequest
<1>7. /\ Unshared(next) /\ \A token \in Tokens(next) : token \in Tokens(base) \union InHand(t)
  BY <1>2 DEF TokensFollow, TokenInv
<1>8. \A data \in Loaded' : Unshared(data) /\ \A token \in Tokens(data) : token <= minted'
  BY <1>2, <1>3, <1>5, <1>7 DEF TokenInv
<1>9. ASSUME NEW u \in Thread, NEW token \in InHand(u)'
      PROVE  /\ token <= minted'
             /\ \A data \in Loaded' : token \notin Tokens(data)
             /\ \A v \in Thread \ {u} : token \notin InHand(v)'
  <2>1. u # t /\ token \in InHand(u)
    BY <1>6, <1>9
  <2>2. /\ token <= minted /\ \A data \in Loaded : token \notin Tokens(data)
        /\ \A v \in Thread \ {u} : token \notin InHand(v)
    BY <2>1 DEF TokenInv
  <2>3. token \notin Tokens(next)
    BY <1>2, <1>7, <2>1, <2>2
  <2> QED
    BY <1>3, <1>5, <1>6, <2>2, <2>3
<1>10. \A u \in Thread :
          op'[u].kind = "create" /\ draft'[u] # NoDraft => draft'[u].token = op'[u].token
  BY <1>4 DEF TokenInv
<1> QED
  BY <1>8, <1>9, <1>10 DEF TokenInv


\* The invariants of the tokens hold at first.
LEMMA ChainInitial == Init => TokenInv /\ RememberInv /\ TimeInv
<1> SUFFICES ASSUME Init PROVE TokenInv /\ RememberInv /\ TimeInv
  OBVIOUS
<1>1. /\ disk = EmptyStore /\ issued = {}
      /\ \A t \in Thread : op[t] = NoRequest /\ draft[t] = NoDraft /\ result[t] = NoToken
  BY DEF Init
<1>2. Known(disk) = {}
  BY <1>1 DEF Known, EmptyStore
<1>3. Loaded = {disk} /\ \A t \in Thread : InHand(t) = {}
  BY <1>1 DEF Loaded, InHand, NoRequest
<1>4. TokenInv
  BY <1>1, <1>2, <1>3 DEF TokenInv, Unshared, Tokens
<1> QED
  BY <1>1, <1>4 DEF RememberInv, TimeInv, NoRequest

\* Every step keeps the tokens apart.
LEMMA TokensInductive == StoreInv /\ TokenInv /\ [Next]_vars => TokenInv'
BY CallTokens, LoadTokens, ConcludeTokens, QuietTokens DEF Next

\* A token that a mutator hands out is in the file it saves.
LEMMA HandedOutIsSaved ==
  ASSUME NEW request \in Request, request.kind \in Mutators, NEW d,
         Outcome(request, d).reply \in {"created", "rotated"}
  PROVE  Outcome(request, d).saves
<1>1. CASE request.kind = "create"
  BY <1>1 DEF Outcome, CreateDevice, Saved
<1>2. CASE request.kind = "rotate"
  <2>1. Outcome(request, d) = RotateRefresh(d.base, request.rt, d.token, d.time)
    BY <1>2 DEF Outcome
  <2> QED
    BY <2>1 DEF RotateRefresh, RotateVerdict, Saved, Refused
<1>3. CASE request.kind \in {"revoke", "logout", "push"}
  BY <1>3 DEF Outcome, Revoke, RevokeByRefresh, SetPushToken, Saved, Refused
<1> QED
  BY <1>1, <1>2, <1>3 DEF Mutators

\* A call that concludes forgets no token and hands out one it has saved.
LEMMA ConcludeRemembers ==
  ASSUME StoreInv, TokenInv, RememberInv, NEW t \in Thread, Conclude(t)
  PROVE  RememberInv'
<1> SUFFICES ASSUME Unlockable = {},
                    NEW token \in issued' \union {result'[u] : u \in Thread}, token # NoToken
             PROVE  Recognised(disk', token)
  BY DEF RememberInv
<1>1. PICK next, new : next = Outcome(op[t], draft[t]).data /\ new = Minted(op[t], draft[t])
  OBVIOUS
<1>2. Remembers(disk, next) /\ new \subseteq Tokens(next)
  BY <1>1, Concluding DEF TokensFollow
<1>3. Remembers(disk, disk')
  BY <1>1, <1>2 DEF Conclude, Remembers
<1>4. CASE token \in issued \union {result[u] : u \in Thread}
  BY <1>3, <1>4 DEF RememberInv, Remembers
<1>5. CASE token \notin issued \union {result[u] : u \in Thread}
  <2>1. PICK u \in Thread : token = result'[u] /\ token # result[u]
    BY <1>5 DEF Conclude
  <2> DEFINE mints == Outcome(op[t], draft[t]).reply \in {"created", "rotated"}
  <2> HIDE DEF mints
  <2>2. PICK reply : result' = [result EXCEPT ![t] = reply]
                     /\ reply = IF mints THEN draft[t].token ELSE NoToken
    BY DEF Conclude, mints
  <2>3. mints /\ token = draft[t].token
    BY <2>1, <2>2 DEF StoreInv, TypeOK
  <2>4. token \in new
    BY <1>1, <2>3 DEF Minted, mints
  <2>5. Outcome(op[t], draft[t]).saves
    BY <2>3, Concluding, HandedOutIsSaved DEF mints
  <2>6. disk' = next
    BY <1>1, <2>5 DEF Conclude
  <2> QED
    BY <1>2, <2>4, <2>6 DEF Recognised, Tokens
<1> QED
  BY <1>4, <1>5

\* The other steps leave the file as it is and hand out what was promised.
LEMMA RememberInductive ==
  ASSUME StoreInv, TokenInv, RememberInv, [Next]_vars
  PROVE  RememberInv'
<1>1. CASE \E t \in Thread : Conclude(t)
  BY <1>1, ConcludeRemembers
<1>2. CASE ~\E t \in Thread : Conclude(t)
  <2>1. disk' = disk
    BY <1>2
    DEF Next, vars, storeVars, CallCreate, CallRotate, CallLogout, CallRevoke, CallSetPush,
        Submit, EnterBody, LockTimeout, LoadStore, BodyRaises, Finish, ProcessDies, Tick
  <2>2. /\ issued' \subseteq issued \union {result[t] : t \in Thread}
        /\ \A t \in Thread : result'[t] \in {result[t], NoToken}
    BY <1>2
    DEF Next, vars, storeVars, CallCreate, CallRotate, CallLogout, CallRevoke, CallSetPush,
        Submit, EnterBody, LockTimeout, LoadStore, BodyRaises, Finish, ProcessDies, Tick,
        StoreInv, TypeOK
  <2> QED
    BY <2>1, <2>2 DEF RememberInv
<1> QED
  BY <1>1, <1>2

\* A call's time is read from the clock.
LEMMA TimeInductive ==
  ASSUME StoreInv, TimeInv, [Next]_vars
  PROVE  TimeInv'
<1>1. now \in Nat /\ now' \in Nat /\ now <= now'
  BY DeviceStoreAssumption
  DEF Next, vars, storeVars, CallCreate, CallRotate, CallLogout, CallRevoke, CallSetPush,
      Submit, EnterBody, LockTimeout, LoadStore, Conclude, BodyRaises, Finish, ProcessDies, Tick,
      StoreInv, TypeOK
<1>2. ASSUME NEW t \in Thread, op'[t].kind = "create", op'[t] # op[t]
      PROVE  op'[t].time = now
  BY <1>2
  DEF Next, vars, storeVars, CallCreate, CallRotate, CallLogout, CallRevoke, CallSetPush,
      Submit, EnterBody, LockTimeout, LoadStore, Conclude, BodyRaises, Finish, ProcessDies, Tick,
      Answered, NoRequest, StoreInv, TypeOK
<1>3. ASSUME NEW t \in Thread, draft'[t] # NoDraft, draft'[t] # draft[t]
      PROVE  \/ draft'[t].time = now
             \/ op[t].kind = "create" /\ draft'[t].time = op[t].time
  BY <1>3
  DEF Next, vars, storeVars, CallCreate, CallRotate, CallLogout, CallRevoke, CallSetPush,
      Submit, EnterBody, LockTimeout, LoadStore, Conclude, BodyRaises, Finish, ProcessDies, Tick,
      StoreInv, TypeOK
<1>4. \A time \in 0 .. now : time \in 0 .. now'
  BY <1>1
<1>5. now \in 0 .. now'
  BY <1>1
<1> QED
  BY <1>2, <1>3, <1>4, <1>5 DEF TimeInv

\* The store's tokens stay where they are, whatever the number of threads,
\* processes and tokens.
THEOREM ChainInvariant == Spec => []ChainInv
<1>1. Init => ChainInv
  BY StoreInitial, ChainInitial DEF ChainInv
<1>2. ChainInv /\ [Next]_vars => ChainInv'
  BY StoreInductive, TokensInductive, RememberInductive, TimeInductive DEF ChainInv
<1> QED
  BY <1>1, <1>2, PTL DEF Spec

\* The loops that stop at the first device that knows a token have only one.
THEOREM TokensStayUnshared == Spec => []TokensUnshared
<1>1. ChainInv => TokensUnshared
  BY DEF ChainInv, TokenInv, Loaded, Unshared, Single, TokensUnshared
<1> QED
  BY <1>1, ChainInvariant, PTL

\* No interleaving, error or crash hands out a token that the store has not
\* saved, or makes it forget one but by later rotations.
THEOREM IssuedTokensStayKnown == Spec => []IssuedTokensKnown
<1>1. ChainInv => IssuedTokensKnown
  <2>1. StoreInv => \A token \in issued : token # NoToken
    BY DeviceRecordsAssumption DEF StoreInv, TypeOK, NoToken
  <2> QED
    BY <2>1 DEF ChainInv, RememberInv, Recognised, IssuedTokensKnown
<1> QED
  BY <1>1, ChainInvariant, PTL

----------------------------------------------------------------------------
(* The mutators are atomic: a call that saves takes effect at Conclude.    *)

\* AtomicStore computes with the operators that the calls compute with.
LEMMA SameMutators ==
  /\ \A data, d, token, time :
        Atomic!CreateDevice(data, d, token, time) = CreateDevice(data, d, token, time)
  /\ \A data, rt, token, time :
        Atomic!RotateRefresh(data, rt, token, time) = RotateRefresh(data, rt, token, time)
  /\ \A data, d : Atomic!Revoke(data, d) = Revoke(data, d)
  /\ \A data, rt : Atomic!RevokeByRefresh(data, rt) = RevokeByRefresh(data, rt)
  /\ \A data, d, push : Atomic!SetPushToken(data, d, push) = SetPushToken(data, d, push)
<1> USE DEF Atomic!Saved, Saved, Atomic!Refused, Refused, Atomic!Revoked, Revoked
<1>1. \A rec : Atomic!Chain(rec) = Chain(rec)
  BY DEF Atomic!Chain, Chain, Atomic!Range, Range
<1>2. \A data : Atomic!Known(data) = Known(data)
  BY DEF Atomic!Known, Known
<1>3. \A data, rt : Atomic!Holders(data, rt) = Holders(data, rt)
  BY <1>1, <1>2 DEF Atomic!Holders, Holders
<1>4. \A data, rt : Atomic!Holder(data, rt) = Holder(data, rt)
  BY <1>3 DEF Atomic!Holder, Holder
<1>5. \A s : Atomic!Truncate(s) = Truncate(s)
  BY DEF Atomic!Truncate, Truncate
<1>6. \A rec, token, time : Atomic!Rotated(rec, token, time) = Rotated(rec, token, time)
  BY <1>5 DEF Atomic!Rotated, Rotated
<1>7. \A rec, rt, time : Atomic!RotateVerdict(rec, rt, time) = RotateVerdict(rec, rt, time)
  BY DEF Atomic!RotateVerdict, RotateVerdict, Atomic!OlderThanPrior, OlderThanPrior,
         Atomic!Range, Range
<1>8. \A data, rt, token, time :
          Atomic!RotateRefresh(data, rt, token, time) = RotateRefresh(data, rt, token, time)
  <2> TAKE data, rt, token, time
  <2>1. PICK d : d = Holder(data, rt)
    OBVIOUS
  <2>2. PICK verdict : verdict = RotateVerdict(data[d], rt, time)
    OBVIOUS
  <2>3. Atomic!Rotated(data[d], token, time) = Rotated(data[d], token, time)
    BY <1>6
  <2>4. Atomic!RotateVerdict(data[d], rt, time) = verdict
    BY <1>7, <2>2
  <2>5. Atomic!Holder(data, rt) = d /\ Atomic!Holders(data, rt) = Holders(data, rt)
    BY <1>3, <1>4, <2>1
  <2> QED
    BY <2>1, <2>2, <2>3, <2>4, <2>5 DEF Atomic!RotateRefresh, RotateRefresh
<1>9. \A data, d, token, time :
          Atomic!CreateDevice(data, d, token, time) = CreateDevice(data, d, token, time)
  BY DEF Atomic!CreateDevice, CreateDevice, Atomic!NewRecord, NewRecord, Atomic!NoToken, NoToken
<1>10. \A data, rt : Atomic!RevokeByRefresh(data, rt) = RevokeByRefresh(data, rt)
  BY <1>3, <1>4 DEF Atomic!RevokeByRefresh, RevokeByRefresh
<1>11. \A data, d : Atomic!Revoke(data, d) = Revoke(data, d)
  BY DEF Atomic!Revoke, Revoke
<1>12. \A data, d, push : Atomic!SetPushToken(data, d, push) = SetPushToken(data, d, push)
  BY DEF Atomic!SetPushToken, SetPushToken
<1> QED
  BY <1>8, <1>9, <1>10, <1>11, <1>12

\* No device knows the empty token.
LEMMA NobodyHoldsNoToken == ASSUME NEW data \in Store PROVE Holders(data, NoToken) = {}
<1>1. \A d \in Known(data) : Chain(data[d]) \subseteq Tokens(data)
  BY DEF Tokens
<1>2. NoToken \notin Token
  BY DeviceRecordsAssumption DEF NoToken
<1> QED
  BY <1>1, <1>2, StoreTokens DEF Holders

\* A token that the file does not have is unused.
LEMMA SameUnused ==
  /\ Atomic!Known(disk) = Known(disk)
  /\ \A token : token \notin Tokens(disk) => Atomic!Unused(token)
<1>1. Atomic!Known(disk) = Known(disk) /\ \A rec : Atomic!Chain(rec) = Chain(rec)
  BY DEF Atomic!Known, Known, Atomic!Chain, Chain, Atomic!Range, Range
<1> QED
  BY <1>1 DEF Atomic!Unused, Tokens

\* A call that saves is a step of the atomic store.
LEMMA ConcludeIsAtomic ==
  ASSUME ChainInv, Unlockable = {}, NEW t \in Thread, Conclude(t)
  PROVE  [Atomic!AtomicNext]_<<disk, now>>
<1>1. PICK request, token, time : request = op[t] /\ token = draft[t].token /\ time = draft[t].time
  OBVIOUS
<1>2. PICK outcome : outcome = Outcome(op[t], draft[t])
  OBVIOUS
<1>3. /\ request \in Request /\ request.kind \in Mutators /\ draft[t] # NoDraft
      /\ draft[t].base = disk
  BY <1>1, Concluding DEF ChainInv
<1>4. /\ disk \in Store /\ now' = now /\ time \in 0 .. now
      /\ disk' = IF outcome.saves THEN outcome.data ELSE disk
  <2>1. disk \in Store
    BY DEF ChainInv, StoreInv, TypeOK
  <2>2. time \in 0 .. now
    BY <1>1, <1>3 DEF ChainInv, TimeInv
  <2> QED
    BY <1>2, <2>1, <2>2 DEF Conclude
<1>5. outcome.reply \in {"created", "rotated"} => token \in Token /\ Atomic!Unused(token)
  <2> SUFFICES ASSUME outcome.reply \in {"created", "rotated"}
               PROVE  token \in Token /\ token \notin Tokens(disk)
    BY SameUnused
  <2>1. token \in Token
    BY <1>1, <1>2, <1>3 DEF ChainInv, StoreInv, DraftsDrawn
  <2>2. token \in InHand(t)
    BY <1>1, <1>2, Concluding DEF ChainInv, Minted
  <2>3. token \notin Tokens(disk)
    BY <2>2 DEF ChainInv, TokenInv, Loaded
  <2> QED
    BY <2>1, <2>3
<1>6. CASE ~outcome.saves
  BY <1>4, <1>6
<1>7. CASE outcome.saves /\ request.kind = "create"
  <2>1. PICK d : d = request.device
    OBVIOUS
  <2>2. outcome = CreateDevice(disk, d, token, time)
    BY <1>1, <1>2, <1>3, <1>7, <2>1 DEF Outcome
  <2>3. d \in Device \ Atomic!Known(disk)
    <3>1. d \in Device
      BY <1>3, <1>7, <2>1 DEF Request, NoRequest
    <3>2. d \notin Known(disk)
      BY <1>1, <1>7, <2>1 DEF ChainInv, StoreInv, CreatingNew
    <3> QED
      BY <3>1, <3>2, SameUnused
  <2>4. token \in Token /\ Atomic!Unused(token)
    BY <1>5, <2>2 DEF CreateDevice, Saved
  <2>5. Atomic!Takes(Atomic!CreateDevice(disk, d, token, time))
    BY <1>4, <1>7, <2>2, SameMutators DEF Atomic!Takes
  <2> QED
    BY <1>4, <2>3, <2>4, <2>5 DEF Atomic!AtomicNext, Atomic!AtomicCreate
<1>8. CASE outcome.saves /\ request.kind = "rotate"
  <2>1. PICK rt : rt = request.rt
    OBVIOUS
  <2>2. outcome = RotateRefresh(disk, rt, token, time)
    BY <1>1, <1>2, <1>3, <1>8, <2>1 DEF Outcome
  <2>3. rt \in Token
    <3>1. rt \in Token \union {NoToken}
      BY <1>3, <1>8, <2>1 DEF Request, NoRequest
    <3>2. Holders(disk, rt) # {}
      BY <1>8, <2>2 DEF RotateRefresh, Refused
    <3> QED
      BY <1>4, <3>1, <3>2, NobodyHoldsNoToken
  <2>4. Atomic!Takes(Atomic!RotateRefresh(disk, rt, token, time))
    BY <1>4, <1>8, <2>2, SameMutators DEF Atomic!Takes
  <2>5. CASE outcome.reply = "rotated"
    <3>1. Atomic!RotateRefresh(disk, rt, token, time).reply = "rotated"
      BY <2>2, <2>5, SameMutators
    <3> QED
      BY <1>4, <1>5, <2>3, <2>4, <2>5, <3>1 DEF Atomic!AtomicNext, Atomic!AtomicRotate
  <2>6. CASE outcome.reply # "rotated"
    <3>1. /\ RotateRefresh(disk, rt, token, time) = Saved("reused", Revoked(disk, Holder(disk, rt)))
          /\ RotateRefresh(disk, rt, NoToken, time) = RotateRefresh(disk, rt, token, time)
      BY <1>8, <2>2, <2>6 DEF RotateRefresh, Saved, Refused
    <3>2. RotateRefresh(disk, rt, NoToken, time).reply = "reused"
      BY <3>1 DEF Saved
    <3>3. /\ Atomic!RotateRefresh(disk, rt, Atomic!NoToken, time).reply = "reused"
          /\ Atomic!Takes(Atomic!RotateRefresh(disk, rt, Atomic!NoToken, time))
      BY <2>4, <3>1, <3>2, SameMutators DEF Atomic!NoToken, NoToken
    <3> QED
      BY <1>4, <2>3, <3>3 DEF Atomic!AtomicNext, Atomic!AtomicReuse
  <2> QED
    BY <2>5, <2>6
<1>9. CASE outcome.saves /\ request.kind = "revoke"
  <2>1. PICK d : d = request.device
    OBVIOUS
  <2>2. outcome = Revoke(disk, d) /\ d \in Device
    BY <1>1, <1>2, <1>3, <1>9, <2>1 DEF Outcome, Request, NoRequest
  <2>3. Atomic!Takes(Atomic!Revoke(disk, d))
    BY <1>4, <1>9, <2>2, SameMutators DEF Atomic!Takes
  <2> QED
    BY <2>2, <2>3 DEF Atomic!AtomicNext, Atomic!AtomicRevoke
<1>10. CASE outcome.saves /\ request.kind = "logout"
  <2>1. PICK rt : rt = request.rt
    OBVIOUS
  <2>2. outcome = RevokeByRefresh(disk, rt)
    BY <1>1, <1>2, <1>3, <1>10, <2>1 DEF Outcome
  <2>3. rt \in Token
    <3>1. rt \in Token \union {NoToken}
      BY <1>3, <1>10, <2>1 DEF Request, NoRequest
    <3>2. Holders(disk, rt) # {}
      BY <1>10, <2>2 DEF RevokeByRefresh, Refused
    <3> QED
      BY <1>4, <3>1, <3>2, NobodyHoldsNoToken
  <2>4. Atomic!Takes(Atomic!RevokeByRefresh(disk, rt))
    BY <1>4, <1>10, <2>2, SameMutators DEF Atomic!Takes
  <2> QED
    BY <2>3, <2>4 DEF Atomic!AtomicNext, Atomic!AtomicLogout
<1>11. CASE outcome.saves /\ request.kind = "push"
  <2>1. PICK d, push : d = request.device /\ push = request.push
    OBVIOUS
  <2>2. /\ outcome = SetPushToken(disk, d, push)
        /\ d \in Device /\ push \in Push \union {NoPush}
    BY <1>1, <1>2, <1>3, <1>11, <2>1 DEF Outcome, Request, NoRequest
  <2>3. Atomic!Takes(Atomic!SetPushToken(disk, d, push))
    BY <1>4, <1>11, <2>2, SameMutators DEF Atomic!Takes
  <2> QED
    BY <2>2, <2>3 DEF Atomic!AtomicNext, Atomic!AtomicSetPush
<1> QED
  BY <1>3, <1>6, <1>7, <1>8, <1>9, <1>10, <1>11 DEF Mutators

\* Between the calls' other steps the atomic store stands still, or its clock ticks.
LEMMA StepIsAtomic ==
  ASSUME ChainInv, Unlockable = {}, [Next]_vars
  PROVE  [Atomic!AtomicNext]_<<disk, now>>
<1>1. CASE \E t \in Thread : Conclude(t)
  BY <1>1, ConcludeIsAtomic
<1>2. CASE Tick
  BY <1>2 DEF Tick, Atomic!Tick, Atomic!AtomicNext
<1>3. CASE ~(\E t \in Thread : Conclude(t)) /\ ~Tick
  BY <1>3
  DEF Next, vars, storeVars, CallCreate, CallRotate, CallLogout, CallRevoke, CallSetPush,
      Submit, EnterBody, LockTimeout, LoadStore, BodyRaises, Finish, ProcessDies
<1> QED
  BY <1>1, <1>2, <1>3

\* Whatever the processes interleave, and whatever raises or is killed, the
\* file goes through the states of a store whose mutators are atomic, as long
\* as every process can lock.
THEOREM StoreIsAtomic ==
  ASSUME Unlockable = {}
  PROVE  Spec => MutatorsAreAtomic
<1>1. Init => Atomic!AtomicInit
  BY DEF Init, Atomic!AtomicInit, EmptyStore, Atomic!EmptyStore
<1>2. ChainInv /\ [Next]_vars => [Atomic!AtomicNext]_(Atomic!atomicVars)
  BY StepIsAtomic DEF Atomic!atomicVars
<1> QED
  BY <1>1, <1>2, ChainInvariant, PTL DEF Spec, MutatorsAreAtomic, Atomic!AtomicSpec

=============================================================================
