# hermes-mobile-plugin: a specification

TLA+ specifications of the stateful parts of hermes-mobile-plugin
(`src/hermes_mobile/`), the TLC configurations that check them on small
instances, and TLAPS proofs of their central properties for every instance.

## The system

The plugin is loaded by several host processes: the dashboard web server, the
gateway, and short-lived command-line runs. They share files, not memory.

| Component | State | Operations | Interacts with |
|---|---|---|---|
| Store lock, `device_store.py` `_locked` | a thread lock per store path and process; a flock on `devices.json.lock` | acquire with one deadline, degrade, release | every mutator of the store |
| Device store, `device_store.py` | `devices.json`: one record per paired device | `create_device`, `rotate_refresh`, `revoke`, `revoke_by_refresh`, `set_push_token`; unlocked reads `verify_access`, `get_push_token`, `get_device`, `list_devices` | auth provider, routes, CLI, notifier, adapter |
| Session lifecycle, `auth_provider.py` | none of its own | `verify_session`, `refresh_session`, `revoke_session` | the host's auth middleware; the store |
| Mailbox, `mailbox.py` | one JSONL file per device | `append_message`, `drain_messages`, no lock | adapter and CLI append, `GET /mailbox` drains |
| Session notifier, `session_notify.py` | claim registry and clarify gate, in memory | `/session-claim`, three hooks, fan-out | the host's hooks, store, Expo |
| Adapter, `adapter.py` | none | `send`, target validator, standalone sender | mailbox, store, Expo |
| Push client, `push.py` | none | `send`, never raises | Expo |
| Routes, `plugin_api.py` | `MEMORY.md`, `USER.md` | push-token, session-claim, mailbox, me, memory files | all of the above |
| CLI, `cli.py` | none | `pair`, `devices`, `revoke` | store |
| Registration, `plugin.py`, `__init__.py` | none after start-up | `register_all` | host |

What makes it hard: several processes rewrite one JSON file; a lock of two
layers with timeouts, exceptions and ways to degrade; a token rotation whose
answer may be lost after it has taken effect; checks made before, and results
used after, a lock is released; a mailbox drained by read-then-unlink without a
lock; hooks that read a claim, a clock and a token at different moments; and a
process that may die between any two of these. `PROJECT.json` lists these
hazards with their lines under "hazards".

What makes each component correct:

* lock: two mutators never overlap unless the lock file failed one of them;
  whatever exit a call takes, both locks are free; every call returns, and within
  one timeout and one poll;
* store: every mutator is atomic, no update is lost, revocation is final, a
  token belongs to one device, a token that was handed out is one the store knows;
* session: an honest phone is not locked out, and heals after a lost answer; a
  revoked device gets no page and no cookies;
* mailbox and adapter: a message is lost or repeated only for causes that can be
  named; a push announces what is already there; mail written for a revoked device
  is neither announced nor read;
* files: devices.json and the memory files are whole whatever fails; what root
  creates does not stay root's; no left-overs but of a killed process or a failed
  unlink;
* notifier: pushes follow live claims, revoked devices hear nothing, questions
  are spaced, a claimed session is not forgotten, failures stay inside.

## The modules

`X -> Y` reads "X implements or is built on Y".

```
TimedLock -> StoreLock -> StoreMutex <- DeviceStore -> AtomicStore
                                             |              |
                                             +-> DeviceRecords <-- RefreshSession
Delivery -> Mailbox       SessionNotify       HermesHome
```

**StoreMutex** is what `_locked` promises: a call asks, waits, enters the block
or gives up, leaves it and returns. Calls of two processes may overlap only if
the lock file fails one of them (`Unlockable`).

**StoreLock** is `_locked` itself, a program counter per thread:
`AcquireThreadLock`/`ThreadLockTimeout` are the two results of `acquire`;
`OpenLockFile`, `OpenDegrades`, `OpenRaises` the results of `_open_lock_file`;
`Flock`, `FlockTimeout`, `FlockUnsupported` the ways a poll of `_flock` ends its
loop; `Unlock` and `Release` are the inner and outer `finally`; `Crash` kills a
process. `LockIsAMutex` is the refinement.

**TimedLock** is StoreLock with a clock. `left` is what remains of the call's
deadline, `nap` of its sleep between polls, `waited` what it has waited in both
waits together. `Proceed` is the step of StoreLock that `SetsDeadline` may
accompany, `TimeOut` either wait's end, `PollAgain` a refused poll and its sleep.
`Tick` moves the clock when nobody who waits has a step to take now: computing
takes no time, being inside the block takes any.

**DeviceRecords** holds the pure part of the mutators as operators on records:
what they answer, whether they save, and what. A token is the serial number of
its minting and stands for its hash too, because hashes are only compared. The
access and refresh token of one rotation share a serial. `name`, `created_at`
and `last_refresh_at` are left out: nothing decides on them.

**DeviceStore** runs the mutators. `CallX` is the call up to the lock
(`create_device` has drawn its token and read the clock by then), `EnterBody`
and `LockTimeout` the lock's answer, `LoadStore` is `_load` and what is drawn
under the lock, `Conclude` the answer with `_save`'s `os.replace`, `BodyRaises`
an I/O error, `Finish` the return of the call, which is when the caller learns its
token, and `ProcessDies` a crash. The write of the temporary file is not a step:
no other process reads it before the rename. The module is written on StoreMutex
rather than StoreLock: `LockIsAMutex` shows, and is proved to show, that nothing
is lost by it.

**AtomicStore** is the abstract store: each mutator takes effect at once.
`MutatorsAreAtomic` says that `devices.json` goes through its states.

**RefreshSession** is a phone, a lossy network and the auth provider over the
atomic store. The host's auth middleware is not in this repository; it is modelled
from how the provider's contract describes it: it tries `verify_session`, then
`refresh_session`; `RefreshExpiredError` clears the cookies, `ProviderError` is
a 503 that keeps them. `VerifyRotated` is a step of its own because
`rotate_refresh` has released the lock by then, and `VerifyRotatedFails` is the
exception of `verify_access` that `refresh_session` does not wrap.

Whether the host lets one request refresh at a time is not this repository's to
say: `serial` is chosen at the start and never changes, and each property says
whether it needs it.

**Mailbox** keeps files apart from the path that names them: a sender that
opened the file before `unlink` writes into a file nobody can reach. `Torn` is
what a failed write leaves behind; a write that fails may also have written
nothing, or everything. One message is one write (a buffered `fh.write` of one
line, flushed at close). `exposed`, `contended`, `repeated` and `dropped` are
history.

**Delivery** composes Mailbox with what is around it. `Validate` is the target
validator, `AppendBegins`, `AppendReturns`, `AppendRaises`, `LookUp` and `Push`
are `MobileAdapter.send` (in a gateway, in cron or in `hermes send`),
`Authenticate`, `DrainBegins` and `DrainGoesOn` are `GET /mailbox`, and
`RevokeDevice` may come between any two. A send that did not return success may
be sent again, as `retryable=True` invites the host to (`docs/CONTRACTS.md:612`):
the same `content` in another message. A revocation does not stop sends: a target
validated before it, a reply and the home channel are appended all the same. What it
does stop is in `LateMailStaysUnread`: `earlier` are the messages written by then,
`underway` the requests let through by then, and mail that is not `earlier` reaches
nobody but through those.

**HermesHome** is the directory the plugin keeps its files in, and who owns what
there. A mutator is `BeginMutator`, `MakeDirectory`, `HandDirectory`, `OpenLock`,
`HandLock`, `Flock`, `Load`, `WriteTemp`, `HandTemp`, `Sync`, `Replace`; what the
other modules call one step (the save) is spelled out here, and what they
spell out (records, the thread lock) is left out. A put of a memory file shares
its end. `WriteFails` unlinks the temporary file, or fails at that too, which the
code swallows; the failed unlink is a fault of its own. `BeginSend` is the standalone
sender's refusal behind the target validator, which lets root send to mobile:<id>
only once there is a devices.json (`Validated`) and does not see a bare `mobile`,
the home channel; `MakeMailbox` is what `append_message` creates. A file is its owner and whether its data has reached the
disk; `past` holds what a name may go back to after a power loss, because no
directory is synced. `overlap` is history.

**SessionNotify** is the notifier: a hook call reads the clock (`CallHook`),
resolves the claim under the registry's lock (`Resolve`), passes the gate
(`GateAllows`, `GateRefuses`; questions only), looks the push token up
(`LookUp`) and posts (`Send`). `Claim` names a live id, its stored key or both, as
the route allows, and leads to the stored key, or to the live id where the key is
missing (`RouteOf`); its clock reading is from before the registry's lock, though
not a TTL old. `id`, `entitled` and `barred` in a call, and `keyless`, the live ids
claimed without their key, are history that the properties need and the code does
not keep.

**MCx** modules give the constants values, and `x.cfg` the bounds.
**x_proofs** modules hold the theorems.

An operator whose comment begins "Mutant of" is the named definition with a
plausible bug. Nothing in the specifications refers to it; it is there to be put
in that definition's place, and the property that must then fail is named in
`PROJECT.json`.

## The runs

| Run | Checks | Shows |
|---|---|---|
| `store_lock` | `LockTypeOK`, `MutualExclusion`, `NoAbandonedLock`, `WaitIsBounded`, `LockIsAMutex`, `EveryCallReturns` | thread lock and flock together are one mutex, never left held, that every caller gets out of in bounded time |
| `store` | `NoLostUpdate`, `IssuedTokensKnown`, `RevokedForever`, `MutatorsAreAtomic` | mutators are atomic under crashes and I/O errors; revocation is final; no issued token is forgotten |
| `degraded_store` | `TypeOK`, `TokensUnshared` | even without cross-process locking a token is in one chain, once |
| `refresh` | `TypeOK`, `PhoneCanRefresh`, `ReuseIsGenuine`, `InconsistencyHasACause`, `SelfHeals`, `NoSessionAfterRevoke` | a phone that never loses two rotations in a row and asks one request at a time keeps its pairing and heals; with requests in parallel a revoked device still gets nothing, and a store that looks inconsistent is not |
| `refresh_lost` | `ReuseIsGenuine`, violated | two rotations lost in a row: an honest phone is revoked |
| `delivery` | `TypeOK`, `LossHasACause`, `LateMailStaysUnread`, `AnnouncedMailWaits`, `CopiesHaveACause`, `MailArrives` | messages are lost or repeated for the named causes only and otherwise arrive; a push never overtakes its message; what is written after a revocation is announced by none, and read only for a request let through before it |
| `mailbox_loss` | `SentMessagesAreKept`, violated | a reported message is unlinked unread |
| `notify` | `TypeOK`, `PushesFollowClaims`, `RevokedHearNothing`, `ClaimedCallsAreNotified` | two hook calls, the cooldown between them, against claims with and without a stored key, take-overs, expiry, revocation, failure and restart; a call for a claimed session ends in a push, but for the reasons named |
| `notify_questions` | `QuestionsAreSpaced` | the gate spaces concurrent questions, in whatever order their clock readings reach it, but for one that waited until the other was forgotten |
| `hook_raises` | `NoHookRaises`, violated | an unreadable store makes a hook raise to the host |
| `files` | `TypeOK`, `FilesAreWhole`, `LitterHasACause`, `ServiceCanRead`, `HandedBack` | files stay whole through deaths and power losses; a failed write leaves no temporary file unless its unlink fails; root takes nothing from the service but for the causes named |
| `files_race` | `FilesHandedBack`, violated | a root send to the home channel overlaps a root pair as the directory is created: the mailbox stays root's |

### Bounds

* `store_lock`: three processes, four threads. Two threads of one process and two
  processes are each needed for a race; the third process is the one that cannot
  lock while the other two must still exclude each other. Timeout 3 and poll 2: a
  deadline that a poll does not hit, so that the overshoot occurs. `waited` stops
  counting at the sum of the two, which `WaitIsBounded` says is never reached.
* `store`: one device, three tokens (pairing and two rotations), two dashboard
  threads and the CLI, `MaxPrev` 2, two clock readings, so that a pairing may write
  an expiry it read before the lock. Two concurrent writers are what a lost update
  takes; the third thread is a second one of the same process. The dashboard's two
  are interchangeable (symmetry; what is checked are invariants and steps).
* `degraded_store`: two devices, so that chains can collide, and two clock
  readings, so that tokens can expire.
* `refresh`, `refresh_lost`: lifetimes of 1 and 2 units, readings 0 to 2, so both
  expire; `MaxFaults` 3 in a run, `MaxLostInRow` 1 where healing is claimed and 2
  where it is refuted. Seven tokens are what a phone that asks one request at a
  time can come to: it never asks for an eighth (checked with eight), so the bound
  cuts nothing that `SelfHeals` needs. Two requests in parallel could rotate in
  turn for ever; there the bound does cut: a rotation that needs an eighth token
  waits. A unit of time is longer than an exchange, so the clock stands while one
  is under way.
* `delivery`: two senders, two drains (a sync and its retry), two messages, one
  fault. Every named cause and every race takes at most two of each. A message
  torn and a third one glued to it and read by two drains is beyond it.
* `files`: two root calls, which the race takes, one call of the service, two
  faults, so that one may follow another's repair. The root calls are
  interchangeable (symmetry). `files_race`: no fault at all. There is a home channel
  in both: without one root may send less, and nothing more.
* `notify`: two hooks and two calls about one live id and its key, two devices, one
  of which has a push token from the start, two requests or revocations, one fault.
  Two claims make a take-over, a claim and a revocation what the revoked must not
  hear. TTL and cooldown 1 over readings 0 and 1: a claim expires, and a question
  falls into another's cooldown. An end, which is a question without the gate,
  is left to `notify_questions`: two questions or ends at a time, three in all, of
  two sessions, cooldown 1 and gate memory 2 over readings 0 to 2:
  entries are refused, and forgotten when a question of the other session is let
  through. No failure: a restart empties the gate and a failed push fills it all
  the same. The calls are interchangeable (symmetry).

Deadlock is not checked in the runs over RefreshSession, Mailbox, Delivery and
SessionNotify, which rightly stop: a phone without cookies, no message left, no
call left. It is checked for the lock, the store and the files.

### Fairness

* TimedLock: each thread inside a call goes on, and while somebody waits the
  clock goes on (`TimePasses`; without it a run could hold infinitely many steps
  in one instant). Nothing is asked of the lock: a waiter whose poll always fails
  gets out through the deadline, as in `_flock`.
* RefreshSession: the dashboard handles what it received, an answer arrives or is
  lost, and the phone keeps syncing. Losses are bounded, not unfair.
* Delivery: a call that has begun goes on, and the phone keeps syncing, by one
  request or another. No new send and no retry is promised: the host need not try
  again.
* HermesHome and Mailbox: none; only safety is checked.
* SessionNotify: threads of the dashboard are scheduled, and the Expo request has
  a timeout (`push.py:99`).

## What the violations say

1. **Two lost answers lock an honest phone out** (`device_store.py:271`). The
   policy measures distance in rotations and takes two for theft. When two
   rotations in a row never reach the phone, it still holds the newest token it
   ever received and its next refresh revokes the device. Two requests that
   refresh in parallel with the same token come to the same without any loss if one
   of them is then retried; the host's refresh, outside this repository, decides
   whether that can happen.
2. **The drain loses messages** (`mailbox.py:104`), as `STATE.md:43-50` records.
3. **Two hooks raise** when the store cannot be read (`session_notify.py:331`).
4. **Root's hand-over has a window** (`device_store.py:502-521`, `adapter.py:195`).
   Between the creation of the store's directory and its hand-over, another root
   command takes it for a root-owned tree: `hermes send` to the home channel is then
   not refused, and its mailbox stays root's. To mobile:<id> it would be: the
   validator finds no devices.json yet. A second root pair meets the same window. The other moments at which root may keep a file, a
   kill and a failed chown, are named by `HandedBack`.

Three smaller things the passing runs show. `_locked` says its wait "never exceeds
`lock_timeout`" (`device_store.py:415`); `WaitIsBounded` holds with one poll more,
0.02 s, and no less: `_flock` tests the deadline before it sleeps, not after. The
branch that "rotate just minted it" rules out (`auth_provider.py:112`, `no cover`)
is reached by a revocation between the rotation and its verification, and by
nothing else when the host refreshes one at a time (`InconsistencyHasACause`). The
host's retry of an append that tore its line is glued to the torn line and is lost
though it returns success (`Glued` in `LossHasACause`).

## What is proved

For every set of processes, threads, devices, tokens and every value of the
lifetimes:

* `StoreLock_proofs`: type correctness, `NoAbandonedLock`, `MutualExclusion`, and
  that StoreLock implements StoreMutex. The inductive invariant adds `Guarded` to
  them: a call past a lock holds it. Without it the `finally` clauses could free a
  lock of another call, and `Release`, which does not look at the holder, would.
* `TimedLock_proofs`: TimedLock implements StoreLock, so that everything proved of
  the latter holds with deadlines and polls (`TimedLockRefinesLock`), and with it
  StoreMutex (`TimedLockIsAMutex`); and `WaitIsBounded`. Its invariant says that, until the deadline has passed, what was
  waited and what is left of it add up to the timeout, and that only the wait for
  the flock sleeps.
* `DeviceRecords_proofs`: each mutator's operator keeps records well formed,
  keeps revoked devices revoked, adds no device but a created one, keeps tokens
  apart (`TokensFollow`) and forgets one only when a history is full (`Remembers`).
* `DeviceStore_proofs`: type correctness, `NoLostUpdate` and `RevokedForever`. The
  inductive invariant `StoreInv` joins mutual exclusion with what a call in the
  block has loaded: `NoLostUpdate` alone is not inductive, because a second draft
  in the block would go stale when the first is saved, and the type of the file is
  not, because it comes from drafts. `RevokedForever` also needs `CreatingNew`: an
  id under creation is not in use, or a pairing could overwrite a revoked record.
  `TokensUnshared` and `IssuedTokensKnown` come from `ChainInv`. The first holds
  with cross-process locking lost, too: what a save can bring back is one of the
  stores the calls have loaded (`Loaded`), so the invariant speaks of all of those
  and of the tokens that calls have drawn and not saved (`InHand`). The second needs
  what a caller is about to be given to be in the file already (`RememberInv`).
  `StoreIsAtomic` is `MutatorsAreAtomic`: a call that saves takes effect at
  `Conclude`, where its draft is still the file, its token is nobody's and its clock
  reading is not in the future (`TimeInv`). What needs every process to be able to
  lock says so (`Unlockable = {}`).
* `HermesHome_proofs`: `FilesAreWhole`, from `WholeInv` (what a call is about to
  rename, and what a name may go back to, is whole too: without it neither `Replace`
  nor `PowerLoss` could be followed); `ServiceCanRead` and `HandedBack`, from
  `OwnerInv`. Its core is `TakenHasACause`: as soon as something is root's for good,
  or a temporary file or a send is about to make it so, the directory is root's with
  no root call still to hand it over, or a chown failed, or an overlap was seen. The
  stages count because the directory changes hands while others are between a look
  at it and what they do; `CreatedIsInHand` gives the fault-free half. `TypeOK` holds
  that the flock is a running call's (`HolderInv`); `LitterHasACause` follows from
  counting deaths and failed unlinks (`FaultInv`).
* `RefreshSession_proofs`: `NoSessionAfterRevoke`, `InconsistencyHasACause` and the
  types, for any number of parallel requests, faults and lost answers, from
  `SessionInv`: the store's chain ends in the last minted token (`HeldInv`), and a
  pair between its rotation and its check is live (`RotatedInv`). `ReuseIsGenuine`
  and `PhoneCanRefresh` are proved under `MaxLostInRow <= 1`, which is what they are
  true under: `refresh_lost` shows the first violated at two. `PhoneCanRefresh` says
  both halves of what `rotate_refresh` asks: the store knows the phone's token (no
  truncation has forgotten it) and would rotate it.
  `BehindInv` says how
  far behind such a phone can be, one rotation, and why: while one is under way the
  phone's token is the prior one unless an answer has just been lost.
  `SessionsUseTheStore` joins the module to the store: each of its steps on the
  records is one of AtomicStore, which `StoreIsAtomic` says DeviceStore implements.
* `Delivery_proofs`: `LossHasACause`, `CopiesHaveACause`, `AnnouncedMailWaits`,
  `LateMailStaysUnread` and the types, over Mailbox and Delivery together. `WindowInv`
  is the core: when a drain is between read and unlink, whatever waits at the path
  is in its batch or was appended meanwhile, and what is still to be written is too.
  `OnPathInv` and `CopyInv` keep a message from being in two places at once, and
  `ContentInv` ties the second message of a content to a send that did not return.
  `CutOffInv` is about a revoked device: a push still to be posted was looked up, and
  so written and reported, before the revocation (`SendsCutOff`), and every
  request not yet answered was let through before it (`DrainsCutOff`).
* `SessionNotify_proofs`: `PushesFollowClaims`, `RevokedHearNothing`,
  `QuestionsAreSpaced` and the types. `CallInv` carries what each stage of a call
  knows to the next; `RouteInv` says that a claim under a stored key leads to it, and
  one under a live id to the key or, if somebody claimed without it, to that id. `KeptInv` is what spacing needs of the gate: it still has the reading
  of a question, or a later one, or the clock is past the time it keeps one. The
  proof is where the last two cases of `QuestionsAreSpaced` come from: `allow`
  forgets by the reading of whoever holds the lock, so a question that waited for
  it long enough, almost an hour, finds the entry of the other gone.

The proofs rest on the named assumptions of the modules only: thread-to-process
map, `NoThread`, `NoRecord` and `NoDraft` distinct from what they stand beside,
lifetimes positive, senders and drains distinct, live ids and stored keys distinct,
a gate that remembers for at least a cooldown. Two more hypotheses are stated in the
theorems that need them: `Unlockable = {}` and `MaxLostInRow <= 1`. That device ids
are drawn fresh is in the guard of `CallCreate` (64 random bits).

Model-checked only: `EveryCallReturns`, `SelfHeals`, `MailArrives` and
`ClaimedCallsAreNotified`. They are liveness properties, and liveness under fairness
is beyond this prover. Every other property of a passing run is stated by a theorem.

## What is not modelled, and the plan

Not modelled, because no state that a property could relate changes there: QR
codes, address detection, formatting, redaction of logged tokens (string
processing), device-id syntax, `/me`, the listing and reading of memory files,
`connect` and `get_chat_info`, registration with the host. The host itself is
modelled only where the plugin's behaviour depends on it (the middleware of
RefreshSession, the retries of Delivery). The contents of memory files are not
told apart: the last writer wins, as documented. Symlinks and hard links that
another user plants in the store's directory are refused by `O_NOFOLLOW` and the
link count; nothing in HermesHome makes any. That the claim registry never drops
an entry is a fact about memory use that a finite set of ids cannot show.

Next are theorems between modules (that what Delivery and SessionNotify read of the
store, `revoked` and the push token, changes as AtomicStore lets it) and the steps
towards the liveness properties that are safety, such as that a waiter's time only
runs down.
