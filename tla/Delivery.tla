------------------------------ MODULE Delivery ------------------------------
(***************************************************************************)
(* Delivery to one paired phone: the target validator and                  *)
(* MobileAdapter.send (adapter.py) and GET /mailbox (plugin_api.py) around *)
(* the mailbox, with the operator revoking the device at any moment.       *)
(*                                                                         *)
(* send appends to the mailbox, looks the push token up, posts a push and  *)
(* returns success; an append that raises is an error the host may retry,  *)
(* as a message of its own.  Only targets given as mobile:<id> are         *)
(* validated; replies and MOBILE_HOME_CHANNEL are not.  The host           *)
(* authenticates a request before its route runs.                          *)
(***************************************************************************)
EXTENDS Mailbox

\* A call is known by its sender or its request.
ASSUME DeliveryAssumption == Sender \cap Drainer = {}

VARIABLES
    revoked,      \* the device's `revoked` in the store
    courier,      \* each send: how far it is and its content
    admitted,     \* the authenticated requests whose drain has not begun
    content,      \* for each message, the first message with its content
    failed,       \* contents whose last send did not return success
    broken,       \* contents some send of which did not return success
    earlier,      \* the messages whose write was over when the device was revoked
    underway      \* the requests let through before that, not yet answered

deliveryVars == <<vars, revoked, courier, admitted, content, failed, broken, earlier, underway>>

NoSend == [stage |-> "idle", content |-> 0]

DeliveryInit ==
    /\ Init
    /\ revoked = FALSE
    /\ courier = [s \in Sender |-> NoSend]
    /\ admitted = {}
    /\ content = <<>>
    /\ failed = {}
    /\ broken = {}
    /\ earlier = {}
    /\ underway = {}

\* Mutant of MayPush: `revoked` is not looked at.
MayPushRevoked == TRUE

\* get_push_token answers for the device.
MayPush == ~revoked

Returns(s) == courier' = [courier EXCEPT ![s] = NoSend]

\* The request is answered.
Answered(d) == underway' = underway \ {d}

\* What a send delivers: something fresh, or again what its last send did not.
Contents == failed \union {sent + 1}

\* validate_target_ref accepts mobile:<id>.
Validate(s) ==
    /\ courier[s] = NoSend
    /\ ~revoked
    /\ courier' = [courier EXCEPT ![s].stage = "valid"]
    /\ UNCHANGED <<vars, revoked, admitted, content, failed, broken, earlier, underway>>

\* send, of a validated target or one that is not validated: append_message
\* opens the mailbox.
AppendBegins(s) ==
    /\ courier[s].stage \in {"idle", "valid"}
    /\ OpenFile(s)
    /\ \E c \in Contents :
        /\ courier' = [courier EXCEPT ![s] = [stage |-> "append", content |-> c]]
        /\ content' = Append(content, c)
        /\ failed' = failed \ {c}
    /\ UNCHANGED <<revoked, admitted, broken, earlier, underway>>

AppendReturns(s) ==
    /\ WriteLine(s)
    /\ courier' = [courier EXCEPT ![s].stage = "lookup"]
    /\ UNCHANGED <<revoked, admitted, content, failed, broken, earlier, underway>>

ReturnsError(s) ==
    /\ Returns(s)
    /\ failed' = failed \union {courier[s].content}
    /\ broken' = broken \union {courier[s].content}

\* Mutant of AppendRaises: send goes on as if the line were written.
AppendRaisesIgnored(s) ==
    /\ WriteFails(s)
    /\ courier' = [courier EXCEPT ![s].stage = "lookup"]
    /\ UNCHANGED <<revoked, admitted, content, failed, broken, earlier, underway>>

\* append_message raises OSError: SendResult(success=False, retryable=True).
AppendRaises(s) ==
    /\ WriteFails(s)
    /\ ReturnsError(s)
    /\ UNCHANGED <<revoked, admitted, content, earlier, underway>>

\* Mutant of LookUp: a store that cannot be read fails the send.
LookUpFailsSend(s) ==
    /\ courier[s].stage = "lookup"
    /\ courier' = [courier EXCEPT ![s] = NoSend]
    /\ failed' = failed \union {courier[s].content}
    /\ UNCHANGED <<vars, revoked, admitted, content, broken, earlier, underway>>

\* _maybe_push finds a token; or there is none, or the store cannot be read, and
\* send returns success.
LookUp(s) ==
    /\ courier[s].stage = "lookup"
    /\ \/ MayPush /\ courier' = [courier EXCEPT ![s].stage = "push"]
       \/ Returns(s)
    /\ UNCHANGED <<vars, revoked, admitted, content, failed, broken, earlier, underway>>

\* ExpoPush.send, accepted or not: send returns success.
Push(s) ==
    /\ courier[s].stage = "push"
    /\ Returns(s)
    /\ UNCHANGED <<vars, revoked, admitted, content, failed, broken, earlier, underway>>

\* The sender dies with the line written and success not returned.
SenderDies(s) ==
    /\ courier[s].stage \in {"lookup", "push"}
    /\ faults < MaxFaults
    /\ ReturnsError(s)
    /\ faults' = faults + 1
    /\ UNCHANGED <<path, files, sender, drainer, sent, reported, exposed, contended, received,
                   repeated, dropped, revoked, admitted, content, earlier, underway>>

\* verify_session and _require_device_id let the request through.
Authenticate(d) ==
    /\ drainer[d] = Resting
    /\ d \notin admitted
    /\ ~revoked
    /\ admitted' = admitted \union {d}
    /\ UNCHANGED <<vars, revoked, courier, content, failed, broken, earlier, underway>>

\* drain_messages reads the mailbox; a missing one answers an empty list.
DrainBegins(d) ==
    /\ d \in admitted
    /\ \/ ReadFile(d) /\ UNCHANGED underway
       \/ path = NoFile /\ Answered(d) /\ UNCHANGED vars
    /\ admitted' = admitted \ {d}
    /\ UNCHANGED <<revoked, courier, content, failed, broken, earlier>>

DrainGoesOn(d) ==
    /\ \/ UnlinkPath(d) /\ UNCHANGED underway
       \/ (UnlinkFails(d) \/ ResponseArrives(d) \/ ResponseLost(d)) /\ Answered(d)
    /\ UNCHANGED <<revoked, courier, admitted, content, failed, broken, earlier>>

\* Messages whose write is not over, requests let through and not answered.
Unwritten == {sender[s].msg : s \in {u \in Sender : sender[u] # NoAppend}}
LetThrough == admitted \union {d \in Drainer : drainer[d] # Resting}

\* hermes mobile revoke, or the store's own verdict on a replayed token.
RevokeDevice ==
    /\ ~revoked
    /\ revoked' = TRUE
    /\ earlier' = (1 .. sent) \ Unwritten
    /\ underway' = LetThrough
    /\ UNCHANGED <<vars, courier, admitted, content, failed, broken>>

SendStep(s) ==
    \/ AppendReturns(s) \/ AppendRaises(s)
    \/ LookUp(s) \/ Push(s) \/ SenderDies(s)

DeliveryNext ==
    \/ \E s \in Sender : Validate(s) \/ AppendBegins(s) \/ SendStep(s)
    \/ \E d \in Drainer : Authenticate(d) \/ DrainBegins(d) \/ DrainGoesOn(d)
    \/ RevokeDevice

DeliverySpec == DeliveryInit /\ [][DeliveryNext]_deliveryVars

\* Calls that started go on, and the phone keeps syncing.
DeliveryFairness ==
    /\ \A s \in Sender : WF_deliveryVars(SendStep(s))
    /\ WF_deliveryVars(\E d \in Drainer : Authenticate(d))
    /\ \A d \in Drainer : WF_deliveryVars(DrainBegins(d) \/ DrainGoesOn(d))

FairDeliverySpec == DeliverySpec /\ DeliveryFairness

----------------------------------------------------------------------------
\* Sends go on for a revoked device: one validated before, and any reply or send
\* to MOBILE_HOME_CHANNEL.  No push announces what they write, for the token is
\* looked up after the write (send, get_push_token); and the phone gets it only
\* in answer to a request that was let through before the revocation.
LateMailStaysUnread ==
    revoked =>
        /\ \A s \in Sender : courier[s].stage = "push" =>
            \E m \in reported \intersect earlier : content[m] = courier[s].content
        /\ \A d \in Drainer : drainer[d].batch \subseteq earlier \/ d \in underway

\* The phone that syncs because of a push finds what the push was about, or has
\* it already: send appends before it announces.
AnnouncedMailWaits ==
    \A s \in Sender : courier[s].stage = "push" => \E m \in reported :
        content[m] = courier[s].content /\ (Kept(m) \/ m \in exposed \/ m \in dropped \/ Glued(m))

\* A content reaches the phone twice only if two drains had read it before either
\* unlinked the path, or if a send of it really failed: a lookup or a push that
\* fails does not make the host send it again.
CopiesHaveACause ==
    /\ repeated \subseteq contended
    /\ \A m, n \in received : m # n /\ content[m] = content[n] => content[m] \in broken

\* A phone that stays paired and keeps draining gets every message whose append
\* returned and that has no named cause to be lost.
MailArrives ==
    \A m \in Message :
        m \in reported ~>
            (m \in received \/ m \in exposed \/ m \in dropped \/ Glued(m) \/ revoked)

=============================================================================
