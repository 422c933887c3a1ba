------------------------------ MODULE Mailbox ------------------------------
(***************************************************************************)
(* One phone's mailbox file: hermes_mobile/mailbox.py, called by           *)
(* MobileAdapter.send (adapter.py) in the gateway, the cron and the        *)
(* command-line senders, and by GET /mailbox (plugin_api.py) in the        *)
(* dashboard.                                                              *)
(*                                                                         *)
(* append_message opens the path, creating the file, and writes one line.  *)
(* drain_messages reads the file at the path and then unlinks the path.    *)
(* Neither takes a lock.  A file outlives its name while a sender has it   *)
(* open, so the model keeps files (inodes) apart from the path.            *)
(***************************************************************************)
EXTENDS Naturals, Sequences, Functions

CONSTANTS
    Sender,       \* concurrent calls of append_message
    Drainer,      \* concurrent requests for GET /mailbox
    MaxMessages,  \* bound on the messages sent in a run
    MaxFaults     \* bound on failed writes, failed unlinks and lost responses in a run

ASSUME MailboxAssumption == MaxMessages \in Nat /\ MaxFaults \in Nat

NoFile == 0
Torn == 0         \* what a failed write leaves: part of a line, no newline

Message == 1 .. MaxMessages

VARIABLES
    path,         \* the file <device_id>.jsonl names, NoFile if there is none
    files,        \* every file there ever was, in order of creation
    sender,       \* each append: idle, or its message and open file
    drainer,      \* each drain: how far it is and what it read
    sent,         \* messages drawn so far: the last one's number
    reported,     \* messages whose append_message returned
    exposed,      \* messages whose append overlapped some read-to-unlink window
    contended,    \* messages a drain read while another was in its window
    received,     \* messages that reached the phone
    repeated,     \* messages that reached it more than once
    dropped,      \* messages whose drain's response was lost
    faults        \* failed writes, failed unlinks and lost responses so far

vars == <<path, files, sender, drainer, sent, reported, exposed, contended, received,
          repeated, dropped, faults>>

Resting == [stage |-> "idle", batch |-> {}]
NoAppend == [msg |-> 0, file |-> NoFile]

Init ==
    /\ path = NoFile
    /\ files = <<>>
    /\ sender = [s \in Sender |-> NoAppend]
    /\ drainer = [d \in Drainer |-> Resting]
    /\ sent = 0
    /\ reported = {}
    /\ exposed = {}
    /\ contended = {}
    /\ received = {}
    /\ repeated = {}
    /\ dropped = {}
    /\ faults = 0

\* Mutants of Readable: a line that does not parse is returned with the others;
\* it empties the answer.
ReadableWithTorn(file) == Range(file)
ReadableIfWhole(file) == IF Torn \in Range(file) THEN {} ELSE Range(file)

\* Whether line i parses: one that continues a torn line is not JSON and is
\* skipped with it.
Parses(file, i) == file[i] # Torn /\ (i = 1 \/ file[i - 1] # Torn)

\* The records drain_messages parses out of a file.
Readable(file) == {file[i] : i \in {k \in DOMAIN file : Parses(file, k)}}

InWindow(d) == drainer[d].stage = "read"

\* Mutant of Opened: the file is opened for writing, not for appending.
OpenedTruncated(file) == <<>>

\* What O_APPEND leaves of the file it opens.
Opened(file) == file

\* os.open with O_CREAT | O_APPEND.
OpenFile(s) ==
    /\ sender[s] = NoAppend
    /\ sent < MaxMessages
    /\ sent' = sent + 1
    /\ IF path = NoFile
       THEN files' = Append(files, <<>>) /\ path' = Len(files) + 1
       ELSE files' = [files EXCEPT ![path] = Opened(@)] /\ UNCHANGED path
    /\ sender' = [sender EXCEPT ![s] = [msg |-> sent + 1, file |-> path']]
    /\ exposed' = IF \E d \in Drainer : InWindow(d) THEN exposed \union {sent + 1} ELSE exposed
    /\ UNCHANGED <<drainer, reported, contended, received, repeated, dropped, faults>>

\* The line is written and the file closed: append_message returns.
WriteLine(s) ==
    /\ sender[s] # NoAppend
    /\ files' = [files EXCEPT ![sender[s].file] = Append(@, sender[s].msg)]
    /\ reported' = reported \union {sender[s].msg}
    /\ sender' = [sender EXCEPT ![s] = NoAppend]
    /\ UNCHANGED <<path, drainer, sent, exposed, contended, received, repeated, dropped,
                   faults>>

\* The write or the close raises (disk full), or the sender dies, with nothing,
\* part or all of the line written: append_message does not return.
WriteFails(s) ==
    /\ sender[s] # NoAppend
    /\ faults < MaxFaults
    /\ faults' = faults + 1
    /\ \/ UNCHANGED files
       \/ \E line \in {Torn, sender[s].msg} :
            files' = [files EXCEPT ![sender[s].file] = Append(@, line)]
    /\ sender' = [sender EXCEPT ![s] = NoAppend]
    /\ UNCHANGED <<path, drainer, sent, reported, exposed, contended, received, repeated,
                   dropped>>

\* path.read_text and the parse; a missing file is an empty answer at once.
ReadFile(d) ==
    /\ drainer[d] = Resting
    /\ path # NoFile
    /\ drainer' = [drainer EXCEPT ![d] = [stage |-> "read", batch |-> Readable(files[path])]]
    /\ exposed' = exposed \union {sender[s].msg : s \in {u \in Sender : sender[u] # NoAppend}}
    /\ contended' = IF \E e \in Drainer : InWindow(e)
                    THEN contended \union drainer'[d].batch ELSE contended
    /\ UNCHANGED <<path, files, sender, sent, reported, received, repeated, dropped, faults>>

\* Mutant of UnlinkPath: the drained file stays.
UnlinkForgotten(d) ==
    /\ drainer[d].stage = "read"
    /\ drainer' = [drainer EXCEPT ![d].stage = "reply"]
    /\ UNCHANGED <<path, files, sender, sent, reported, exposed, contended, received,
                   repeated, dropped,
                   faults>>

\* path.unlink, whatever file the path names by now.
UnlinkPath(d) ==
    /\ drainer[d].stage = "read"
    /\ path' = NoFile
    /\ drainer' = [drainer EXCEPT ![d].stage = "reply"]
    /\ UNCHANGED <<files, sender, sent, reported, exposed, contended, received, repeated,
                   dropped, faults>>

\* path.unlink raises: 503, the messages stay for the next drain.
UnlinkFails(d) ==
    /\ drainer[d].stage = "read"
    /\ faults < MaxFaults
    /\ faults' = faults + 1
    /\ drainer' = [drainer EXCEPT ![d] = Resting]
    /\ UNCHANGED <<path, files, sender, sent, reported, exposed, contended, received,
                   repeated, dropped>>

ResponseArrives(d) ==
    /\ drainer[d].stage = "reply"
    /\ received' = received \union drainer[d].batch
    /\ repeated' = repeated \union (received \intersect drainer[d].batch)
    /\ drainer' = [drainer EXCEPT ![d] = Resting]
    /\ UNCHANGED <<path, files, sender, sent, reported, exposed, contended, dropped, faults>>

\* The response, or the dashboard process holding it, is lost.
ResponseLost(d) ==
    /\ drainer[d].stage = "reply"
    /\ faults < MaxFaults
    /\ faults' = faults + 1
    /\ dropped' = dropped \union drainer[d].batch
    /\ drainer' = [drainer EXCEPT ![d] = Resting]
    /\ UNCHANGED <<path, files, sender, sent, reported, exposed, contended, received, repeated>>

Next ==
    \/ \E s \in Sender : OpenFile(s) \/ WriteLine(s) \/ WriteFails(s)
    \/ \E d \in Drainer :
        ReadFile(d) \/ UnlinkPath(d) \/ UnlinkFails(d) \/ ResponseArrives(d) \/ ResponseLost(d)

Spec == Init /\ [][Next]_vars

----------------------------------------------------------------------------
\* Every variable has its type.
TypeOK ==
    /\ path \in 0 .. Len(files)
    /\ files \in Seq(Seq(Message \union {Torn}))
    /\ \A s \in Sender : sender[s].msg \in 0 .. sent /\ sender[s].file \in 0 .. Len(files)
    /\ \A d \in Drainer :
        /\ drainer[d].stage \in {"idle", "read", "reply"}
        /\ drainer[d].batch \subseteq Message
    /\ sent \in 0 .. MaxMessages
    /\ reported \subseteq 1 .. sent
    /\ exposed \subseteq 1 .. sent
    /\ contended \subseteq 1 .. sent
    /\ dropped \subseteq 1 .. sent
    /\ repeated \subseteq received /\ received \subseteq 1 .. sent
    /\ faults \in 0 .. MaxFaults

Waiting(m) == path # NoFile /\ m \in Readable(files[path])
InFlight(m) == \E d \in Drainer : m \in drainer[d].batch

\* The message can still reach the phone, or has.
Kept(m) == Waiting(m) \/ InFlight(m) \/ m \in received

\* The line before the message was torn by a failed write.
Glued(m) ==
    \E i \in DOMAIN files : \E k \in 2 .. Len(files[i]) :
        files[i][k] = m /\ files[i][k - 1] = Torn

\* The mailbox is the source of truth: a message whose send succeeded can
\* still be fetched until it has been.
SentMessagesAreKept == \A m \in reported : Kept(m)

\* A reported message disappears only if its append overlapped a drain between
\* the read and the unlink, if the response that carried it was lost, or if
\* the write before it tore: nothing else in append, drain or their retries
\* loses one.
LossHasACause ==
    \A m \in reported : Kept(m) \/ m \in exposed \/ m \in dropped \/ Glued(m)

=============================================================================
