----------------------------- MODULE HermesHome -----------------------------
(***************************************************************************)
(* The plugin's files under a hermes home that belongs to the service user:*)
(* who owns them, and what a crash or a power loss leaves of them.         *)
(*                                                                         *)
(*   mobile, devices.json.lock, devices.json   DeviceStore, device_store.py*)
(*   mobile/mailbox and a mailbox file in it   send, adapter.py, mailbox.py*)
(*   memories/MEMORY.md                        PUT memory/files, plugin_api.py*)
(*                                                                         *)
(* The dashboard and the gateway run as the service user, `hermes mobile`  *)
(* and `hermes send` may run as root.  Root hands what it creates in the   *)
(* store to the service; what root owns the service cannot use.  Both      *)
(* files are replaced by way of a temporary one: mkstemp, write, fsync,    *)
(* os.replace.  mkdir and chmod are one step, and so are write and flush.  *)
(***************************************************************************)
EXTENDS Naturals

CONSTANTS
    Root,         \* calls made by root
    Service,      \* calls made by the service user
    HomeChannel,  \* whether a bare `mobile` target has a device: platforms.mobile.home_channel,
                  \* for cron MOBILE_HOME_CHANNEL
    MaxFaults     \* bound on deaths, failed writes, chowns and unlinks in a run

ASSUME HermesHomeAssumption ==
    Root \intersect Service = {} /\ HomeChannel \in BOOLEAN /\ MaxFaults \in Nat

Caller == Root \union Service

Owner == {"root", "service"}
Place == {"mobile", "lock", "mailbox", "box"}
Target == {"devices", "memory"}

\* A file replaced as a whole: its owner, and whether its data is on disk.
File == [by : Owner, data : {"none", "written", "synced", "torn"}]
NoFile == [by |-> "service", data |-> "none"]

Stages == {"idle", "mkdir", "handdir", "lock", "handlock", "flock", "load", "temp",
           "handtemp", "sync", "replace", "mailbox"}

VARIABLES
    owner,        \* who owns each directory, the lock file and the mailbox file
                  \* (the box), "none" while it does not exist
    file,         \* what each target's name refers to
    past,         \* what else it may refer to again after a power loss
    holder,       \* the call that holds the flock
    call,         \* each call: how far it is, its target and its temporary file
    litter,       \* whether a temporary file is left that nobody will remove
    deaths,       \* calls killed so far, a power loss counting as one
    badWrites,    \* writes that failed so far
    badChowns,    \* chowns that failed so far
    badUnlinks,   \* unlinks of a temporary file that failed so far
    overlap       \* whether one root call saw the store's directory as root's
                  \* when another, having seen none, was about to hand it over

vars == <<owner, file, past, holder, call, litter, deaths, badWrites, badChowns, badUnlinks,
          overlap>>

Nobody == "nobody"
Idle == [stage |-> "idle", target |-> "devices", temp |-> NoFile]

Init ==
    /\ owner = [p \in Place |-> "none"]
    /\ file = [f \in Target |-> NoFile]
    /\ past = [f \in Target |-> {}]
    /\ holder = Nobody
    /\ call = [c \in Caller |-> Idle]
    /\ litter = FALSE
    /\ deaths = 0
    /\ badWrites = 0
    /\ badChowns = 0
    /\ badUnlinks = 0
    /\ overlap = FALSE

User(c) == IF c \in Root THEN "root" ELSE "service"

MayUse(c, who) == c \in Root \/ who # "root"

\* So many more faults are within the bound.
MayFail(n) == deaths + badWrites + badChowns + badUnlinks + n <= MaxFaults
NoFault == UNCHANGED <<deaths, badWrites, badChowns, badUnlinks>>

Goto(c, stage) == call' = [call EXCEPT ![c].stage = stage]

\* Mutant of Ends: an exception leaves the flock held.
EndsLocked(c) == call' = [call EXCEPT ![c] = Idle] /\ UNCHANGED holder

\* The call returns or raises, and lets go of the flock if it has it.
Ends(c) ==
    /\ call' = [call EXCEPT ![c] = Idle]
    /\ holder' = IF holder = c THEN Nobody ELSE holder

----------------------------------------------------------------------------
\* _ensure_dir: whether the directory exists is seen before mkdir.
BeginMutator(c) ==
    /\ call[c] = Idle
    /\ Goto(c, IF owner["mobile"] = "none" THEN "mkdir" ELSE "lock")
    /\ UNCHANGED <<owner, file, past, holder, litter, overlap>> /\ NoFault

\* Mutant of MakeDirectory: a directory root creates is not handed over.
MakeDirectoryOnly(c) ==
    /\ call[c].stage = "mkdir"
    /\ owner' = [owner EXCEPT !["mobile"] = IF @ = "none" THEN User(c) ELSE @]
    /\ Goto(c, "lock")
    /\ UNCHANGED <<file, past, holder, litter, overlap>> /\ NoFault

MakeDirectory(c) ==
    /\ call[c].stage = "mkdir"
    /\ owner' = [owner EXCEPT !["mobile"] = IF @ = "none" THEN User(c) ELSE @]
    /\ Goto(c, IF c \in Root THEN "handdir" ELSE "lock")
    /\ UNCHANGED <<file, past, holder, litter, overlap>> /\ NoFault

\* _match_dir_owner of the directory: the home it is in belongs to the service.
HandDirectory(c) ==
    /\ call[c].stage = "handdir"
    /\ owner' = [owner EXCEPT !["mobile"] = "service"]
    /\ Goto(c, "lock")
    /\ UNCHANGED <<file, past, holder, litter, overlap>> /\ NoFault

\* _open_lock_file: create (O_EXCL), open what is there, or degrade.
OpenLock(c) ==
    /\ call[c].stage = "lock"
    /\ IF ~MayUse(c, owner["mobile"]) \/ ~MayUse(c, owner["lock"])
       THEN Goto(c, "load") /\ UNCHANGED owner
       ELSE IF owner["lock"] = "none"
       THEN /\ owner' = [owner EXCEPT !["lock"] = User(c)]
            /\ Goto(c, IF c \in Root THEN "handlock" ELSE "flock")
       ELSE Goto(c, "flock") /\ UNCHANGED owner
    /\ UNCHANGED <<file, past, holder, litter, overlap>> /\ NoFault

\* _match_dir_owner of a file: the directory's owner, root's own included.
HandedTo == IF owner["mobile"] = "root" THEN "root" ELSE "service"

\* A root call looks at the owner of the directory.
Looks ==
    overlap' = (overlap \/ /\ owner["mobile"] = "root"
                            /\ \E c \in Root : call[c].stage \in {"mkdir", "handdir"})

HandLock(c) ==
    /\ call[c].stage = "handlock"
    /\ owner' = [owner EXCEPT !["lock"] = HandedTo]
    /\ Looks
    /\ Goto(c, "flock")
    /\ UNCHANGED <<file, past, holder, litter>> /\ NoFault

Flock(c) ==
    /\ call[c].stage = "flock"
    /\ holder = Nobody
    /\ holder' = c
    /\ Goto(c, "load")
    /\ UNCHANGED <<owner, file, past, litter, overlap>> /\ NoFault

FlockTimeout(c) ==
    /\ call[c].stage = "flock"
    /\ holder # Nobody
    /\ Ends(c)
    /\ UNCHANGED <<owner, file, past, litter, overlap>> /\ NoFault

\* _load; it raises on a file it may not read, and some calls save nothing.
Load(c) ==
    /\ call[c].stage = "load"
    /\ \/ /\ MayUse(c, owner["mobile"]) /\ MayUse(c, file["devices"].by)
          /\ Goto(c, "temp")
          /\ UNCHANGED holder
       \/ Ends(c)
    /\ UNCHANGED <<owner, file, past, litter, overlap>> /\ NoFault

----------------------------------------------------------------------------
\* PUT /memory/files/{name}, in a directory only the service creates.
BeginPut(c) ==
    /\ c \in Service
    /\ call[c] = Idle
    /\ call' = [call EXCEPT ![c].stage = "temp", ![c].target = "memory"]
    /\ UNCHANGED <<owner, file, past, holder, litter, overlap>> /\ NoFault

\* _save and write_memory_file: mkstemp, write, flush.
WriteTemp(c) ==
    /\ call[c].stage = "temp"
    /\ call' = [call EXCEPT ![c].stage = IF c \in Root THEN "handtemp" ELSE "sync",
                            ![c].temp = [by |-> User(c), data |-> "written"]]
    /\ UNCHANGED <<owner, file, past, holder, litter, overlap>> /\ NoFault

HandTemp(c) ==
    /\ call[c].stage = "handtemp"
    /\ call' = [call EXCEPT ![c].stage = "sync", ![c].temp.by = HandedTo]
    /\ Looks
    /\ UNCHANGED <<owner, file, past, holder, litter>> /\ NoFault

\* Mutant of Sync: os.fsync is left out.
SyncNothing(c) ==
    /\ call[c].stage = "sync"
    /\ Goto(c, "replace")
    /\ UNCHANGED <<owner, file, past, holder, litter, overlap>> /\ NoFault

Sync(c) ==
    /\ call[c].stage = "sync"
    /\ call' = [call EXCEPT ![c].stage = "replace", ![c].temp.data = "synced"]
    /\ UNCHANGED <<owner, file, past, holder, litter, overlap>> /\ NoFault

\* os.replace, and the call returns.
Replace(c) ==
    /\ call[c].stage = "replace"
    /\ file' = [file EXCEPT ![call[c].target] = call[c].temp]
    /\ past' = [past EXCEPT ![call[c].target] =
            (@ \union {file[call[c].target]}) \ {call[c].temp}]
    /\ Ends(c)
    /\ UNCHANGED <<owner, litter, overlap>> /\ NoFault

\* Mutant of WriteFails: the temporary file is not unlinked.
WriteFailsLeaving(c) ==
    /\ call[c].stage \in {"temp", "sync", "replace"}
    /\ MayFail(1)
    /\ badWrites' = badWrites + 1
    /\ litter' = TRUE
    /\ Ends(c)
    /\ UNCHANGED <<owner, file, past, overlap, deaths, badChowns, badUnlinks>>

\* mkstemp, write, fsync or os.replace raises: the temporary file is unlinked, and
\* if that fails too it stays, and nobody is told.
WriteFails(c) ==
    /\ call[c].stage \in {"temp", "sync", "replace"}
    /\ MayFail(1)
    /\ badWrites' = badWrites + 1
    /\ \/ UNCHANGED <<litter, badUnlinks>>
       \/ MayFail(2) /\ badUnlinks' = badUnlinks + 1 /\ litter' = TRUE
    /\ Ends(c)
    /\ UNCHANGED <<owner, file, past, overlap, deaths, badChowns>>

\* _match_dir_owner: an OSError is logged and the call goes on.
ChownFails(c) ==
    /\ call[c].stage \in {"handdir", "handlock", "handtemp"}
    /\ MayFail(1)
    /\ badChowns' = badChowns + 1
    /\ Goto(c, CASE call[c].stage = "handdir" -> "lock"
                 [] call[c].stage = "handlock" -> "flock"
                 [] call[c].stage = "handtemp" -> "sync")
    /\ UNCHANGED <<owner, file, past, holder, litter, overlap, deaths, badWrites, badUnlinks>>

----------------------------------------------------------------------------
\* Mutant of Nearest: only the mailbox directory itself is looked at.
NearestMailboxOnly == owner["mailbox"]

\* _root_mailbox_write_refusal: the owner of the nearest ancestor that exists.
Nearest ==
    IF owner["mailbox"] # "none" THEN owner["mailbox"]
    ELSE IF owner["mobile"] # "none" THEN owner["mobile"]
    ELSE "service"

\* make_target_validator: mobile:<id> is accepted if devices.json, which root can
\* always read, has the device.  It is read before the probe; a file stays there.
Validated == file["devices"].data # "none"

\* send by the gateway, whose replies are not validated, or by the standalone
\* sender, which refuses root unless the tree is root's.
BeginSend(c) ==
    /\ call[c] = Idle
    /\ c \in Root => (HomeChannel \/ Validated) /\ Nearest # "service"
    /\ IF c \in Root THEN Looks ELSE UNCHANGED overlap
    /\ Goto(c, "mailbox")
    /\ UNCHANGED <<owner, file, past, holder, litter>> /\ NoFault

\* append_message: mkdir with parents, and the mailbox file, opened or created.
MakeMailbox(c) ==
    /\ call[c].stage = "mailbox"
    /\ owner' = IF MayUse(c, owner["mobile"]) /\ MayUse(c, owner["mailbox"])
                 THEN [p \in Place |->
                        IF p # "lock" /\ owner[p] = "none" THEN User(c) ELSE owner[p]]
                 ELSE owner
    /\ Ends(c)
    /\ UNCHANGED <<file, past, litter, overlap>> /\ NoFault

----------------------------------------------------------------------------
\* What a killed call leaves: in WriteTemp, the temporary file is made or not yet.
Leaves(c, made) == call[c].temp # NoFile \/ (made /\ call[c].stage = "temp")

Dies(c) ==
    /\ call[c].stage # "idle"
    /\ MayFail(1)
    /\ deaths' = deaths + 1
    /\ \E made \in BOOLEAN : litter' = (litter \/ Leaves(c, made))
    /\ Ends(c)
    /\ UNCHANGED <<owner, file, past, overlap, badWrites, badChowns, badUnlinks>>

\* Every call ends.  No directory is synced, so a name may refer to an earlier
\* file again; data that is not synced is torn.
PowerLoss ==
    /\ MayFail(1)
    /\ deaths' = deaths + 1
    /\ \E found \in [Target -> File] :
        /\ \A f \in Target : found[f] \in {file[f]} \union past[f]
        /\ file' = [f \in Target |->
            IF found[f].data = "written" THEN [found[f] EXCEPT !.data = "torn"] ELSE found[f]]
    /\ past' = [f \in Target |-> {}]
    /\ call' = [c \in Caller |-> Idle]
    /\ holder' = Nobody
    /\ \E made \in BOOLEAN : litter' = (litter \/ \E c \in Caller : Leaves(c, made))
    /\ UNCHANGED <<owner, overlap, badWrites, badChowns, badUnlinks>>

\* The file system writes a directory back.
DirectoryReachesDisk(f) ==
    /\ past[f] # {}
    /\ past' = [past EXCEPT ![f] = {}]
    /\ UNCHANGED <<owner, file, holder, call, litter, overlap>> /\ NoFault

Step(c) ==
    \/ BeginMutator(c) \/ MakeDirectory(c) \/ HandDirectory(c)
    \/ OpenLock(c) \/ HandLock(c) \/ Flock(c) \/ FlockTimeout(c) \/ Load(c)
    \/ BeginPut(c) \/ WriteTemp(c) \/ HandTemp(c) \/ Sync(c) \/ Replace(c)
    \/ BeginSend(c) \/ MakeMailbox(c)
    \/ WriteFails(c) \/ ChownFails(c) \/ Dies(c)

Next ==
    \/ \E c \in Caller : Step(c)
    \/ PowerLoss
    \/ \E f \in Target : DirectoryReachesDisk(f)

Spec == Init /\ [][Next]_vars

----------------------------------------------------------------------------
\* Every variable has its type, and the flock belongs to a call that runs
\* under it.
TypeOK ==
    /\ owner \in [Place -> Owner \union {"none"}]
    /\ file \in [Target -> File]
    /\ past \in [Target -> SUBSET File]
    /\ call \in [Caller -> [stage : Stages, target : Target, temp : File]]
    /\ litter \in BOOLEAN
    /\ {deaths, badWrites, badChowns, badUnlinks} \subseteq 0 .. MaxFaults
    /\ overlap \in BOOLEAN
    /\ holder # Nobody => call[holder].stage \in {"load", "temp", "handtemp", "sync", "replace"}

\* Whatever is killed and whenever the power fails, devices.json and the memory
\* files are one of the files that were written, whole (_save, write_memory_file).
FilesAreWhole == \A f \in Target : file[f].data # "torn"

\* A temporary file is left behind only by a call that was killed, or where its
\* unlink failed after the write: a failed write alone, fsync and rename
\* included, leaves none.
LitterHasACause == litter => deaths > 0 \/ badUnlinks > 0

\* devices.json and the mailbox are root's only in a directory that is
\* root's, or through a chown that failed or root calls that overlapped as the
\* directory was created: a root command that is killed while it saves, or sends
\* a message, never takes them from the service.
ServiceCanRead ==
    (file["devices"].by = "root" \/ "root" \in {owner["mailbox"], owner["box"]}) =>
        owner["mobile"] = "root" \/ badChowns > 0 \/ overlap

RootOwned ==
    {p \in Place : owner[p] = "root"} \union {f \in Target : file[f].by = "root"}

RootIdle == \A c \in Root : call[c] = Idle

\* Once the root commands are done, nothing is left to root, failed writes and
\* all, unless one was killed, a chown failed, or two overlapped as the
\* directory was created.
HandedBack == RootIdle /\ deaths = 0 /\ badChowns = 0 /\ ~overlap => RootOwned = {}

\* What the README says: the files root writes are handed back, so that the
\* gateway user can still read them.
FilesHandedBack == RootIdle => RootOwned = {}

=============================================================================
