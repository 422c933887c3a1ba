------------------------- MODULE HermesHome_proofs -------------------------
(***************************************************************************)
(* Proofs about HermesHome, in two parts: whatever is killed and whenever  *)
(* the power fails, every file is one that was written whole; and what root*)
(* creates does not stay root's but for the causes that the properties name.*)
(***************************************************************************)
EXTENDS HermesHome, TLAPS

CallType == [stage : Stages, target : Target, temp : File]

\* What a name may refer to once it is on disk.
Whole(f) == f \in File /\ f.data \in {"none", "synced"}

\* Only whole files have, had or are about to get a name.
WholeInv ==
    /\ call \in [Caller -> CallType]
    /\ file \in [Target -> File]
    /\ past \in [Target -> SUBSET File]
    /\ \A f \in Target : Whole(file[f]) /\ \A g \in past[f] : Whole(g)
    /\ \A c \in Caller : call[c].stage = "replace" => Whole(call[c].temp)

USE DEF CallType, Stages

\* A missing file counts as the service's and as whole.
LEMMA NoFileIsAFile == NoFile \in File /\ Whole(NoFile)
BY DEF NoFile, File, Owner, Whole

\* A call that has ended is one that is idle.
LEMMA IdleIsACall == Idle \in CallType /\ Idle.stage = "idle"
BY NoFileIsAFile DEF Idle, Target

\* At the start there are no files.
LEMMA WholeInitially == Init => WholeInv
BY NoFileIsAFile, IdleIsACall DEF Init, WholeInv

\* A call goes on: no name changes, and a temporary file is due for its name
\* only when it is synced.
LEMMA CallGoesOn ==
    ASSUME WholeInv, UNCHANGED <<file, past>>,
           NEW c \in Caller, NEW one \in CallType,
           one.stage = "replace" => Whole(one.temp),
           call' = [call EXCEPT ![c] = one]
    PROVE  WholeInv'
BY DEF WholeInv, Whole

\* A call moves to a stage other than the rename.
LEMMA StageChanges ==
    ASSUME WholeInv, UNCHANGED <<file, past>>,
           NEW c \in Caller, NEW stage \in Stages \ {"replace"}, Goto(c, stage)
    PROVE  WholeInv'
<1> DEFINE one == [call[c] EXCEPT !.stage = stage]
<1>1. one \in CallType /\ one.stage # "replace"
  BY DEF WholeInv
<1>2. call' = [call EXCEPT ![c] = one]
  BY DEF Goto, WholeInv
<1> QED
  BY <1>1, <1>2, CallGoesOn

\* A call ends, whatever it leaves undone.
LEMMA CallEnds ==
    ASSUME WholeInv, UNCHANGED <<file, past>>, NEW c \in Caller, Ends(c)
    PROVE  WholeInv'
BY IdleIsACall, CallGoesOn DEF Ends

\* No step of a call gives a name to a file that is not whole.
LEMMA StepKeepsWhole ==
    ASSUME WholeInv, NEW c \in Caller, Step(c)
    PROVE  WholeInv'
<1>0. call[c] \in CallType /\ call \in [Caller -> CallType]
  BY DEF WholeInv
<1>1. CASE BeginMutator(c)
  BY <1>1, StageChanges DEF BeginMutator
<1>2. CASE MakeDirectory(c)
  BY <1>2, StageChanges DEF MakeDirectory
<1>3. CASE HandDirectory(c)
  BY <1>3, StageChanges DEF HandDirectory
<1>4. CASE OpenLock(c)
  BY <1>4, StageChanges DEF OpenLock
<1>5. CASE HandLock(c)
  BY <1>5, StageChanges DEF HandLock
<1>6. CASE Flock(c)
  BY <1>6, StageChanges DEF Flock
<1>7. CASE FlockTimeout(c)
  BY <1>7, CallEnds DEF FlockTimeout
<1>8. CASE Load(c)
  BY <1>8, StageChanges, CallEnds DEF Load
<1>9. CASE BeginPut(c)
  <2> DEFINE one == [call[c] EXCEPT !.stage = "temp", !.target = "memory"]
  <2>1. one \in CallType /\ one.stage # "replace"
    BY <1>0 DEF Target
  <2>2. call' = [call EXCEPT ![c] = one]
    BY <1>0, <1>9 DEF BeginPut
  <2> QED
    BY <1>9, <2>1, <2>2, CallGoesOn DEF BeginPut
<1>10. CASE WriteTemp(c)
  <2> DEFINE stage == IF c \in Root THEN "handtemp" ELSE "sync"
             one == [call[c] EXCEPT !.stage = stage,
                                    !.temp = [by |-> User(c), data |-> "written"]]
  <2>1. one \in CallType /\ one.stage # "replace"
    BY <1>0 DEF File, Owner, User
  <2>2. call' = [call EXCEPT ![c] = one]
    BY <1>0, <1>10 DEF WriteTemp
  <2> QED
    BY <1>10, <2>1, <2>2, CallGoesOn DEF WriteTemp
<1>11. CASE HandTemp(c)
  <2> DEFINE one == [call[c] EXCEPT !.stage = "sync", !.temp.by = HandedTo]
  <2>1. one \in CallType /\ one.stage # "replace"
    BY <1>0 DEF File, Owner, HandedTo
  <2>2. call' = [call EXCEPT ![c] = one]
    BY <1>0, <1>11 DEF HandTemp
  <2> QED
    BY <1>11, <2>1, <2>2, CallGoesOn DEF HandTemp
<1>12. CASE Sync(c)
  <2> DEFINE one == [call[c] EXCEPT !.stage = "replace", !.temp.data = "synced"]
  <2>1. one \in CallType /\ Whole(one.temp)
    BY <1>0 DEF File, Whole
  <2>2. call' = [call EXCEPT ![c] = one]
    BY <1>0, <1>12 DEF Sync
  <2> QED
    BY <1>12, <2>1, <2>2, CallGoesOn DEF Sync
<1>13. CASE Replace(c)
  <2>1. Whole(call[c].temp) /\ call[c].target \in Target /\ call[c].temp \in File
    BY <1>0, <1>13 DEF Replace, WholeInv
  <2>2. /\ call' \in [Caller -> CallType]
        /\ \A d \in Caller : call'[d].stage = "replace" => Whole(call'[d].temp)
    BY <1>13, IdleIsACall DEF Replace, Ends, WholeInv
  <2>3. /\ file' \in [Target -> File]
        /\ past' \in [Target -> SUBSET File]
    BY <1>13, <2>1 DEF Replace, WholeInv
  <2>4. \A f \in Target : Whole(file'[f]) /\ \A g \in past'[f] : Whole(g)
    BY <1>13, <2>1 DEF Replace, WholeInv
  <2> QED
    BY <2>2, <2>3, <2>4 DEF WholeInv, Whole
<1>14. CASE BeginSend(c)
  BY <1>14, StageChanges DEF BeginSend
<1>15. CASE MakeMailbox(c)
  BY <1>15, CallEnds DEF MakeMailbox
<1>16. CASE WriteFails(c)
  BY <1>16, CallEnds DEF WriteFails
<1>17. CASE ChownFails(c)
  BY <1>17, StageChanges DEF ChownFails
<1>18. CASE Dies(c)
  BY <1>18, CallEnds DEF Dies
<1> QED
  BY <1>1, <1>2, <1>3, <1>4, <1>5, <1>6, <1>7, <1>8, <1>9, <1>10, <1>11, <1>12, <1>13,
     <1>14, <1>15, <1>16, <1>17, <1>18 DEF Step

\* After a power loss a name refers to a whole file it has referred to before.
LEMMA PowerLossKeepsWhole == WholeInv /\ PowerLoss => WholeInv'
<1> SUFFICES ASSUME WholeInv, PowerLoss
             PROVE  WholeInv'
  OBVIOUS
<1>1. PICK found \in [Target -> File] :
        /\ \A f \in Target : found[f] \in {file[f]} \union past[f]
        /\ file' = [f \in Target |->
            IF found[f].data = "written" THEN [found[f] EXCEPT !.data = "torn"] ELSE found[f]]
  BY DEF PowerLoss
<1>2. \A f \in Target : Whole(found[f])
  BY <1>1 DEF WholeInv
<1>3. file' = [f \in Target |-> found[f]]
  BY <1>1, <1>2 DEF Whole
<1>4. call' = [c \in Caller |-> Idle] /\ past' = [f \in Target |-> {}]
  BY DEF PowerLoss
<1> QED
  BY <1>1, <1>2, <1>3, <1>4, IdleIsACall DEF WholeInv, Whole

\* Every step keeps files whole.
LEMMA WholeInductive == WholeInv /\ [Next]_vars => WholeInv'
<1> SUFFICES ASSUME WholeInv, [Next]_vars
             PROVE  WholeInv'
  OBVIOUS
<1>1. ASSUME NEW f \in Target, DirectoryReachesDisk(f)
      PROVE  WholeInv'
  BY <1>1 DEF DirectoryReachesDisk, WholeInv, Whole
<1>2. CASE UNCHANGED vars
  BY <1>2 DEF vars, WholeInv, Whole
<1> QED
  BY <1>1, <1>2, StepKeepsWhole, PowerLossKeepsWhole DEF Next

\* devices.json and the memory files are never torn: mkstemp, write, fsync and
\* os.replace leave a whole file under the name whatever is killed, fails or
\* loses power, for any number of commands and requests and any number of faults.
THEOREM FilesStayWhole == Spec => []FilesAreWhole
<1>1. WholeInv => FilesAreWhole
  BY DEF WholeInv, Whole, FilesAreWhole
<1> QED
  BY <1>1, WholeInitially, WholeInductive, PTL DEF Spec

----------------------------------------------------------------------------
\* Who does what: only root hands files over, only the service puts memory
\* files, and what the service creates is its own.
Roles == \A c \in Caller :
    /\ call[c].stage \in {"handdir", "handlock", "handtemp"} => c \in Root
    /\ call[c].target = "memory" => c \in Service
    /\ c \in Service => call[c].temp.by = "service"

MemoryIsTheServices == \A f \in {file["memory"]} \union past["memory"] : f.by = "service"

\* A root call has the store's directory to create or to hand over.
Creating == \E c \in Root : call[c].stage \in {"mkdir", "handdir"}

\* Something of the store is root's for good, or is about to be.
Taken ==
    \/ "root" \in {owner["mailbox"], owner["box"]}
    \/ \E f \in {file["devices"]} \union past["devices"] : f.by = "root"
    \/ \E c \in Root : \/ call[c].stage = "mailbox"
                       \/ call[c].stage \in {"sync", "replace"} /\ call[c].temp.by = "root"

TakenHasACause ==
    Taken => badChowns > 0 \/ overlap \/ (owner["mobile"] = "root" /\ ~Creating)

\* As long as nothing went wrong, what root has created it is about to hand over.
CreatedIsInHand ==
    deaths = 0 /\ badChowns = 0 /\ ~overlap =>
        /\ owner["mobile"] = "root" => \E c \in Root : call[c].stage = "handdir"
        /\ owner["lock"] = "root" => \E c \in Root : call[c].stage = "handlock"

Counted ==
    /\ owner \in [Place -> Owner \union {"none"}]
    /\ badChowns \in Nat
    /\ deaths \in Nat
    /\ overlap \in BOOLEAN

OwnerInv ==
    /\ WholeInv
    /\ Counted
    /\ Roles
    /\ MemoryIsTheServices
    /\ TakenHasACause
    /\ CreatedIsInHand

\* At the start nothing is root's.
LEMMA OwnersInitially == Init => OwnerInv
<1> SUFFICES ASSUME Init
             PROVE  OwnerInv
  OBVIOUS
<1>1. \A p \in Place : owner[p] = "none"
  BY DEF Init
<1>2. /\ \A c \in Caller : call[c] = Idle
      /\ \A f \in Target : file[f] = NoFile /\ past[f] = {}
  BY DEF Init
<1>3. WholeInv /\ Counted
  BY WholeInitially DEF Init, Counted
<1>4. Roles /\ MemoryIsTheServices
  BY <1>2 DEF Roles, MemoryIsTheServices, Idle, NoFile, Target
<1>5. TakenHasACause
  <2>1. \A c \in Root : call[c].stage = "idle"
    BY <1>2 DEF Idle, Caller
  <2>2. \A f \in {file["devices"]} \union past["devices"] : f.by = "service"
    BY <1>2 DEF NoFile, Target
  <2> QED
    BY <1>1, <2>1, <2>2 DEF TakenHasACause, Taken, Place
<1>6. CreatedIsInHand
  BY <1>1 DEF CreatedIsInHand, Place
<1> QED
  BY <1>3, <1>4, <1>5, <1>6 DEF OwnerInv

\* What a step of a call keeps of OwnerInv beside WholeInv.
Rest == Counted /\ Roles /\ MemoryIsTheServices /\ TakenHasACause /\ CreatedIsInHand

\* A root call that finds the directory root's notices whoever is to hand it over.
LEMMA LooksNotices ==
    ASSUME Looks
    PROVE  (overlap => overlap') /\ (owner["mobile"] = "root" /\ Creating => overlap')
BY DEF Looks, Creating

\* One step per action of a call; where the action looks at the directory's owner
\* or lets go of the mailbox, one per conjunct.
LEMMA StepKeepsOwners ==
    ASSUME OwnerInv, NEW c \in Caller, Step(c)
    PROVE  Rest'
<1> USE IdleIsACall, HermesHomeAssumption
    DEF OwnerInv, WholeInv, Rest, Counted, Roles, MemoryIsTheServices, Caller, Place, Owner,
        Target, File, Idle, NoFile
<1>1. CASE BeginMutator(c)
  BY <1>1 DEF BeginMutator, Goto, NoFault, TakenHasACause, Taken, Creating, CreatedIsInHand
<1>2. CASE MakeDirectory(c)
  BY <1>2
  DEF MakeDirectory, Goto, NoFault, User, TakenHasACause, Taken, Creating,
      CreatedIsInHand
<1>3. CASE HandDirectory(c)
  BY <1>3 DEF HandDirectory, Goto, NoFault, TakenHasACause, Taken, Creating, CreatedIsInHand
<1>4. CASE OpenLock(c)
  BY <1>4
  DEF OpenLock, Goto, NoFault, User, MayUse, TakenHasACause, Taken, Creating,
      CreatedIsInHand
<1>5. CASE HandLock(c)
  <2> USE <1>5 DEF HandLock, Goto, NoFault, Looks, HandedTo
  <2>1. Counted' /\ Roles' /\ MemoryIsTheServices'
    OBVIOUS
  <2>2. Creating' => Creating
    BY DEF Creating
  <2>3. Taken' => Taken \/ owner["mobile"] = "root"
    BY DEF Taken
  <2>4. TakenHasACause'
    BY <2>2, <2>3, LooksNotices DEF TakenHasACause
  <2>5. CreatedIsInHand'
    BY DEF CreatedIsInHand
  <2> QED
    BY <2>1, <2>4, <2>5
<1>6. CASE Flock(c)
  BY <1>6 DEF Flock, Goto, NoFault, TakenHasACause, Taken, Creating, CreatedIsInHand
<1>7. CASE FlockTimeout(c)
  BY <1>7 DEF FlockTimeout, Ends, NoFault, TakenHasACause, Taken, Creating, CreatedIsInHand
<1>8. CASE Load(c)
  BY <1>8 DEF Load, Goto, Ends, NoFault, TakenHasACause, Taken, Creating, CreatedIsInHand
<1>9. CASE BeginPut(c)
  BY <1>9 DEF BeginPut, NoFault, TakenHasACause, Taken, Creating, CreatedIsInHand
<1>10. CASE WriteTemp(c)
  BY <1>10 DEF WriteTemp, NoFault, User, TakenHasACause, Taken, Creating, CreatedIsInHand
<1>11. CASE HandTemp(c)
  <2> USE <1>11 DEF HandTemp, NoFault, Looks, HandedTo
  <2>1. Counted' /\ Roles' /\ MemoryIsTheServices'
    OBVIOUS
  <2>2. Creating' => Creating
    BY DEF Creating
  <2>3. Taken' => Taken \/ owner["mobile"] = "root"
    BY DEF Taken
  <2>4. TakenHasACause'
    BY <2>2, <2>3, LooksNotices DEF TakenHasACause
  <2>5. CreatedIsInHand'
    BY DEF CreatedIsInHand
  <2> QED
    BY <2>1, <2>4, <2>5
<1>12. CASE Sync(c)
  BY <1>12 DEF Sync, NoFault, TakenHasACause, Taken, Creating, CreatedIsInHand
<1>13. CASE Replace(c)
  BY <1>13 DEF Replace, Ends, NoFault, TakenHasACause, Taken, Creating, CreatedIsInHand
<1>14. CASE BeginSend(c)
  <2> USE <1>14 DEF BeginSend, Goto, NoFault
  <2>1. Counted' /\ Roles' /\ MemoryIsTheServices'
    BY DEF Looks
  <2>2. ASSUME c \in Root, Taken'
        PROVE  badChowns' > 0 \/ overlap' \/ (owner'["mobile"] = "root" /\ ~Creating')
    <3>1. owner["mailbox"] = "root" \/ owner["mobile"] = "root"
      BY <2>2 DEF Nearest
    <3>2. Taken => badChowns > 0 \/ overlap \/ (owner["mobile"] = "root" /\ ~Creating)
      BY DEF TakenHasACause
    <3>3. Creating' => Creating
      BY DEF Creating
    <3>4. owner["mailbox"] = "root" => Taken
      BY DEF Taken
    <3> QED
      BY <2>2, <3>1, <3>2, <3>3, <3>4, LooksNotices
  <2>3. ASSUME c \notin Root, Taken'
        PROVE  Taken
    BY <2>3 DEF Taken
  <2>4. Creating' => Creating
    BY DEF Creating
  <2>5. c \notin Root => UNCHANGED overlap
    OBVIOUS
  <2>6. TakenHasACause'
    BY <2>2, <2>3, <2>4, <2>5 DEF TakenHasACause
  <2>7. CreatedIsInHand'
    BY DEF Looks, CreatedIsInHand
  <2> QED
    BY <2>1, <2>6, <2>7
<1>15. CASE MakeMailbox(c)
  <2> USE <1>15 DEF MakeMailbox, Ends, NoFault, User, MayUse
  <2>1. Counted' /\ Roles' /\ MemoryIsTheServices'
    OBVIOUS
  <2>2. TakenHasACause'
    BY DEF TakenHasACause, Taken, Creating
  <2>3. CreatedIsInHand'
    BY DEF CreatedIsInHand, TakenHasACause, Taken, Creating
  <2> QED
    BY <2>1, <2>2, <2>3
<1>16. CASE WriteFails(c)
  BY <1>16 DEF WriteFails, Ends, TakenHasACause, Taken, Creating, CreatedIsInHand
<1>17. CASE ChownFails(c)
  BY <1>17 DEF ChownFails, Goto, TakenHasACause, Taken, Creating, CreatedIsInHand
<1>18. CASE Dies(c)
  BY <1>18 DEF Dies, Ends, TakenHasACause, Taken, Creating, CreatedIsInHand
<1> QED
  BY <1>1, <1>2, <1>3, <1>4, <1>5, <1>6, <1>7, <1>8, <1>9, <1>10,
     <1>11, <1>12, <1>13, <1>14, <1>15, <1>16, <1>17, <1>18
  DEF Step

\* A power loss ends every call; the files that come back had their owners before.
LEMMA PowerLossKeepsOwners == OwnerInv /\ PowerLoss => Rest'
<1> SUFFICES ASSUME OwnerInv, PowerLoss
             PROVE  Rest'
  OBVIOUS
<1>1. PICK found \in [Target -> File] :
        /\ \A f \in Target : found[f] \in {file[f]} \union past[f]
        /\ file' = [f \in Target |->
            IF found[f].data = "written" THEN [found[f] EXCEPT !.data = "torn"] ELSE found[f]]
  BY DEF PowerLoss
<1>2. \A f \in Target : file'[f].by = found[f].by
  BY <1>1 DEF File
<1>3. \A c \in Caller : call'[c] = Idle
  BY DEF PowerLoss
<1>4. \A f \in Target : past'[f] = {}
  BY DEF PowerLoss
<1>5. Counted' /\ deaths' # 0 /\ UNCHANGED <<owner, badChowns, overlap>>
  BY DEF PowerLoss, OwnerInv, Counted
<1>6. Roles' /\ MemoryIsTheServices'
  <2>1. Roles'
    BY <1>3 DEF Roles, Idle, NoFile
  <2>2. found["memory"].by = "service"
    BY <1>1 DEF MemoryIsTheServices, OwnerInv, Target
  <2> QED
    BY <1>2, <1>4, <2>1, <2>2 DEF MemoryIsTheServices, Target
<1>7. TakenHasACause'
  <2>1. ~Creating'
    BY <1>3 DEF Creating, Idle, Caller
  <2>2. Taken' => Taken
    <3>1. \A c \in Root : call'[c].stage = "idle"
      BY <1>3 DEF Idle, Caller
    <3>2. file'["devices"].by = found["devices"].by /\ past'["devices"] = {}
      BY <1>2, <1>4 DEF Target
    <3>3. found["devices"] \in {file["devices"]} \union past["devices"]
      BY <1>1 DEF Target
    <3> QED
      BY <1>5, <3>1, <3>2, <3>3 DEF Taken
  <2> QED
    BY <1>5, <2>1, <2>2 DEF TakenHasACause, OwnerInv
<1>8. CreatedIsInHand'
  BY <1>5 DEF CreatedIsInHand
<1> QED
  BY <1>5, <1>6, <1>7, <1>8 DEF Rest

\* Every step keeps OwnerInv.
LEMMA OwnersInductive == OwnerInv /\ [Next]_vars => OwnerInv'
<1> SUFFICES ASSUME OwnerInv, [Next]_vars
             PROVE  OwnerInv'
  OBVIOUS
<1>1. WholeInv'
  BY WholeInductive DEF OwnerInv
<1>2. ASSUME NEW f \in Target, DirectoryReachesDisk(f)
      PROVE  Rest'
  <2> USE <1>2 DEF DirectoryReachesDisk, NoFault, OwnerInv, Target
  <2>1. \A g \in Target : past'[g] \subseteq past[g]
    BY DEF WholeInv
  <2>2. Counted' /\ Roles' /\ MemoryIsTheServices' /\ CreatedIsInHand'
    BY <2>1 DEF Counted, Roles, MemoryIsTheServices, CreatedIsInHand
  <2>3. TakenHasACause'
    BY <2>1 DEF TakenHasACause, Taken, Creating
  <2> QED
    BY <2>2, <2>3 DEF Rest
<1>3. CASE UNCHANGED vars
  <2> USE <1>3 DEF vars, OwnerInv
  <2>1. Counted' /\ Roles' /\ MemoryIsTheServices'
    BY DEF Counted, Roles, MemoryIsTheServices
  <2>2. TakenHasACause'
    BY DEF TakenHasACause, Taken, Creating
  <2>3. CreatedIsInHand'
    BY DEF CreatedIsInHand
  <2> QED
    BY <1>1, <2>1, <2>2, <2>3
<1> QED
  BY <1>1, <1>2, <1>3, StepKeepsOwners, PowerLossKeepsOwners DEF Next, Rest, OwnerInv

\* Root never takes devices.json or the mailbox from the service in a directory
\* that is the service's, unless a chown failed or two root calls overlapped as the
\* directory was created: kills, failed writes and power losses cannot.
THEOREM ServiceKeepsAccess == Spec => []ServiceCanRead
<1>1. OwnerInv => ServiceCanRead
  BY DEF OwnerInv, TakenHasACause, Taken, ServiceCanRead
<1> QED
  BY <1>1, OwnersInitially, OwnersInductive, PTL DEF Spec

\* When the root commands are done, and none was killed, failed to chown or
\* overlapped as the directory was created, nothing under the home is root's.
THEOREM RootHandsBack == Spec => []HandedBack
<1>1. OwnerInv => HandedBack
  <2> SUFFICES ASSUME OwnerInv, RootIdle, deaths = 0, badChowns = 0, ~overlap
               PROVE  RootOwned = {}
    BY DEF HandedBack
  <2>1. \A c \in Root : call[c].stage = "idle"
    BY IdleIsACall DEF RootIdle
  <2>2. owner["mobile"] # "root" /\ owner["lock"] # "root"
    BY <2>1 DEF OwnerInv, CreatedIsInHand
  <2>3. ~Taken
    BY <2>2 DEF OwnerInv, TakenHasACause, Counted
  <2> QED
    BY <2>2, <2>3 DEF RootOwned, Taken, OwnerInv, MemoryIsTheServices, Place, Target
<1> QED
  BY <1>1, OwnersInitially, OwnersInductive, PTL DEF Spec

----------------------------------------------------------------------------
\* What a call does while it holds the flock.
Locked == {"load", "temp", "handtemp", "sync", "replace"}

\* The flock belongs to a call that runs under it.
HolderInv == holder # Nobody => holder \in Caller /\ call[holder].stage \in Locked

\* The faults are counted and bounded, and a temporary file that stays was left
\* by a call that was killed or could not unlink it.
FaultInv ==
    /\ {deaths, badWrites, badChowns, badUnlinks} \subseteq 0 .. MaxFaults
    /\ litter \in BOOLEAN
    /\ LitterHasACause

RunInv == OwnerInv /\ HolderInv /\ FaultInv

\* The counters of the faults, each within the bound.
LEMMA FaultsAreCounted ==
    ASSUME FaultInv
    PROVE  /\ deaths \in 0 .. MaxFaults /\ badWrites \in 0 .. MaxFaults
           /\ badChowns \in 0 .. MaxFaults /\ badUnlinks \in 0 .. MaxFaults
           /\ MaxFaults \in Nat
BY HermesHomeAssumption DEF FaultInv

\* A step in which no call is killed, no write and no unlink fails leaves no
\* temporary file and counts at most one failed chown.
LEMMA NobodyIsKilled ==
    ASSUME FaultInv, UNCHANGED <<deaths, litter, badWrites, badUnlinks>>,
           UNCHANGED badChowns \/ (MayFail(1) /\ badChowns' = badChowns + 1)
    PROVE  FaultInv'
<1>1. badChowns' \in 0 .. MaxFaults
  BY FaultsAreCounted DEF MayFail
<1> QED
  BY <1>1 DEF FaultInv, LitterHasACause

\* A failed write leaves its temporary file only if the unlink fails too.
LEMMA WriteIsCounted ==
    ASSUME FaultInv, NEW c \in Caller, WriteFails(c)
    PROVE  FaultInv'
<1>1. /\ MayFail(1) /\ badWrites' = badWrites + 1 /\ UNCHANGED <<deaths, badChowns>>
      /\ \/ UNCHANGED <<litter, badUnlinks>>
         \/ MayFail(2) /\ badUnlinks' = badUnlinks + 1 /\ litter' = TRUE
  BY DEF WriteFails
<1>2. badWrites' \in 0 .. MaxFaults
  BY <1>1, FaultsAreCounted DEF MayFail
<1>3. CASE UNCHANGED <<litter, badUnlinks>>
  BY <1>1, <1>2, <1>3 DEF FaultInv, LitterHasACause
<1>4. CASE MayFail(2) /\ badUnlinks' = badUnlinks + 1 /\ litter' = TRUE
  <2>1. badUnlinks' \in 0 .. MaxFaults /\ badUnlinks' > 0
    BY <1>4, FaultsAreCounted DEF MayFail
  <2> QED
    BY <1>1, <1>2, <1>4, <2>1 DEF FaultInv, LitterHasACause
<1> QED
  BY <1>1, <1>3, <1>4

\* A kill may leave one, and is counted.
LEMMA SomebodyIsKilled ==
    ASSUME FaultInv, MayFail(1), deaths' = deaths + 1, litter' \in BOOLEAN,
           UNCHANGED <<badWrites, badChowns, badUnlinks>>
    PROVE  FaultInv'
<1>1. deaths' \in 0 .. MaxFaults /\ deaths' > 0
  BY FaultsAreCounted DEF MayFail
<1> QED
  BY <1>1 DEF FaultInv, LitterHasACause

\* A call that goes on from a stage to the next keeps the flock if it has it.
LEMMA HolderGoesOn ==
    ASSUME WholeInv, HolderInv, NEW c \in Caller, NEW one \in CallType,
           call' = [call EXCEPT ![c] = one],
           \/ UNCHANGED holder /\ (call[c].stage \in Locked => one.stage \in Locked)
           \/ holder' = c /\ one.stage \in Locked
    PROVE  HolderInv'
BY DEF WholeInv, HolderInv

\* A call that moves to another stage, of those without the flock or within it.
LEMMA HolderMoves ==
    ASSUME WholeInv, HolderInv, NEW c \in Caller, NEW stage \in Stages, Goto(c, stage),
           \/ UNCHANGED holder /\ (call[c].stage \in Locked => stage \in Locked)
           \/ holder' = c /\ stage \in Locked
    PROVE  HolderInv'
<1> DEFINE one == [call[c] EXCEPT !.stage = stage]
<1>1. one \in CallType /\ one.stage = stage
  BY DEF WholeInv
<1>2. call' = [call EXCEPT ![c] = one]
  BY DEF Goto, WholeInv
<1> HIDE DEF one
<1> QED
  BY <1>1, <1>2, HolderGoesOn

\* A call that ends holds nothing.
LEMMA HolderEnds ==
    ASSUME WholeInv, HolderInv, NEW c \in Caller, Ends(c)
    PROVE  HolderInv'
BY DEF WholeInv, HolderInv, Ends

\* One step per action of a call, for the flock.
LEMMA StepKeepsHolder ==
    ASSUME WholeInv, HolderInv, NEW c \in Caller, Step(c)
    PROVE  HolderInv'
<1> USE DEF Locked
<1>0. call[c] \in CallType
  BY DEF WholeInv
<1>1. CASE BeginMutator(c) \/ BeginSend(c)
  BY <1>1, IdleIsACall, HolderMoves DEF BeginMutator, BeginSend
<1>2. CASE MakeDirectory(c) \/ HandDirectory(c) \/ OpenLock(c) \/ HandLock(c)
  BY <1>2, HolderMoves DEF MakeDirectory, HandDirectory, OpenLock, HandLock
<1>3. CASE Flock(c)
  BY <1>3, HolderMoves DEF Flock
<1>4. CASE FlockTimeout(c) \/ Replace(c) \/ MakeMailbox(c) \/ WriteFails(c) \/ Dies(c)
  BY <1>4, HolderEnds DEF FlockTimeout, Replace, MakeMailbox, WriteFails, Dies
<1>5. CASE Load(c)
  BY <1>5, HolderMoves, HolderEnds DEF Load
<1>6. CASE BeginPut(c)
  <2> DEFINE one == [call[c] EXCEPT !.stage = "temp", !.target = "memory"]
  <2>1. one \in CallType /\ one.stage = "temp"
    BY <1>0 DEF Target
  <2>2. call' = [call EXCEPT ![c] = one]
    BY <1>0, <1>6 DEF BeginPut
  <2> HIDE DEF one
  <2> QED
    BY <1>6, <2>1, <2>2, HolderGoesOn DEF BeginPut
<1>7. CASE WriteTemp(c)
  <2> DEFINE stage == IF c \in Root THEN "handtemp" ELSE "sync"
             one == [call[c] EXCEPT !.stage = stage,
                                    !.temp = [by |-> User(c), data |-> "written"]]
  <2>1. one \in CallType /\ one.stage \in Locked
    BY <1>0 DEF File, Owner, User
  <2>2. call' = [call EXCEPT ![c] = one]
    BY <1>0, <1>7 DEF WriteTemp
  <2> HIDE DEF one
  <2> QED
    BY <1>7, <2>1, <2>2, HolderGoesOn DEF WriteTemp
<1>8. CASE HandTemp(c)
  <2> DEFINE one == [call[c] EXCEPT !.stage = "sync", !.temp.by = HandedTo]
  <2>1. one \in CallType /\ one.stage = "sync"
    BY <1>0 DEF File, Owner, HandedTo
  <2>2. call' = [call EXCEPT ![c] = one]
    BY <1>0, <1>8 DEF HandTemp
  <2> HIDE DEF one
  <2> QED
    BY <1>8, <2>1, <2>2, HolderGoesOn DEF HandTemp
<1>9. CASE Sync(c)
  <2> DEFINE one == [call[c] EXCEPT !.stage = "replace", !.temp.data = "synced"]
  <2>1. one \in CallType /\ one.stage = "replace"
    BY <1>0 DEF File
  <2>2. call' = [call EXCEPT ![c] = one]
    BY <1>0, <1>9 DEF Sync
  <2> HIDE DEF one
  <2> QED
    BY <1>9, <2>1, <2>2, HolderGoesOn DEF Sync
<1>10. CASE ChownFails(c)
  BY <1>10, HolderMoves DEF ChownFails
<1> QED
  BY <1>1, <1>2, <1>3, <1>4, <1>5, <1>6, <1>7, <1>8, <1>9, <1>10 DEF Step

\* At the start no call has the flock and nothing has failed.
LEMMA RunInitially == Init => RunInv
<1> SUFFICES ASSUME Init PROVE RunInv
  OBVIOUS
<1>1. HolderInv
  BY DEF Init, HolderInv
<1>2. FaultInv
  <2>1. /\ deaths = 0 /\ badWrites = 0 /\ badChowns = 0 /\ badUnlinks = 0
        /\ 0 \in 0 .. MaxFaults
    BY HermesHomeAssumption DEF Init
  <2>2. litter = FALSE
    BY DEF Init
  <2>3. litter \in BOOLEAN /\ LitterHasACause
    BY <2>2 DEF LitterHasACause
  <2> QED
    BY <2>1, <2>3 DEF FaultInv
<1> QED
  BY <1>1, <1>2, OwnersInitially DEF RunInv

\* Every step keeps RunInv.
LEMMA RunInductive == RunInv /\ [Next]_vars => RunInv'
<1> SUFFICES ASSUME RunInv, [Next]_vars PROVE RunInv'
  OBVIOUS
<1>1. OwnerInv' /\ WholeInv
  BY OwnersInductive DEF RunInv, OwnerInv
<1>2. HolderInv /\ FaultInv
  BY DEF RunInv
<1>3. ASSUME NEW c \in Caller, Step(c) PROVE HolderInv' /\ FaultInv'
  <2>1. HolderInv'
    BY <1>1, <1>2, <1>3, StepKeepsHolder
  <2>2. CASE Dies(c)
    <3>1. litter' \in BOOLEAN
      BY <1>2, <2>2 DEF Dies, FaultInv
    <3> QED
      BY <1>2, <2>1, <2>2, <3>1, SomebodyIsKilled DEF Dies
  <2>3. CASE WriteFails(c) \/ ChownFails(c)
    BY <1>2, <2>1, <2>3, WriteIsCounted, NobodyIsKilled DEF ChownFails
  <2>4. CASE ~(Dies(c) \/ WriteFails(c) \/ ChownFails(c))
    <3>1. NoFault /\ UNCHANGED litter
      BY <1>3, <2>4
      DEF Step, BeginMutator, MakeDirectory, HandDirectory, OpenLock, HandLock, Flock,
          FlockTimeout, Load, BeginPut, WriteTemp, HandTemp, Sync, Replace, BeginSend,
          MakeMailbox
    <3> QED
      BY <1>2, <2>1, <3>1, NobodyIsKilled DEF NoFault
  <2> QED
    BY <2>2, <2>3, <2>4
<1>4. ASSUME PowerLoss PROVE HolderInv' /\ FaultInv'
  <2>1. litter' \in BOOLEAN
    BY <1>2, <1>4 DEF PowerLoss, FaultInv
  <2>2. /\ MayFail(1) /\ deaths' = deaths + 1 /\ holder' = Nobody
        /\ UNCHANGED <<badWrites, badChowns, badUnlinks>>
    BY <1>4 DEF PowerLoss
  <2>3. HolderInv'
    BY <2>2 DEF HolderInv
  <2> QED
    BY <1>2, <2>1, <2>2, <2>3, SomebodyIsKilled
<1>5. ASSUME NEW f \in Target, DirectoryReachesDisk(f) PROVE HolderInv' /\ FaultInv'
  BY <1>2, <1>5, NobodyIsKilled DEF DirectoryReachesDisk, NoFault, HolderInv
<1>6. ASSUME UNCHANGED vars PROVE HolderInv' /\ FaultInv'
  <2>1. UNCHANGED <<deaths, litter, badWrites, badUnlinks, badChowns>>
    BY <1>6 DEF vars
  <2>2. HolderInv'
    BY <1>2, <1>6 DEF vars, HolderInv
  <2>3. FaultInv'
    BY <1>2, <2>1, NobodyIsKilled
  <2> QED
    BY <2>2, <2>3
<1> QED
  BY <1>1, <1>3, <1>4, <1>5, <1>6 DEF Next, RunInv

\* Every variable keeps its type, and whoever has the flock is a call that runs
\* under it: no death, timeout or exception leaves it to a call that is over.
THEOREM HomeTypes == Spec => []TypeOK
<1>1. RunInv => TypeOK
  BY DEF RunInv, OwnerInv, WholeInv, Counted, HolderInv, FaultInv, Locked, TypeOK
<1> QED
  BY <1>1, RunInitially, RunInductive, PTL DEF Spec

\* A temporary file stays behind only when a call was killed or an unlink failed:
\* where a write, an fsync or a rename alone fails, _save and write_memory_file
\* remove it, whatever else fails in the same run.
THEOREM LitterIsExplained == Spec => []LitterHasACause
<1>1. RunInv => LitterHasACause
  BY DEF RunInv, FaultInv
<1> QED
  BY <1>1, RunInitially, RunInductive, PTL DEF Spec

=============================================================================
