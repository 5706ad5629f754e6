---------------------------- MODULE RuntimeUpdate ----------------------------
(***************************************************************************)
(* The desktop app keeps one server's container: it launches it, rebuilds  *)
(* it, and replaces its image by a newer one, with a backup to return to.  *)
(*                                                                         *)
(*   desktop/runtime-update.ts         performUpdate and runRollback       *)
(*   desktop/runtime-orchestrator.ts   what surrounds them                 *)
(*   desktop/runtime-backup.ts         backup, restore, rotation           *)
(*   desktop/main.ts                   launch, rebuild, quit               *)
(*   desktop/docker.ts, server-runtime.ts, recreate-container.ts           *)
(*                                                                         *)
(* One server: its ports are fixed, so a host runs one. The app's state    *)
(* dies with the app; images, container, registry and volume survive it.   *)
(* A version is a number, 0 standing for none.                             *)
(***************************************************************************)
EXTENDS Integers, FiniteSets

CONSTANTS
    MaxVersion,     \* releases of the runtime
    Retention,      \* BACKUP_RETENTION
    MaxUpdates,     \* bound: updates begun
    MaxFaults,      \* bound: operations of docker or the disk that fail
    MaxCrashes      \* bound: ends of the app, by a crash or a quit

ASSUME VersionAssumption == MaxVersion \in Nat \ {0}
ASSUME BoundAssumption ==
    Retention \in Nat /\ MaxUpdates \in Nat /\ MaxFaults \in Nat
    /\ MaxCrashes \in Nat

VARIABLES
    tag,            \* the version under the tags latest and previous
    ctr,            \* the container that has the server's name, id 0 if none
    ids,            \* containers created so far
    registered,     \* record.containerId in the registry
    disk,           \* the server's volume
    kept,           \* history: data in the stashes of restores cut short
    app,            \* "up", "quitting" or "down"
    job,            \* what holds the server's lifecycle lock
    launch,         \* restoreServerContainers of this run of the app
    left,           \* what is left of the bounds
    outcome,        \* history: how the last update ended
    anchored,       \* history: it put the version it left under "previous"
    before,         \* history: the volume when its restore began
    broken,         \* history: the steps of the restore that failed
    overtaken       \* history: a launch ran a container during a restore

docker == <<tag, ctr, ids>>
history == <<outcome, anchored, before, broken, overtaken>>
updateVars == <<docker, registered, disk, kept, app, job, launch, left, history>>

\* What a data directory holds: nothing, part of a copy, files a copy and a
\* running container both wrote, what a container makes for itself, or the
\* user's data in the schema of a version.
Version == 1..MaxVersion
Missing == 0
Torn == -1
Spoiled == -2
Fresh == -3
Whole(content) == content > 0

\* A config directory stands for the backups in it; NoDir is a missing one.
NoDir == {[no |-> 0, data |-> Missing]}

NoJob == [pc |-> "idle", from |-> 0, target |-> 0, old |-> 0, new |-> 0,
          backup |-> 0, rollback |-> FALSE]

UpdateInit ==
    \E v \in Version : \E older \in 0..(v - 1) :
    /\ tag = [latest |-> v, previous |-> older]
    /\ ctr = [id |-> 1, image |-> v, running |-> TRUE] /\ ids = 1
    /\ registered = 1
    /\ disk = [data |-> v, config |-> {},
               dataStash |-> Missing, configStash |-> NoDir]
    /\ kept = {}
    /\ app = "up" /\ job = NoJob /\ launch = "done"
    /\ left = [updates |-> MaxUpdates, faults |-> MaxFaults,
               crashes |-> MaxCrashes]
    /\ outcome = "none" /\ anchored = FALSE
    /\ before = disk /\ broken = {} /\ overtaken = FALSE

----------------------------------------------------------------------------
\* Docker.

NoContainer == [id |-> 0, image |-> 0, running |-> FALSE]
Taken == ctr.id # 0

Fault == left.faults > 0 /\ left' = [left EXCEPT !.faults = @ - 1]

\* A container that starts makes the directories it mounts if they are missing,
\* and its runtime migrates the data to its own schema.
Opened(dirs, version) ==
    [dirs EXCEPT
        !.data = CASE @ = Missing -> Fresh
                   [] @ = Torn -> Spoiled
                   [] Whole(@) /\ @ < version -> version
                   [] OTHER -> @,
        !.config = IF @ = NoDir THEN {} ELSE @]

\* runContainer: a new container under the server's name.
Run(version) ==
    /\ ~Taken
    /\ ids' = ids + 1
    /\ ctr' = [id |-> ids + 1, image |-> version, running |-> TRUE]
    /\ disk' = Opened(disk, version)
    /\ UNCHANGED <<tag, left>>

\* It fails: the name is taken, nothing comes of it, or docker has made the
\* container and cannot start it.
RunFails(version) ==
    /\ UNCHANGED <<tag, disk>>
    /\ \/ Taken /\ UNCHANGED <<ctr, ids, left>>
       \/ ~Taken /\ Fault /\ UNCHANGED <<ctr, ids>>
       \/ /\ ~Taken /\ Fault
          /\ ids' = ids + 1
          /\ ctr' = [id |-> ids + 1, image |-> version, running |-> FALSE]

\* removeIfExists: "docker rm -f", of whose failure nobody hears.
RemoveIfExists(id) ==
    /\ \/ ctr' = (IF ctr.id = id THEN NoContainer ELSE ctr) /\ UNCHANGED left
       \/ ctr.id = id /\ Fault /\ UNCHANGED ctr
    /\ UNCHANGED <<tag, ids, disk>>

----------------------------------------------------------------------------
\* performUpdate, up to the point where the new version runs.

Goto(pc) == job' = [job EXCEPT !.pc = pc]

\* What an update that ends leaves in stashes stays there under their names.
InStashes ==
    {c \in {disk.dataStash} \cup {b.data : b \in disk.configStash} : Whole(c)}

Swept(dirs) == [dirs EXCEPT !.dataStash = Missing, !.configStash = NoDir]

End(how) == job' = NoJob /\ outcome' = how

\* performUpdateForServer reads the running version from the runtime itself,
\* and the registry once.
Begin(target, withBackup) ==
    /\ app = "up" /\ job = NoJob /\ left.updates > 0
    /\ ctr.running /\ target > ctr.image
    /\ job' = [NoJob EXCEPT !.pc = IF withBackup THEN "backup" ELSE "pull",
                            !.from = ctr.image, !.target = target,
                            !.old = registered]
    /\ left' = [left EXCEPT !.updates = @ - 1]
    /\ outcome' = "none" /\ anchored' = FALSE
    /\ UNCHANGED <<docker, registered, disk, kept, app, launch, before, broken,
                   overtaken>>

\* createPreUpdateBackup renames the copy to its name when it is complete, so
\* one cut short leaves nothing that counts.
Backup ==
    LET no == MaxUpdates - left.updates IN
    /\ job.pc = "backup"
    /\ \/ /\ disk' = [disk EXCEPT !.config = @ \cup
                                  {[no |-> no, data |-> disk.data]}]
          /\ job' = [job EXCEPT !.pc = "pull", !.backup = no]
          /\ UNCHANGED <<left, outcome>>
       \/ Fault /\ End("failed") /\ UNCHANGED disk
    /\ UNCHANGED <<docker, registered, kept, app, launch, anchored, before,
                   broken, overtaken>>

\* pullAndVerify: the target image is local afterwards.
Pull ==
    /\ job.pc = "pull"
    /\ \/ Goto("gate") /\ UNCHANGED <<left, outcome>>
       \/ Fault /\ End("failed")
    /\ UNCHANGED <<docker, registered, disk, kept, app, launch, anchored,
                   before, broken, overtaken>>

\* confirmRestartForServer.
Confirm ==
    /\ app = "up" /\ job.pc = "gate"
    /\ Goto("stop")
    /\ UNCHANGED <<docker, registered, disk, kept, app, launch, left, history>>

\* stopContainer rejects when docker has no container of that id, too.
Stop ==
    /\ job.pc = "stop"
    /\ \/ /\ ctr.id = job.old
          /\ ctr' = [ctr EXCEPT !.running = FALSE]
          /\ Goto("anchor") /\ UNCHANGED left
       \/ /\ ctr.id # job.old /\ UNCHANGED <<ctr, left>>
          /\ Goto("tearDown")
       \/ Fault /\ Goto("tearDown") /\ UNCHANGED ctr
    /\ UNCHANGED <<tag, ids, registered, disk, kept, app, launch, history>>

\* Mutant: the tags are moved in the wrong order.
AnchorAfterSwap ==
    /\ job.pc = "anchor"
    /\ tag' = [tag EXCEPT !.previous = job.target]
    /\ anchored' = (tag.latest = job.from)
    /\ Goto("swap")
    /\ UNCHANGED <<ctr, ids, registered, disk, kept, app, launch, left, outcome,
                   before, broken, overtaken>>

\* :latest becomes :previous. imageExists says no when it cannot ask, and then
\* the step is left out.
Anchor ==
    /\ job.pc = "anchor"
    /\ \/ /\ tag' = [tag EXCEPT !.previous = tag.latest]
          /\ anchored' = (tag.latest = job.from)
          /\ Goto("swap") /\ UNCHANGED left
       \/ /\ Fault /\ UNCHANGED <<tag, anchored>>
          /\ Goto("swap") \/ Goto("tearDown")
    /\ UNCHANGED <<ctr, ids, registered, disk, kept, app, launch, outcome,
                   before, broken, overtaken>>

Swap ==
    /\ job.pc = "swap"
    /\ \/ /\ tag' = [tag EXCEPT !.latest = job.target]
          /\ Goto("clear") /\ UNCHANGED left
       \/ Fault /\ Goto("tearDown") /\ UNCHANGED tag
    /\ UNCHANGED <<ctr, ids, registered, disk, kept, app, launch, history>>

\* recreateContainerForServer is two steps, here and in the rollback.
Clear ==
    /\ job.pc \in {"clear", "reclear"}
    /\ RemoveIfExists(job.old)
    /\ Goto(IF job.pc = "clear" THEN "run" ELSE "rerun")
    /\ UNCHANGED <<registered, kept, app, launch, history>>

Recreate ==
    /\ job.pc \in {"run", "rerun"}
    /\ \/ /\ Run(tag.latest)
          /\ job' = [job EXCEPT !.pc = IF @ = "run" THEN "poll" ELSE "repoll",
                                !.new = ids + 1]
       \/ /\ RunFails(tag.latest)
          /\ job' = [job EXCEPT !.pc = IF @ = "run" THEN "tearDown"
                                                    ELSE "failed"]
    /\ UNCHANGED <<registered, kept, app, launch, history>>

\* pollUntilReady asks whatever answers at the server's port.
Poll ==
    /\ job.pc \in {"poll", "repoll"}
    /\ \/ /\ ctr.running /\ UNCHANGED left
          /\ Goto(IF job.pc = "poll" THEN "rotate" ELSE "register")
       \/ /\ IF ctr.running THEN Fault ELSE UNCHANGED left
          /\ Goto(IF job.pc = "poll" THEN "tearDown" ELSE "failed")
    /\ UNCHANGED <<docker, registered, disk, kept, app, launch, history>>

\* rotateBackups keeps the newest; what it cannot remove it leaves.
Rotate ==
    LET newer(b) == {c \in disk.config : c.no > b.no}
        stale == {b \in disk.config : Cardinality(newer(b)) >= Retention}
    IN
    /\ job.pc = "rotate"
    /\ \/ disk' = [disk EXCEPT !.config = @ \ stale] /\ UNCHANGED left
       \/ stale # {} /\ Fault /\ UNCHANGED disk
    /\ Goto("register")
    /\ UNCHANGED <<docker, registered, kept, app, launch, history>>

\* The container of either outcome goes into the registry.
Register ==
    /\ job.pc = "register"
    /\ registered' = job.new
    /\ End(IF job.rollback THEN "rolledBack" ELSE "committed")
    /\ UNCHANGED <<docker, disk, kept, app, launch, left, anchored, before,
                   broken, overtaken>>

----------------------------------------------------------------------------
\* runRollback.

\* The new container, if one was made, is stopped and removed as well as may be.
TearDown ==
    /\ job.pc = "tearDown"
    /\ \/ job.new = 0 /\ UNCHANGED <<docker, disk, left>>
       \/ job.new # 0 /\ RemoveIfExists(job.new)
       \/ /\ job.new # 0 /\ ctr.id = job.new /\ Fault
          /\ ctr' = [ctr EXCEPT !.running = FALSE]
          /\ UNCHANGED <<tag, ids, disk>>
    /\ job' = [job EXCEPT !.pc = "retag", !.rollback = TRUE]
    /\ UNCHANGED <<registered, kept, app, launch, history>>

\* Steps of a restore at which a failure makes the catch block remove what is
\* not in a stash: the first one and, once the stashes are being dropped, the
\* last two.
Unsafe == {"stashData", "dropData", "dropConfig"}

\* Steps during which the stashes hold the whole volume.
Stashed == {"beginData", "copyData", "copyConfig", "moveBackups"}

\* :previous becomes :latest, and the restore begins if the backup is there.
Retag ==
    LET there == \E b \in disk.config : b.no = job.backup IN
    /\ job.pc = "retag"
    /\ \/ /\ tag.previous # 0
          /\ tag' = [tag EXCEPT !.latest = tag.previous]
          /\ Goto(CASE job.backup = 0 -> "reclear"
                    [] job.backup # 0 /\ there -> "stashData"
                    [] OTHER -> "failed")
          /\ UNCHANGED left
       \/ tag.previous = 0 /\ Goto("failed") /\ UNCHANGED <<tag, left>>
       \/ tag.previous # 0 /\ Fault /\ Goto("failed") /\ UNCHANGED tag
    /\ before' = disk /\ broken' = broken \cap Unsafe
    /\ UNCHANGED <<ctr, ids, registered, disk, kept, app, launch, outcome,
                   anchored, overtaken>>

\* The steps of restorePreUpdateBackup, each with its successor, and those of
\* its catch block.
RestoreStep ==
    [stashData   |-> "stashConfig", stashConfig |-> "beginData",
     beginData   |-> "copyData",    copyData    |-> "copyConfig",
     copyConfig  |-> "moveBackups", moveBackups |-> "dropData",
     dropData    |-> "dropConfig",  dropConfig  |-> "reclear"]

\* Mutant: the catch block forgets the data directory.
UndoStepForgetful ==
    [clearData     |-> "clearConfig",   clearConfig |-> "unstashConfig",
     unstashData   |-> "unstashConfig", unstashConfig |-> "failed"]

UndoStep ==
    [clearData     |-> "clearConfig",   clearConfig |-> "unstashData",
     unstashData   |-> "unstashConfig", unstashConfig |-> "failed"]

Restoring == job.pc \in DOMAIN RestoreStep \cup DOMAIN UndoStep

Snapshot == CHOOSE b \in disk.configStash : b.no = job.backup

\* The volume after a step that succeeds.
After(step) ==
    CASE step = "stashData" ->
           [disk EXCEPT !.dataStash = disk.data, !.data = Missing]
      [] step = "stashConfig" ->
           [disk EXCEPT !.configStash = disk.config, !.config = NoDir]
      [] step = "beginData" ->
           [disk EXCEPT !.data = IF @ = Missing THEN Torn ELSE Spoiled]
      [] step = "copyData" ->
           [disk EXCEPT !.data = IF @ = Torn THEN Snapshot.data ELSE Spoiled]
      [] step = "copyConfig" ->
           [disk EXCEPT !.config = IF @ = NoDir THEN {} ELSE @]
      [] step = "moveBackups" ->
           [disk EXCEPT !.config = disk.configStash, !.configStash = {}]
      [] step \in {"dropData", "dropConfig"} ->
           IF step = "dropData" THEN [disk EXCEPT !.dataStash = Missing]
                                ELSE [disk EXCEPT !.configStash = NoDir]
      [] step = "clearData" -> [disk EXCEPT !.data = Missing]
      [] step = "clearConfig" -> [disk EXCEPT !.config = NoDir]
      [] step = "unstashData" ->
           IF disk.dataStash = Missing THEN disk
           ELSE [disk EXCEPT !.data = disk.dataStash, !.dataStash = Missing]
      [] step = "unstashConfig" ->
           IF disk.configStash = NoDir THEN disk
           ELSE [disk EXCEPT !.config = disk.configStash, !.configStash = NoDir]

\* The volume after one that fails: a removal has taken part of a directory.
Broken(step) ==
    CASE step = "beginData" ->
           [disk EXCEPT !.data = IF @ = Missing THEN Torn ELSE Spoiled]
      [] step = "dropData" -> [disk EXCEPT !.dataStash = Torn]
      [] step = "clearData" -> [disk EXCEPT !.data = Torn]
      [] step = "clearConfig" -> [disk EXCEPT !.config = {}]
      [] step = "dropConfig" -> [disk EXCEPT !.configStash = {}]
      [] OTHER -> disk

\* There is nothing to rename or to remove.
Absent(step) ==
    \/ step \in {"stashData", "clearData"} /\ disk.data = Missing
    \/ step \in {"stashConfig", "clearConfig"} /\ disk.config = NoDir
    \/ step = "unstashData" /\ disk.dataStash = Missing
    \/ step = "unstashConfig" /\ disk.configStash = NoDir

\* A directory is not renamed to one that a container has made meanwhile.
Blocked(step) ==
    \/ step = "unstashData" /\ disk.dataStash # Missing /\ disk.data # Missing
    \/ step = "unstashConfig" /\ disk.configStash # NoDir /\ disk.config # NoDir

\* Mutant: the stashes are dropped in a "finally" instead of put back.
RestoreFinally ==
    LET step == job.pc IN
    /\ step \in DOMAIN RestoreStep
    /\ \/ /\ disk' = After(step) /\ Goto(RestoreStep[step])
          /\ UNCHANGED <<left, broken>>
       \/ /\ ~Absent(step) /\ Fault
          /\ disk' = Broken(step) /\ Goto("dropData")
          /\ broken' = broken \cup {step}
    /\ UNCHANGED <<docker, registered, kept, app, launch, outcome, anchored,
                   before, overtaken>>

\* A step of the restore; any failure leads to the catch block.
Restore ==
    LET step == job.pc IN
    /\ step \in DOMAIN RestoreStep
    /\ \/ /\ disk' = After(step) /\ Goto(RestoreStep[step])
          /\ UNCHANGED <<left, broken>>
       \/ /\ ~Absent(step) /\ Fault
          /\ disk' = Broken(step) /\ Goto("clearData")
          /\ broken' = broken \cup {step}
    /\ UNCHANGED <<docker, registered, kept, app, launch, outcome, anchored,
                   before, overtaken>>

\* A step of the catch block; a failure in it is swallowed and ends it.
Undo ==
    LET step == job.pc IN
    /\ step \in DOMAIN UndoStep
    /\ \/ /\ ~Blocked(step)
          /\ disk' = After(step) /\ Goto(UndoStep[step])
          /\ UNCHANGED <<left, broken>>
       \/ /\ Blocked(step)
          /\ Goto("failed") /\ UNCHANGED <<disk, left, broken>>
       \/ /\ ~Absent(step) /\ Fault
          /\ disk' = Broken(step) /\ Goto("failed")
          /\ broken' = broken \cup {step}
    /\ UNCHANGED <<docker, registered, kept, app, launch, outcome, anchored,
                   before, overtaken>>

RollbackFails ==
    /\ job.pc = "failed"
    /\ End("rollbackFailed")
    /\ disk' = Swept(disk) /\ kept' = kept \cup InStashes
    /\ UNCHANGED <<docker, registered, app, launch, left, anchored, before,
                   broken, overtaken>>

----------------------------------------------------------------------------
\* The other flows that recreate the container.

\* VOICE_SET_HOSTNAME, under the lock.
BeginRebuild ==
    /\ app = "up" /\ job = NoJob /\ left.updates > 0
    /\ job' = [NoJob EXCEPT !.pc = "rebuild", !.old = registered]
    /\ left' = [left EXCEPT !.updates = @ - 1]
    /\ UNCHANGED <<docker, registered, disk, kept, app, launch, history>>

RebuildClears ==
    /\ job.pc = "rebuild"
    /\ RemoveIfExists(job.old)
    /\ Goto("rebuildRun")
    /\ UNCHANGED <<registered, kept, app, launch, history>>

RebuildRuns ==
    /\ job.pc = "rebuildRun"
    /\ \/ Run(tag.latest) /\ registered' = ids + 1
       \/ RunFails(tag.latest) /\ UNCHANGED registered
    /\ job' = NoJob
    /\ UNCHANGED <<kept, app, launch, history>>

\* restoreServerContainers, which takes no lock: it runs when the check with
\* Central is done, with the window open.
LaunchClears ==
    /\ app # "down" /\ launch = "pending"
    /\ RemoveIfExists(registered)
    /\ launch' = "run"
    /\ UNCHANGED <<registered, kept, app, job, history>>

LaunchRuns ==
    /\ app # "down" /\ launch = "run"
    /\ \/ Run(tag.latest) /\ registered' = ids + 1
       \/ RunFails(tag.latest) /\ UNCHANGED registered
    /\ launch' = "done"
    /\ overtaken' = (overtaken \/ (ids' # ids /\ Restoring))
    /\ UNCHANGED <<kept, app, job, outcome, anchored, before, broken>>

----------------------------------------------------------------------------
\* The app.

Start ==
    /\ app = "down"
    /\ app' = "up" /\ launch' = "pending"
    /\ UNCHANGED <<docker, registered, disk, kept, job, left, history>>

\* The app's end ends what it was doing.
Exits ==
    /\ app' = "down" /\ job' = NoJob /\ launch' = "done"
    /\ disk' = Swept(disk) /\ kept' = kept \cup InStashes

Crash ==
    /\ app # "down" /\ left.crashes > 0
    /\ left' = [left EXCEPT !.crashes = @ - 1]
    /\ Exits
    /\ UNCHANGED <<docker, registered, history>>

\* before-quit: cancelPendingRestarts, and then the containers are stopped ...
Quit ==
    /\ app = "up" /\ left.crashes > 0
    /\ app' = "quitting"
    /\ left' = [left EXCEPT !.crashes = @ - 1]
    /\ IF job.pc = "gate" THEN End("failed") ELSE UNCHANGED <<job, outcome>>
    /\ UNCHANGED <<docker, registered, disk, kept, launch, anchored, before,
                   broken, overtaken>>

\* ... those the registry knows of, while everything else goes on.
QuitStops ==
    /\ app = "quitting"
    /\ \/ /\ ctr' = [ctr EXCEPT !.running = @ /\ ctr.id # registered]
          /\ UNCHANGED left
       \/ ctr.id = registered /\ Fault /\ UNCHANGED ctr
    /\ Exits
    /\ UNCHANGED <<tag, ids, registered, history>>

----------------------------------------------------------------------------
UpdateStep ==
    \/ Backup \/ Pull \/ Stop \/ Anchor \/ Swap \/ Clear \/ Recreate \/ Poll
    \/ Rotate \/ Register
    \/ TearDown \/ Retag \/ Restore \/ Undo \/ RollbackFails

UpdateNext ==
    \/ \E v \in Version, b \in BOOLEAN : Begin(v, b)
    \/ Confirm \/ UpdateStep
    \/ BeginRebuild \/ RebuildClears \/ RebuildRuns
    \/ LaunchClears \/ LaunchRuns
    \/ Start \/ Crash \/ Quit \/ QuitStops

UpdateSpec == UpdateInit /\ [][UpdateNext]_updateVars

----------------------------------------------------------------------------
\* Properties.

\* Whenever the app dies and whatever fails in an update but the three Unsafe
\* steps of a restore, a whole copy of the user's data is left somewhere: in use,
\* in a backup or in a restore's stash. A launch that runs a container on a
\* volume under restore may end that, too.
DataSurvives ==
    \/ overtaken \/ broken \cap Unsafe # {}
    \/ \E content \in {disk.data, disk.dataStash} \cup kept
                      \cup {b.data : b \in disk.config \cup disk.configStash} :
           Whole(content)

\* An update reported as committed runs the target. One reported as rolled
\* back, which had put the version it left under "previous", runs that version,
\* on the data of its backup if it made one.
OutcomeIsTrue ==
    job.pc = "register" =>
        /\ ctr.id = job.new
        /\ ~job.rollback => ctr.image = job.target
        /\ job.rollback /\ anchored => ctr.image = job.from
        /\ job.rollback /\ job.backup # 0 /\ ~overtaken =>
               \E b \in disk.config :
                   /\ b.no = job.backup
                   /\ disk.data = Opened([disk EXCEPT !.data = b.data],
                                         ctr.image).data

\* A restore that fails when the stashes hold the whole volume, and whose catch
\* block does not fail in its turn, leaves the volume as it found it.
UndoneIfStashed ==
    [][ Restoring /\ job'.pc = "failed" /\ ~overtaken /\ broken' \subseteq Stashed =>
            /\ disk'.data = before.data
            /\ disk'.config = before.config ]_updateVars

\* "On failure we put the stash back" (runtime-backup.ts): a restore that fails
\* leaves the volume as it found it. Not kept by the code: see the README.
FailedRestoreIsUndone ==
    [][ Restoring /\ job'.pc = "failed" /\ ~overtaken =>
            /\ disk'.data = before.data
            /\ disk'.config = before.config ]_updateVars

\* A rollback that says it succeeded has the prior version running.
\* Not kept by the code: see the README.
RolledBackIsPrior ==
    job.pc = "register" /\ job.rollback => ctr.image = job.from

\* A launch finds no container in its way that the registry does not know.
\* Not kept by the code: see the README.
LaunchKnowsTheContainer ==
    launch = "run" /\ Taken => ctr.id = registered
=============================================================================
