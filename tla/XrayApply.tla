------------------------------ MODULE XrayApply ------------------------------
(***************************************************************************)
(* How a change of the port inventory reaches the data plane:              *)
(* app/xray/apply.py, with the other writers of the same runtime files     *)
(* (the AI routing manager's routing cycle, the backup mode maintenance,   *)
(* the startup rewrite) and the external reloader.                         *)
(*                                                                         *)
(* Every writer holds the file lock .ai-domain-manager.lock while it       *)
(* works, so one program counter serves them all; between two steps the    *)
(* clock moves, AI nodes go up and down, the watcher reloads and a process *)
(* may die.  A configuration is the set of ports it serves and the routing *)
(* fragment it embeds; everything else it contains is abstracted.          *)
(***************************************************************************)
EXTENDS Naturals, FiniteSets

CONSTANTS
    Ports,          \* port rows of the inventory
    Sold,           \* those tied to a customer or subscription (kept when expired)
    Remote,         \* the data plane is managed over SSH: files are uploaded
    External,       \* DATAPLANE_EXTERNAL_RELOADER_ENABLED
    Backup,         \* CONTROL_PLANE_BACKUP_XRAY_ENABLED, relaying through an AI node
    MaxFaults,      \* bound: external calls that fail
    MaxCrashes,     \* bound: deaths of the panel or of the manager
    MaxLapses,      \* bound: ports whose expiry passes
    MaxFlips        \* bound: changes of the AI nodes' reachability

ASSUME ModesAssumption ==
    /\ Sold \subseteq Ports
    /\ {Remote, External, Backup} \subseteq BOOLEAN
ASSUME BoundsAssumption == {MaxFaults, MaxCrashes, MaxLapses, MaxFlips} \subseteq Nat

VARIABLES
    db,             \* enabled ports in panel.db, as committed
    lapsed,         \* ports whose expires_at has passed
    files,          \* panel-ports.json, config.json and config-backup.json
    fragment,       \* dynamic-routing.json: is there an AI routing fragment
    node,           \* config.json on the SSH node
    running,        \* the configuration the data plane process has loaded
    backup,         \* the configuration the backup process has loaded
    marker,         \* config.json.pending-apply exists
    aiUp,           \* some AI node answers
    life,           \* where the panel process is in its life
    lastMode,       \* _last_backup_mode, in the panel's memory
    pc,             \* the next step of whoever holds the file lock
    job,            \* that holder's local variables
    doubt,          \* why a process may not run its file: "plane" and "backup" if its
                    \* reload or rollback was reported as failed, "died" and "missed"
                    \* for what a death cut off and nothing reports
    faults, crashes, flips

panel == <<db, life, lastMode>>
disk == <<files, fragment, marker>>
processes == <<node, running, backup>>
world == <<lapsed, aiUp, flips>>
vars == <<panel, disk, processes, world, pc, job, doubt, faults, crashes>>

Config == [ports : SUBSET Ports, routed : BOOLEAN]
BackupConfig == [ports : SUBSET Ports, relay : BOOLEAN]
Files == [inventory : SUBSET Ports, config : Config, backup : BackupConfig]
Modes == {"unset", "relay", "direct"}

Job == [tx : SUBSET Ports, saved : Files, reload : BOOLEAN, changed : BOOLEAN,
        backupTried : BOOLEAN, planeTried : BOOLEAN, mode : Modes]

PanelSteps == {"snapshot", "render", "test", "backup", "restart", "settle", "commit",
               "undo", "undoBackup", "undoPlane",
               "modeRestart", "bootTest", "bootRestart"}
ManagerSteps == {"manage", "managerSync", "managerRestart"}

\* What a restart of the data plane loads.
Target == IF Remote THEN node ELSE files.config
TargetAfter == IF Remote THEN node' ELSE files'.config

\* resolve_backup_upstream_url: relay through an AI node that answers.
Mode == IF aiUp THEN "relay" ELSE "direct"

-----------------------------------------------------------------------------
Init ==
    /\ db = {} /\ lapsed = {}
    /\ files = [inventory |-> {}, config |-> [ports |-> {}, routed |-> FALSE],
                backup |-> [ports |-> {}, relay |-> TRUE]]
    /\ fragment = FALSE /\ marker = FALSE
    /\ node = files.config /\ running = files.config /\ backup = files.backup
    /\ aiUp = TRUE
    /\ life = "up" /\ lastMode = "unset" /\ pc = "free"
    /\ job = [tx |-> {}, saved |-> files, reload |-> FALSE, changed |-> FALSE,
              backupTried |-> FALSE, planeTried |-> FALSE, mode |-> "unset"]
    /\ doubt = {} /\ faults = 0 /\ crashes = 0 /\ flips = 0

-----------------------------------------------------------------------------
(* Outcomes of external calls.  A command that fails or times out may have  *)
(* taken effect before it did.                                              *)

Fault == faults < MaxFaults /\ faults' = faults + 1
NoFault == UNCHANGED faults

\* render_xray_config: config.json first, then config-backup.json.
Rendered == [ports |-> files.inventory, routed |-> fragment]
RenderedBackup == [ports |-> files.inventory, relay |-> aiUp]
WithRendered ==
    [files EXCEPT !.config = Rendered,
                  !.backup = IF Backup THEN RenderedBackup ELSE @]
PartlyRendered == {files, [files EXCEPT !.config = Rendered]}

\* A process either still runs what it ran or has loaded the new file.
EitherLoaded(process, new) == process' \in {process, new}

\* The panel has seen the data plane load the file.
PlaneLoaded == doubt' = doubt \ {"plane", "died", "missed"}

\* A start of the panel reloads for an upload that changes the node's file, so
\* never a local node, and not where it died itself between the two.
PanelDied == doubt' = doubt \cup {"died"} \cup
    (IF Remote /\ pc # "bootRestart" THEN {} ELSE {"missed"})

\* Nor does a start reload for what the manager uploaded before it.
ManagerGivesUp == doubt' = IF life = "up" THEN doubt ELSE doubt \cup {"missed"}

-----------------------------------------------------------------------------
(* The apply transaction.                                                   *)

\* A failed statement of the try block: on to the except block.
Abort == pc' = "undo"

Begin(tx, reload) ==
    /\ pc = "free"
    /\ job' = [job EXCEPT !.tx = tx \ lapsed, !.reload = reload, !.changed = FALSE,
                          !.backupTried = FALSE, !.planeTried = FALSE]
    /\ pc' = "snapshot"
    /\ UNCHANGED <<panel, disk, processes, world, doubt, faults, crashes>>

\* apply_mutation: create, delete, enable or disable a port, or change only
\* what the inventory does not show.  A port is not enabled past its expiry.
ApplyMutation ==
    /\ life = "up"
    /\ \/ Begin(db, TRUE)
       \/ \E p \in Ports \ (db \cup lapsed) : Begin(db \cup {p}, TRUE)
       \/ \E p \in db : Begin(db \ {p}, TRUE)

\* disable_auto_stopped_ports(reload_xray=True) by the maintenance worker or a page.
DisableAutoStopped ==
    /\ life = "up"
    /\ db \cap lapsed # {}
    /\ Begin(db, TRUE)

\* Save the previous files, write panel-ports.json.  The payload is filtered
\* by a clock read after the one that chose the ports to switch off.
Snapshot ==
    /\ pc = "snapshot"
    /\ job' = [job EXCEPT !.saved = files]
    /\ files' = [files EXCEPT !.inventory = job.tx \ lapsed]
    /\ pc' = "render"
    /\ UNCHANGED <<panel, fragment, marker, processes, world, doubt, faults, crashes>>

Render ==
    /\ pc = "render"
    /\ \/ NoFault /\ files' = WithRendered /\ pc' = "test"
       \/ Fault /\ files' \in PartlyRendered /\ Abort
    /\ UNCHANGED <<panel, fragment, marker, processes, world, job, doubt, crashes>>

ConfigChanged ==
    \/ job.saved.config # files.config
    \/ job.saved.inventory # files.inventory
    \/ Remote /\ node # files.config

BackupChanged == Backup /\ job.saved.backup # files.backup
\* Seeded fault: the data plane is restarted only when ports were added.
RestartOnGrowth(changed) ==
    job.reload /\ changed /\ ~External /\ ~(job.tx \subseteq job.saved.inventory)
RestartNeeded(changed) == job.reload /\ changed /\ ~External

AfterBackup(changed) == IF RestartNeeded(changed) THEN "restart" ELSE "settle"

\* xray_config_test, which uploads to an SSH node, then the pending marker.
Test ==
    /\ pc = "test"
    /\ \/ /\ NoFault
          /\ node' = IF Remote THEN files.config ELSE node
          /\ job' = [job EXCEPT !.changed = ConfigChanged]
          /\ marker' = (marker \/ (job.reload /\ ConfigChanged /\ External))
          /\ pc' = IF BackupChanged THEN "backup" ELSE AfterBackup(ConfigChanged)
       \/ /\ Fault
          /\ IF Remote THEN EitherLoaded(node, files.config) ELSE UNCHANGED node
          /\ Abort
          /\ UNCHANGED <<job, marker>>
    /\ UNCHANGED <<panel, files, fragment, running, backup, world, doubt, crashes>>

RestartBackup ==
    /\ pc = "backup"
    /\ job' = [job EXCEPT !.backupTried = TRUE]
    /\ \/ /\ NoFault
          /\ backup' = files.backup
          /\ doubt' = doubt \ {"backup"}
          /\ pc' = AfterBackup(job.changed)
       \/ /\ Fault
          /\ EitherLoaded(backup, files.backup)
          /\ Abort
          /\ UNCHANGED doubt
    /\ UNCHANGED <<panel, disk, node, running, world, crashes>>

RestartDataPlane ==
    /\ pc = "restart"
    /\ job' = [job EXCEPT !.planeTried = TRUE]
    /\ \/ /\ NoFault
          /\ running' = Target
          /\ PlaneLoaded
          /\ pc' = "settle"
       \/ /\ Fault
          /\ EitherLoaded(running, Target)
          /\ Abort
          /\ UNCHANGED doubt
    /\ UNCHANGED <<panel, disk, node, backup, world, crashes>>

\* Seeded fault: the marker is removed whoever restarts the data plane.
SettleClearingMarker ==
    /\ pc = "settle"
    /\ \/ NoFault /\ marker' = FALSE /\ pc' = "commit"
       \/ ~External /\ Fault /\ Abort /\ UNCHANGED marker
    /\ UNCHANGED <<panel, files, fragment, processes, world, job, doubt, crashes>>
\* Account limits (whose failure is fatal only in direct mode), then in
\* direct mode the pending marker goes.
Settle ==
    /\ pc = "settle"
    /\ \/ NoFault /\ marker' = (marker /\ External) /\ pc' = "commit"
       \/ ~External /\ Fault /\ Abort /\ UNCHANGED marker
    /\ UNCHANGED <<panel, files, fragment, processes, world, job, doubt, crashes>>

\* disable_auto_stopped_ports(reload_xray=False) is a step of the startup.
Finished == IF life = "disable" THEN "write" ELSE life

Commit ==
    /\ pc = "commit"
    /\ \/ NoFault /\ db' = job.tx /\ life' = Finished /\ pc' = "free"
       \/ Fault /\ Abort /\ UNCHANGED <<db, life>>
    /\ UNCHANGED <<lastMode, disk, processes, world, job, doubt, crashes>>

\* Seeded fault: panel-ports.json keeps the rejected inventory.
UndoFilesKeepingInventory ==
    /\ pc = "undo"
    /\ files' = [job.saved EXCEPT !.inventory = files.inventory]
    /\ pc' = IF job.backupTried THEN "undoBackup" ELSE "undoPlane"
    /\ UNCHANGED <<panel, fragment, marker, processes, world, job, doubt, faults, crashes>>
\* The except block: roll back and put the previous files in place, ...
UndoFiles ==
    /\ pc = "undo"
    /\ files' = job.saved
    /\ pc' = IF job.backupTried THEN "undoBackup" ELSE "undoPlane"
    /\ UNCHANGED <<panel, fragment, marker, processes, world, job, doubt, faults, crashes>>

\* Seeded fault: the backup is left as it is.
UndoBackupSkipped ==
    /\ pc = "undoBackup"
    /\ pc' = "undoPlane"
    /\ UNCHANGED <<panel, disk, processes, world, job, doubt, faults, crashes>>
\* ... have the backup load its previous file again, ...
UndoBackup ==
    /\ pc = "undoBackup"
    /\ \/ NoFault /\ backup' = files.backup /\ doubt' = doubt \ {"backup"}
       \/ /\ Fault
          /\ EitherLoaded(backup, files.backup)
          /\ doubt' = doubt \cup {"backup"}
    /\ pc' = "undoPlane"
    /\ UNCHANGED <<panel, disk, node, running, world, job, crashes>>

\* ... upload again, and restart the data plane if the apply tried to.
\* During the startup the error that is raised again ends the process.
UndoPlane ==
    /\ pc = "undoPlane"
    /\ UNCHANGED <<db, lastMode, disk, backup, world, job, crashes>>
    /\ \/ /\ NoFault
          /\ node' = IF Remote THEN files.config ELSE node
          /\ running' = IF job.planeTried THEN TargetAfter ELSE running
          /\ IF job.planeTried THEN PlaneLoaded ELSE UNCHANGED doubt
       \/ /\ Remote
          /\ Fault
          /\ EitherLoaded(node, files.config)
          /\ doubt' = doubt \cup {"plane"}
          /\ UNCHANGED running
       \/ /\ job.planeTried
          /\ Fault
          /\ node' = IF Remote THEN files.config ELSE node
          /\ EitherLoaded(running, TargetAfter)
          /\ doubt' = doubt \cup {"plane"}
    /\ life' = IF life = "disable" THEN "down" ELSE life
    /\ pc' = "free"

ApplyStep ==
    \/ Snapshot \/ Render \/ Test \/ RestartBackup \/ RestartDataPlane
    \/ Settle \/ Commit \/ UndoFiles \/ UndoBackup \/ UndoPlane

-----------------------------------------------------------------------------
(* sync_backup_xray_mode: the maintenance worker re-renders and restarts    *)
(* the backup when the mode differs from the one it applied last.           *)

SyncBackupMode ==
    /\ life = "up" /\ pc = "free" /\ Backup /\ lastMode # Mode
    /\ job' = [job EXCEPT !.mode = Mode]
    /\ \/ NoFault /\ files' = WithRendered /\ pc' = "modeRestart"
       \/ Fault /\ files' \in PartlyRendered /\ UNCHANGED pc
    /\ UNCHANGED <<panel, fragment, marker, processes, world, doubt, crashes>>

\* Seeded fault: the panel remembers what it probed, not the mode it applied.
RestartBackupRecordingProbe ==
    /\ pc = "modeRestart"
    /\ NoFault
    /\ backup' = files.backup
    /\ lastMode' = IF aiUp THEN "reachable" ELSE "unreachable"
    /\ pc' = "free"
    /\ UNCHANGED <<db, life, disk, node, running, world, job, doubt, crashes>>
RestartBackupMode ==
    /\ pc = "modeRestart"
    /\ \/ /\ NoFault
          /\ backup' = files.backup
          /\ lastMode' = job.mode
          /\ doubt' = doubt \ {"backup"}
       \/ /\ Fault
          /\ EitherLoaded(backup, files.backup)
          /\ doubt' = doubt \cup {"backup"}
          /\ UNCHANGED lastMode
    /\ pc' = "free"
    /\ UNCHANGED <<db, life, disk, node, running, world, job, crashes>>

-----------------------------------------------------------------------------
(* Startup.  ApplicationLifecycle.bootstrap: clean up expired ports, switch *)
(* off the sold ones without a reload, rewrite the configuration.           *)

BootCleanUp ==
    /\ life = "down"
    /\ db' = db \ (lapsed \ Sold)
    /\ life' = "disable" /\ lastMode' = "unset"
    /\ UNCHANGED <<disk, processes, world, pc, job, doubt, faults, crashes>>

\* A busy lock is not an error here: the ports are left for the next cycle.
BootNothingToDisable ==
    /\ life = "disable"
    /\ pc \in ManagerSteps \/ (pc = "free" /\ db \cap lapsed = {})
    /\ life' = "write"
    /\ UNCHANGED <<db, lastMode, disk, processes, world, pc, job, doubt, faults, crashes>>

BootDisable ==
    /\ life = "disable"
    /\ db \cap lapsed # {}
    /\ Begin(db, FALSE)

\* A busy lock ends the startup with an error.
BootLockBusy ==
    /\ life = "write" /\ pc \in ManagerSteps
    /\ life' = "down"
    /\ UNCHANGED <<db, lastMode, disk, processes, world, pc, job, doubt, faults, crashes>>

BootRender ==
    /\ life = "write" /\ pc = "free"
    /\ LET inventory == db \ lapsed
           config == [ports |-> inventory, routed |-> fragment]
           written == [files EXCEPT !.inventory = inventory]
       IN  \/ /\ NoFault
              /\ files' = [written EXCEPT
                     !.config = config,
                     !.backup = IF Backup THEN [ports |-> inventory, relay |-> aiUp] ELSE @]
              /\ pc' = "bootTest"
              /\ UNCHANGED life
           \/ /\ Fault
              /\ files' \in {written, [written EXCEPT !.config = config]}
              /\ life' = "down"
              /\ UNCHANGED pc
    /\ UNCHANGED <<db, lastMode, fragment, marker, processes, world, job, doubt, crashes>>

\* Seeded fault: what changed on the node is not looked at.
BootTestNeverReloading ==
    /\ pc = "bootTest"
    /\ NoFault
    /\ node' = IF Remote THEN files.config ELSE node
    /\ pc' = "free" /\ life' = "up"
    /\ UNCHANGED <<db, lastMode, disk, running, backup, world, job, doubt, crashes>>
\* An SSH node that cannot be reached does not stop the panel from starting.
\* Only an upload that changed the node's file leads to a restart.
BootTest ==
    /\ pc = "bootTest"
    /\ \/ /\ NoFault
          /\ node' = IF Remote THEN files.config ELSE node
          /\ IF Remote /\ node # files.config /\ ~External
             THEN pc' = "bootRestart" /\ UNCHANGED life
             ELSE pc' = "free" /\ life' = "up"
          /\ UNCHANGED doubt
       \/ /\ Fault
          /\ IF Remote THEN EitherLoaded(node, files.config) ELSE UNCHANGED node
          /\ life' = IF Remote THEN "up" ELSE "down"
          /\ doubt' = doubt \cup {"plane"}
          /\ pc' = "free"
    /\ UNCHANGED <<db, lastMode, disk, running, backup, world, job, crashes>>

BootRestart ==
    /\ pc = "bootRestart"
    /\ \/ NoFault /\ running' = Target /\ PlaneLoaded
       \/ Fault /\ EitherLoaded(running, Target) /\ doubt' = doubt \cup {"plane"}
    /\ life' = "up" /\ pc' = "free"
    /\ UNCHANGED <<db, lastMode, disk, node, backup, world, job, crashes>>

BootStep ==
    \/ BootCleanUp \/ BootNothingToDisable \/ BootDisable \/ BootLockBusy
    \/ BootRender \/ BootTest \/ BootRestart

-----------------------------------------------------------------------------
(* The AI routing manager's periodic cycle, a process of its own.           *)

\* The cycle writes or removes the fragment and renders config.json from the
\* inventory file it finds.
ManagerBegin ==
    /\ pc = "free"
    /\ fragment' \in BOOLEAN
    /\ pc' = "manage"
    /\ UNCHANGED <<panel, files, marker, processes, world, job, doubt, faults, crashes>>

ManagerRender ==
    /\ pc = "manage"
    /\ \/ NoFault /\ files' = [files EXCEPT !.config = Rendered] /\ pc' = "managerSync"
       \/ Fault /\ files' \in PartlyRendered /\ pc' = "free"
    /\ marker' = (marker \/ files'.config # files.config)
    /\ job' = [job EXCEPT !.changed = marker']
    /\ UNCHANGED <<panel, fragment, processes, world, doubt, crashes>>

\* What was pending when the cycle began is pending still, even if the watcher
\* cleared the marker in between.
ManagerSync ==
    /\ pc = "managerSync"
    /\ \/ /\ NoFault
          /\ node' = IF Remote THEN files.config ELSE node
          /\ marker' = (job.changed \/ (Remote /\ node # files.config))
          /\ pc' = IF marker' /\ ~External THEN "managerRestart" ELSE "free"
          /\ UNCHANGED doubt
       \/ /\ Remote
          /\ Fault
          /\ EitherLoaded(node, files.config)
          /\ ManagerGivesUp
          /\ pc' = "free"
          /\ UNCHANGED marker
    /\ UNCHANGED <<panel, files, fragment, running, backup, world, job, crashes>>

\* A failed restart keeps the marker for the next cycle.
ManagerRestart ==
    /\ pc = "managerRestart"
    /\ \/ NoFault /\ running' = Target /\ marker' = FALSE /\ doubt' = doubt \ {"plane"}
       \/ Fault /\ EitherLoaded(running, Target) /\ ManagerGivesUp /\ UNCHANGED marker
    /\ pc' = "free"
    /\ UNCHANGED <<panel, files, fragment, node, backup, world, job, crashes>>

ManagerStep == ManagerRender \/ ManagerSync \/ ManagerRestart

-----------------------------------------------------------------------------
(* The surroundings.                                                        *)

\* The watcher (external) reloads what it finds and clears the marker it acted on.
WatcherReload ==
    /\ External
    /\ marker \/ running # Target
    /\ running' = Target
    /\ marker' = FALSE
    /\ UNCHANGED <<panel, files, fragment, node, backup, world, pc, job, doubt, faults, crashes>>

Lapse ==
    /\ Cardinality(lapsed) < MaxLapses
    /\ \E p \in db \ lapsed : lapsed' = lapsed \cup {p}
    /\ UNCHANGED <<panel, disk, processes, aiUp, flips, pc, job, doubt, faults, crashes>>

AiFlips ==
    /\ flips < MaxFlips
    /\ aiUp' = ~aiUp /\ flips' = flips + 1
    /\ UNCHANGED <<panel, disk, processes, lapsed, pc, job, doubt, faults, crashes>>

\* The panel dies: its transaction is gone, the lock is free, files stay.
PanelCrash ==
    /\ crashes < MaxCrashes /\ crashes' = crashes + 1
    /\ life # "down"
    /\ life' = "down"
    /\ pc' = IF pc \in PanelSteps THEN "free" ELSE pc
    /\ PanelDied
    /\ UNCHANGED <<db, lastMode, disk, processes, world, job, faults>>

ManagerCrash ==
    /\ crashes < MaxCrashes /\ crashes' = crashes + 1
    /\ pc \in ManagerSteps
    /\ pc' = "free"
    /\ ManagerGivesUp
    /\ UNCHANGED <<panel, disk, processes, world, job, faults>>

Next ==
    \/ ApplyMutation \/ DisableAutoStopped \/ ApplyStep
    \/ SyncBackupMode \/ RestartBackupMode
    \/ BootStep
    \/ ManagerBegin \/ ManagerStep
    \/ WatcherReload \/ Lapse \/ AiFlips \/ PanelCrash \/ ManagerCrash

Spec == Init /\ [][Next]_vars

\* Handlers run to their end and the maintenance worker's cycle comes again
\* and again; its attempts on the lock succeed from time to time.
FairSpec ==
    /\ Spec
    /\ WF_vars(ApplyStep) /\ WF_vars(RestartBackupMode) /\ WF_vars(BootStep)
    /\ WF_vars(ManagerStep)
    /\ SF_vars(DisableAutoStopped) /\ SF_vars(SyncBackupMode)

-----------------------------------------------------------------------------
\* Types.  Files, processes and the locals of the lock holder are well-formed.
TypeOK ==
    /\ db \subseteq Ports /\ lapsed \subseteq Ports
    /\ files \in Files /\ fragment \in BOOLEAN /\ marker \in BOOLEAN
    /\ node \in Config /\ running \in Config /\ backup \in BackupConfig
    /\ aiUp \in BOOLEAN
    /\ life \in {"up", "down", "disable", "write"} /\ lastMode \in Modes
    /\ pc \in {"free"} \cup PanelSteps \cup ManagerSteps
    /\ job \in Job
    /\ doubt \subseteq {"plane", "backup", "died", "missed"}
    /\ faults \in 0..MaxFaults /\ crashes \in 0..MaxCrashes /\ flips \in 0..MaxFlips

AtRest == life = "up" /\ pc = "free"
InCycle == life = "up" /\ pc \in {"free"} \cup ManagerSteps

\* Whatever failed or died on the way, between two applies the inventory file
\* and the ports of config.json are those of the database, less the ports that
\* have expired since: a rejected change leaves no trace on disk, and a
\* committed one is never missing (operations.md: rollback restores the files).
FilesFollowDatabase ==
    InCycle =>
        /\ files.config.ports = files.inventory
        /\ files.inventory \subseteq db
        /\ db \ files.inventory \subseteq lapsed

\* In direct mode the node's file and the data plane process serve exactly the
\* ports of the committed configuration, whatever failed, was rolled back or died
\* on the way, unless a failed reload or rollback was reported.  Deaths are made
\* up for by the next start except where the README says: those that leave an
\* upload nobody reloads for, and those around which a port expires.
CommittedPortsServed ==
    /\ AtRest /\ ~External
    /\ doubt \cap {"plane", "missed"} = {}
    /\ "died" \in doubt => lapsed = {}
    => /\ Remote => node.ports = files.config.ports
       /\ running.ports = files.config.ports

\* The backup process runs the file on disk, unless its reload was reported as
\* failed; after a start, from the first mode synchronisation on.
BackupRunsItsFile ==
    AtRest /\ lastMode # "unset" /\ "backup" \notin doubt => backup = files.backup

\* The pending marker goes only when the process has loaded the configuration:
\* a failed reload is retried even if the content does not change again
\* (ai-routing.md:62, tests/test_node_control.py:320).
MarkerClearedOnceLoaded ==
    [][marker /\ ~marker' => running' = TargetAfter]_vars

\* A port whose expiry has passed is some day no longer served, or a failed
\* reload of the data plane was reported (operations.md:43).
LapsedStopServing ==
    \A p \in Ports :
        (p \in lapsed) ~> (p \notin running.ports \/ "plane" \in doubt)

\* The backup ends up in the mode that the AI nodes' reachability calls for
\* (architecture.md:149).
BackupModeFollowsAi ==
    \A up \in BOOLEAN : <>[](aiUp = up) => <>[](backup.relay = up)
=============================================================================
