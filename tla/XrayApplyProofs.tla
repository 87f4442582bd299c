---------------------------- MODULE XrayApplyProofs ----------------------------
(***************************************************************************)
(* Proofs about XrayApply for every set of ports, every mode of operation  *)
(* and every bound on what goes wrong.                                     *)
(***************************************************************************)
EXTENDS XrayApply, TLAPS

-----------------------------------------------------------------------------
(* Type correctness.                                                        *)

LEMMA RenderTyped ==
    ASSUME TypeOK
    PROVE  /\ Rendered \in Config
           /\ RenderedBackup \in BackupConfig
           /\ WithRendered \in Files
           /\ PartlyRendered \subseteq Files
<1>1. Rendered \in Config /\ RenderedBackup \in BackupConfig
  BY DEF TypeOK, Files, Rendered, RenderedBackup, Config, BackupConfig
<1>2. [files EXCEPT !.config = Rendered] \in Files
  BY <1>1 DEF TypeOK, Files
<1>3. \A b \in BackupConfig : [files EXCEPT !.config = Rendered, !.backup = b] \in Files
  BY <1>1 DEF TypeOK, Files
<1>4. WithRendered \in Files
  BY <1>1, <1>3 DEF TypeOK, Files, WithRendered
<1>. QED
  BY <1>1, <1>2, <1>4 DEF TypeOK, PartlyRendered

LEMMA TargetTyped ==
    ASSUME TypeOK
    PROVE  Target \in Config
  BY DEF TypeOK, Files, Target

LEMMA FaultsTyped ==
    ASSUME BoundsAssumption, TypeOK, Fault \/ NoFault
    PROVE  faults' \in 0..MaxFaults
  BY DEF BoundsAssumption, TypeOK, Fault, NoFault

\* Noting in the locals what was tried or seen keeps them typed.
LEMMA JobTyped ==
    ASSUME TypeOK, NEW seen \in BOOLEAN
    PROVE  /\ [job EXCEPT !.changed = seen] \in Job
           /\ [job EXCEPT !.backupTried = TRUE] \in Job
           /\ [job EXCEPT !.planeTried = TRUE] \in Job
  BY DEF TypeOK, Job

LEMMA InitTyped ==
    ASSUME BoundsAssumption, Init
    PROVE  TypeOK
<1>1. files \in Files /\ files.config \in Config /\ files.backup \in BackupConfig
  BY DEF Init, Files, Config, BackupConfig
<1>2. job \in Job
  BY <1>1 DEF Init, Job, Modes
<1>3. node \in Config /\ running \in Config /\ backup \in BackupConfig
  BY <1>1 DEF Init
<1>4. /\ db \subseteq Ports /\ lapsed \subseteq Ports /\ doubt \subseteq {"plane", "backup", "died", "missed"}
      /\ fragment \in BOOLEAN /\ marker \in BOOLEAN /\ aiUp \in BOOLEAN
      /\ life = "up" /\ lastMode = "unset" /\ pc = "free"
  BY DEF Init
<1>5. faults \in 0..MaxFaults /\ crashes \in 0..MaxCrashes /\ flips \in 0..MaxFlips
  BY DEF Init, BoundsAssumption
<1>. QED
  BY <1>1, <1>2, <1>3, <1>4, <1>5 DEF TypeOK, Modes

LEMMA ApplyTyped ==
    ASSUME ModesAssumption, BoundsAssumption, TypeOK, ApplyStep
    PROVE  TypeOK'
<1>1. CASE Snapshot
  BY <1>1 DEF Snapshot, TypeOK, panel, disk, processes, world, PanelSteps, Job, Files
<1>2. CASE Render
  BY <1>2, RenderTyped, FaultsTyped DEF Render, TypeOK, panel, disk, processes, world, PanelSteps, Abort
<1>3. CASE Test
  <2>1. job' \in Job
    <3>1. ConfigChanged \in BOOLEAN
      BY DEF ConfigChanged
    <3>2. job' = [job EXCEPT !.changed = ConfigChanged] \/ job' = job
      BY <1>3 DEF Test
    <3>. QED
      BY <3>1, <3>2, JobTyped DEF TypeOK
  <2>2. marker' \in BOOLEAN
    <3>1. marker \in BOOLEAN
      BY DEF TypeOK
    <3>2. marker' = marker \/ marker' \in BOOLEAN
      BY <1>3, Zenon DEF Test
    <3>. QED
      BY <3>1, <3>2
  <2>3. node' \in Config
    BY <1>3 DEF Test, TypeOK, Files, EitherLoaded
  <2>4. pc' \in PanelSteps
    BY <1>3 DEF Test, AfterBackup, Abort, PanelSteps
  <2>5. faults' \in 0..MaxFaults
    BY <1>3, FaultsTyped DEF Test
  <2>6. UNCHANGED <<panel, files, fragment, running, backup, world, doubt, crashes>>
    BY <1>3 DEF Test
  <2>. QED
    BY <2>1, <2>2, <2>3, <2>4, <2>5, <2>6 DEF TypeOK, panel, world
<1>4. CASE RestartBackup
  <2>1. job' \in Job
    BY <1>4, JobTyped DEF RestartBackup
  <2>2. backup' \in BackupConfig /\ doubt' \subseteq {"plane", "backup", "died", "missed"}
    BY <1>4 DEF RestartBackup, TypeOK, Files, EitherLoaded
  <2>3. pc' \in PanelSteps
    BY <1>4 DEF RestartBackup, AfterBackup, Abort, PanelSteps
  <2>4. faults' \in 0..MaxFaults
    BY <1>4, FaultsTyped DEF RestartBackup
  <2>5. UNCHANGED <<panel, disk, node, running, world, crashes>>
    BY <1>4 DEF RestartBackup
  <2>. QED
    BY <2>1, <2>2, <2>3, <2>4, <2>5 DEF TypeOK, panel, disk, world
<1>5. CASE RestartDataPlane
  <2>1. job' \in Job
    BY <1>5, JobTyped DEF RestartDataPlane
  <2>2. running' \in Config /\ doubt' \subseteq {"plane", "backup", "died", "missed"}
    BY <1>5, TargetTyped DEF RestartDataPlane, TypeOK, EitherLoaded, PlaneLoaded
  <2>3. pc' \in PanelSteps
    BY <1>5 DEF RestartDataPlane, Abort, PanelSteps
  <2>4. faults' \in 0..MaxFaults
    BY <1>5, FaultsTyped DEF RestartDataPlane
  <2>5. UNCHANGED <<panel, disk, node, backup, world, crashes>>
    BY <1>5 DEF RestartDataPlane
  <2>. QED
    BY <2>1, <2>2, <2>3, <2>4, <2>5 DEF TypeOK, panel, disk, world
<1>6. CASE Settle
  BY <1>6, FaultsTyped DEF Settle, TypeOK, panel, disk, processes, world, PanelSteps, Abort
<1>7. CASE Commit
  BY <1>7, FaultsTyped DEF Commit, TypeOK, panel, disk, processes, world, PanelSteps, Abort, Job, Finished
<1>8. CASE UndoFiles
  BY <1>8 DEF UndoFiles, TypeOK, panel, disk, processes, world, PanelSteps, Job
<1>9. CASE UndoBackup
  BY <1>9, FaultsTyped DEF UndoBackup, TypeOK, panel, disk, processes, world, PanelSteps, Files, EitherLoaded
<1>10. CASE UndoPlane
  BY <1>10, FaultsTyped DEF UndoPlane, TypeOK, panel, disk, processes, world, PanelSteps, Files, EitherLoaded, TargetAfter,
      PlaneLoaded
<1>. QED
  BY <1>1, <1>2, <1>3, <1>4, <1>5, <1>6, <1>7, <1>8, <1>9, <1>10 DEF ApplyStep

LEMMA BootTyped ==
    ASSUME ModesAssumption, BoundsAssumption, TypeOK, BootStep
    PROVE  TypeOK'
<1>1. CASE BootCleanUp
  BY <1>1 DEF BootCleanUp, TypeOK, disk, processes, world, Modes
<1>2. CASE BootNothingToDisable
  BY <1>2 DEF BootNothingToDisable, TypeOK, disk, processes, world
<1>3. CASE BootDisable
  BY <1>3 DEF BootDisable, Begin, TypeOK, panel, disk, processes, world, PanelSteps, Job
<1>4. CASE BootLockBusy
  BY <1>4 DEF BootLockBusy, TypeOK, disk, processes, world
<1>5. CASE BootRender
  <2>. DEFINE inventory == db \ lapsed
              config == [ports |-> inventory, routed |-> fragment]
              backupConfig == [ports |-> inventory, relay |-> aiUp]
  <2>1. inventory \subseteq Ports /\ config \in Config /\ backupConfig \in BackupConfig
    BY DEF TypeOK, Config, BackupConfig
  <2>2. files' \in Files
    <3>. HIDE DEF inventory, config, backupConfig
    <3>1. \A b \in BackupConfig :
            /\ [files EXCEPT !.inventory = inventory] \in Files
            /\ [[files EXCEPT !.inventory = inventory] EXCEPT !.config = config] \in Files
            /\ [[files EXCEPT !.inventory = inventory] EXCEPT !.config = config, !.backup = b]
                    \in Files
            /\ [[files EXCEPT !.inventory = inventory] EXCEPT !.config = config, !.backup = @]
                    \in Files
      BY <2>1 DEF TypeOK, Files
    <3>. USE DEF inventory, config, backupConfig
    <3>2. \/ files' = [[files EXCEPT !.inventory = inventory] EXCEPT !.config = config,
                            !.backup = IF Backup THEN backupConfig ELSE @]
          \/ files' \in {[files EXCEPT !.inventory = inventory],
                         [[files EXCEPT !.inventory = inventory] EXCEPT !.config = config]}
      BY <1>5 DEF BootRender
    <3>. QED
      BY <2>1, <3>1, <3>2
  <2>3. faults' \in 0..MaxFaults
    BY <1>5, FaultsTyped DEF BootRender
  <2>. QED
    BY <1>5, <2>2, <2>3 DEF BootRender, TypeOK, panel, disk, processes, world, PanelSteps
<1>6. CASE BootTest
  BY <1>6, FaultsTyped DEF BootTest, TypeOK, disk, processes, world, PanelSteps, Files, EitherLoaded
<1>7. CASE BootRestart
  BY <1>7, FaultsTyped, TargetTyped DEF BootRestart, TypeOK, disk, world, EitherLoaded,
      PlaneLoaded
<1>. QED
  BY <1>1, <1>2, <1>3, <1>4, <1>5, <1>6, <1>7 DEF BootStep

LEMMA ManagerTyped ==
    ASSUME ModesAssumption, BoundsAssumption, TypeOK, ManagerBegin \/ ManagerStep
    PROVE  TypeOK'
<1>1. CASE ManagerBegin
  BY <1>1 DEF ManagerBegin, TypeOK, panel, processes, world, ManagerSteps
<1>2. CASE ManagerRender
  <2>1. files' \in Files
    <3>1. [files EXCEPT !.config = Rendered] \in Files
      BY RenderTyped DEF PartlyRendered
    <3>. QED
      BY <1>2, <3>1, RenderTyped DEF ManagerRender
  <2>2. marker' \in BOOLEAN
    <3>1. marker' = (marker \/ files'.config # files.config)
      BY <1>2 DEF ManagerRender
    <3>. QED
      BY <3>1, Zenon
  <2>3. job' \in Job
    BY <1>2, <2>2, JobTyped DEF ManagerRender
  <2>4. faults' \in 0..MaxFaults
    BY <1>2, FaultsTyped DEF ManagerRender
  <2>5. pc' \in {"managerSync", "free"}
    BY <1>2 DEF ManagerRender
  <2>6. UNCHANGED <<panel, fragment, processes, world, doubt, crashes>>
    BY <1>2 DEF ManagerRender
  <2>. QED
    BY <2>1, <2>2, <2>3, <2>4, <2>5, <2>6 DEF TypeOK, panel, processes, world, ManagerSteps
<1>3. CASE ManagerSync
  <2>1. marker' \in BOOLEAN
    <3>1. marker' = (job.changed \/ (Remote /\ node # files.config)) \/ marker' = marker
      BY <1>3 DEF ManagerSync
    <3>2. (job.changed \/ (Remote /\ node # files.config)) \in BOOLEAN
      BY Zenon
    <3>. QED
      BY <3>1, <3>2, Zenon DEF TypeOK
  <2>2. node' \in Config
    BY <1>3 DEF ManagerSync, TypeOK, Files, EitherLoaded
  <2>3. faults' \in 0..MaxFaults
    BY <1>3, FaultsTyped DEF ManagerSync
  <2>4. pc' \in {"managerRestart", "free"}
    BY <1>3 DEF ManagerSync
  <2>5. UNCHANGED <<panel, files, fragment, running, backup, world, job, crashes>>
    BY <1>3 DEF ManagerSync
  <2>6. doubt' \subseteq {"plane", "backup", "died", "missed"}
    BY <1>3 DEF ManagerSync, ManagerGivesUp, TypeOK
  <2>. QED
    BY <2>1, <2>2, <2>3, <2>4, <2>5, <2>6 DEF TypeOK, panel, world, ManagerSteps
<1>4. CASE ManagerRestart
  BY <1>4, FaultsTyped, TargetTyped DEF ManagerRestart, TypeOK, panel, world, EitherLoaded,
      ManagerGivesUp
<1>. QED
  BY <1>1, <1>2, <1>3, <1>4 DEF ManagerStep

LEMMA RestTyped ==
    ASSUME ModesAssumption, BoundsAssumption, TypeOK,
           \/ ApplyMutation \/ DisableAutoStopped \/ SyncBackupMode \/ RestartBackupMode
           \/ WatcherReload \/ Lapse \/ AiFlips \/ PanelCrash \/ ManagerCrash
    PROVE  TypeOK'
<1>1. ASSUME NEW tx \in SUBSET Ports, Begin(tx, TRUE)
      PROVE  TypeOK'
  BY <1>1 DEF Begin, TypeOK, panel, disk, processes, world, PanelSteps, Job
<1>2. CASE ApplyMutation \/ DisableAutoStopped
  BY <1>1, <1>2 DEF ApplyMutation, DisableAutoStopped, TypeOK
<1>3. CASE SyncBackupMode
  <2>1. files' \in Files
    BY <1>3, RenderTyped DEF SyncBackupMode
  <2>2. job' \in Job
    BY <1>3 DEF SyncBackupMode, Mode, TypeOK, Job, Modes
  <2>3. faults' \in 0..MaxFaults
    BY <1>3, FaultsTyped DEF SyncBackupMode
  <2>. QED
    BY <1>3, <2>1, <2>2, <2>3 DEF SyncBackupMode, TypeOK, panel, processes, world, PanelSteps
<1>4. CASE RestartBackupMode
  BY <1>4, FaultsTyped DEF RestartBackupMode, TypeOK, disk, world, EitherLoaded, Files, Job
<1>5. CASE WatcherReload
  BY <1>5, TargetTyped DEF WatcherReload, TypeOK, panel, world
<1>6. CASE Lapse
  BY <1>6 DEF Lapse, TypeOK, panel, disk, processes
<1>7. CASE AiFlips
  BY <1>7 DEF AiFlips, TypeOK, panel, disk, processes, BoundsAssumption
<1>8. CASE PanelCrash \/ ManagerCrash
  <2>1. crashes' \in 0..MaxCrashes
    BY <1>8 DEF PanelCrash, ManagerCrash, TypeOK, BoundsAssumption
  <2>2. life' \in {life, "down"} /\ pc' \in {pc, "free"} /\ lastMode' = lastMode /\ db' = db
    BY <1>8 DEF PanelCrash, ManagerCrash, panel
  <2>3. UNCHANGED <<disk, processes, world, job, faults>>
    BY <1>8 DEF PanelCrash, ManagerCrash
  <2>4. doubt' \subseteq doubt \cup {"died", "missed"}
    BY <1>8 DEF PanelCrash, ManagerCrash, PanelDied, ManagerGivesUp
  <2>. QED
    BY <2>1, <2>2, <2>3, <2>4 DEF TypeOK, disk, processes, world
<1>. QED
  BY <1>2, <1>3, <1>4, <1>5, <1>6, <1>7, <1>8

LEMMA StepTyped ==
    ASSUME ModesAssumption, BoundsAssumption, TypeOK, [Next]_vars
    PROVE  TypeOK'
<1>1. CASE Next
  BY <1>1, ApplyTyped, BootTyped, ManagerTyped, RestTyped DEF Next
<1>2. CASE UNCHANGED vars
  BY <1>2 DEF vars, panel, disk, processes, world, TypeOK
<1>. QED
  BY <1>1, <1>2

\* No step of an apply, of a rollback, of the startup or of the manager leaves
\* a file, a process or the locals of the lock holder ill-typed.
THEOREM TypeCorrect == Spec => []TypeOK
<1>1. Init => TypeOK
  BY InitTyped, BoundsAssumption
<1>2. TypeOK /\ [Next]_vars => TypeOK'
  BY StepTyped, ModesAssumption, BoundsAssumption
<1>. QED
  BY <1>1, <1>2, PTL DEF Spec

-----------------------------------------------------------------------------
(* The files follow the database.                                           *)

\* What FilesFollowDatabase asks of the files, said of any files.
Follows(f) ==
    /\ f.config.ports = f.inventory
    /\ f.inventory \subseteq db
    /\ db \ f.inventory \subseteq lapsed

ApplySteps == {"snapshot", "render", "test", "backup", "restart", "settle", "commit",
               "undo", "undoBackup", "undoPlane"}

\* The holder of the lock is a panel that is in the part of its life the step
\* belongs to; a panel that is down holds nothing.
LifeMatches ==
    /\ pc \in ApplySteps => life \in {"up", "disable"}
    /\ pc = "modeRestart" => life = "up"
    /\ pc \in {"bootTest", "bootRestart"} => life = "write"

\* Between two applies, before an apply has written anything, after it has put
\* the previous files back and after a rendering outside of an apply, the files
\* follow the database.
FilesFollow ==
    \/ life = "up" /\ pc \in {"free", "snapshot", "undoBackup", "undoPlane",
                              "modeRestart"} \cup ManagerSteps
    \/ pc \in {"bootTest", "bootRestart"}
    => Follows(files)

\* What the rollback puts back follows the database.
SavedFollow ==
    life = "up" /\ pc \in {"render", "test", "backup", "restart", "settle", "commit", "undo"}
        => Follows(job.saved)

\* What is about to be committed is what has been written: the inventory from
\* the snapshot on, the configuration once it is rendered.
WrittenIsTransaction ==
    /\ pc \in {"render", "test", "backup", "restart", "settle", "commit"} =>
            files.inventory \subseteq job.tx /\ job.tx \ files.inventory \subseteq lapsed
    /\ pc \in {"test", "backup", "restart", "settle", "commit"} =>
            files.config.ports = files.inventory

FInv == TypeOK /\ LifeMatches /\ FilesFollow /\ SavedFollow /\ WrittenIsTransaction

\* A rendering that keeps the inventory keeps what follows.
LEMMA RenderFollows ==
    ASSUME TypeOK
    PROVE  /\ WithRendered.inventory = files.inventory
           /\ WithRendered.config.ports = files.inventory
           /\ \A f \in PartlyRendered \cup {WithRendered, [files EXCEPT !.config = Rendered]} :
                /\ f.inventory = files.inventory
                /\ Follows(files) => Follows(f)
<1>1. Rendered.ports = files.inventory
  BY DEF Rendered
<1>2. /\ WithRendered.inventory = files.inventory
      /\ WithRendered.config = Rendered
  BY DEF TypeOK, Files, WithRendered
<1>3. /\ [files EXCEPT !.config = Rendered].inventory = files.inventory
      /\ [files EXCEPT !.config = Rendered].config = Rendered
  BY DEF TypeOK, Files
<1>. QED
  BY <1>1, <1>2, <1>3 DEF PartlyRendered, Follows

LEMMA ApplyFollows ==
    ASSUME FInv, TypeOK', ApplyStep
    PROVE  FInv'
<1>1. CASE Snapshot
  <2>1. job'.saved = files /\ job'.tx = job.tx /\ files'.inventory = job.tx \ lapsed
    BY <1>1 DEF Snapshot, FInv, TypeOK, Job, Files
  <2>2. pc = "snapshot" /\ pc' = "render" /\ UNCHANGED <<db, life, lapsed>>
    BY <1>1 DEF Snapshot, panel, world
  <2>. QED
    BY <2>1, <2>2 DEF FInv, LifeMatches, FilesFollow, SavedFollow, WrittenIsTransaction,
        Follows, ApplySteps, ManagerSteps
<1>2. CASE Render
  <2>1. /\ pc = "render" /\ UNCHANGED <<db, life, lapsed, job>>
        /\ \/ files' = WithRendered /\ pc' = "test"
           \/ pc' = "undo"
    BY <1>2 DEF Render, Abort, panel, world
  <2>2. WithRendered.inventory = files.inventory /\ WithRendered.config.ports = files.inventory
    BY RenderFollows DEF FInv
  <2>. QED
    BY <2>1, <2>2 DEF FInv, LifeMatches, FilesFollow, SavedFollow, WrittenIsTransaction,
        Follows, ApplySteps, ManagerSteps
<1>3. CASE Test \/ RestartBackup \/ RestartDataPlane \/ Settle
  <2>1. /\ pc \in {"test", "backup", "restart", "settle"}
        /\ pc' \in {"backup", "restart", "settle", "commit", "undo"}
    BY <1>3 DEF Test, RestartBackup, RestartDataPlane, Settle, AfterBackup, Abort
  <2>2. UNCHANGED <<db, life, lapsed, files>>
    BY <1>3 DEF Test, RestartBackup, RestartDataPlane, Settle, panel, disk, world
  <2>3. job'.tx = job.tx /\ job'.saved = job.saved
    BY <1>3 DEF Test, RestartBackup, RestartDataPlane, Settle, FInv, TypeOK, Job
  <2>. QED
    BY <2>1, <2>2, <2>3 DEF FInv, LifeMatches, FilesFollow, SavedFollow, WrittenIsTransaction,
        Follows, ApplySteps, ManagerSteps
<1>4. CASE Commit
  <2>1. /\ pc = "commit" /\ UNCHANGED <<files, lapsed, job>>
        /\ \/ db' = job.tx /\ life' = Finished /\ pc' = "free"
           \/ pc' = "undo" /\ UNCHANGED <<db, life>>
    BY <1>4 DEF Commit, Abort, disk, world
  <2>. QED
    BY <2>1 DEF FInv, LifeMatches, FilesFollow, SavedFollow, WrittenIsTransaction,
        Follows, ApplySteps, ManagerSteps, Finished
<1>5. CASE UndoFiles
  <2>1. /\ pc = "undo" /\ pc' \in {"undoBackup", "undoPlane"} /\ files' = job.saved
        /\ UNCHANGED <<db, life, lapsed, job>>
    BY <1>5 DEF UndoFiles, panel, world
  <2>. QED
    BY <2>1 DEF FInv, LifeMatches, FilesFollow, SavedFollow, WrittenIsTransaction,
        Follows, ApplySteps, ManagerSteps
<1>6. CASE UndoBackup
  <2>1. pc = "undoBackup" /\ pc' = "undoPlane" /\ UNCHANGED <<db, life, lapsed, files, job>>
    BY <1>6 DEF UndoBackup, panel, disk, world
  <2>. QED
    BY <2>1 DEF FInv, LifeMatches, FilesFollow, SavedFollow, WrittenIsTransaction,
        Follows, ApplySteps, ManagerSteps
<1>7. CASE UndoPlane
  <2>1. /\ pc = "undoPlane" /\ pc' = "free" /\ UNCHANGED <<db, lapsed, files, job>>
        /\ life' = IF life = "disable" THEN "down" ELSE life
    BY <1>7 DEF UndoPlane, disk, world
  <2>. QED
    BY <2>1 DEF FInv, LifeMatches, FilesFollow, SavedFollow, WrittenIsTransaction,
        Follows, ApplySteps, ManagerSteps
<1>. QED
  BY <1>1, <1>2, <1>3, <1>4, <1>5, <1>6, <1>7 DEF ApplyStep

LEMMA BootFollows ==
    ASSUME FInv, TypeOK', BootStep
    PROVE  FInv'
<1>1. CASE BootCleanUp
  <2>1. /\ life = "down" /\ life' = "disable"
        /\ UNCHANGED <<lapsed, files, job, pc>>
    BY <1>1 DEF BootCleanUp, disk, world
  <2>2. pc \notin ApplySteps \cup {"modeRestart", "bootTest", "bootRestart"}
    BY <2>1 DEF FInv, LifeMatches
  <2>. QED
    BY <2>1, <2>2 DEF FInv, LifeMatches, FilesFollow, SavedFollow, WrittenIsTransaction, ApplySteps
<1>2. CASE BootNothingToDisable \/ BootLockBusy
  <2>1. /\ pc \in ManagerSteps \cup {"free"} /\ life' \in {"write", "down"}
        /\ UNCHANGED <<db, lapsed, files, job, pc>>
    BY <1>2 DEF BootNothingToDisable, BootLockBusy, disk, world
  <2>. QED
    BY <2>1 DEF FInv, LifeMatches, FilesFollow, SavedFollow, WrittenIsTransaction, ApplySteps,
        ManagerSteps
<1>3. CASE BootDisable
  <2>1. /\ life = "disable" /\ pc' = "snapshot" /\ UNCHANGED <<db, life, lapsed, files>>
    BY <1>3 DEF BootDisable, Begin, panel, disk, world
  <2>. QED
    BY <2>1 DEF FInv, LifeMatches, FilesFollow, SavedFollow, WrittenIsTransaction, ApplySteps,
        ManagerSteps
<1>4. CASE BootRender
  <2>1. life = "write" /\ pc = "free" /\ UNCHANGED <<db, lapsed, job>>
    BY <1>4 DEF BootRender, world
  <2>2. \/ pc' = "bootTest" /\ UNCHANGED life
        \/ pc' = "free" /\ life' = "down"
    BY <1>4, <2>1 DEF BootRender
  <2>3. CASE pc' = "bootTest" /\ UNCHANGED life
    <3>1. \E b : files' = [[files EXCEPT !.inventory = db \ lapsed] EXCEPT
                    !.config = [ports |-> db \ lapsed, routed |-> fragment], !.backup = b]
      <4>1. files' = [[files EXCEPT !.inventory = db \ lapsed] EXCEPT
                    !.config = [ports |-> db \ lapsed, routed |-> fragment],
                    !.backup = IF Backup THEN [ports |-> db \ lapsed, relay |-> aiUp] ELSE @]
        BY <1>4, <2>1, <2>3 DEF BootRender
      <4>. QED
        BY <4>1
    <3>2. files'.inventory = db \ lapsed /\ files'.config.ports = db \ lapsed
      BY <3>1 DEF FInv, TypeOK, Files
    <3>. QED
      BY <2>1, <2>3, <3>2 DEF FInv, LifeMatches, FilesFollow, SavedFollow, WrittenIsTransaction,
          ApplySteps, ManagerSteps, Follows
  <2>4. CASE pc' = "free" /\ life' = "down"
    BY <2>1, <2>4 DEF FInv, LifeMatches, FilesFollow, SavedFollow, WrittenIsTransaction,
        ApplySteps
  <2>. QED
    BY <2>2, <2>3, <2>4
<1>5. CASE BootTest \/ BootRestart
  <2>1. /\ pc \in {"bootTest", "bootRestart"} /\ UNCHANGED <<db, lapsed, files, job>>
        /\ \/ pc' = "bootRestart" /\ UNCHANGED life
           \/ pc' = "free" /\ life' \in {"up", "down"}
    BY <1>5 DEF BootTest, BootRestart, disk, world
  <2>. QED
    BY <2>1 DEF FInv, LifeMatches, FilesFollow, SavedFollow, WrittenIsTransaction, ApplySteps,
        ManagerSteps, Follows
<1>. QED
  BY <1>1, <1>2, <1>3, <1>4, <1>5 DEF BootStep

LEMMA OthersFollow ==
    ASSUME FInv, TypeOK',
           \/ ApplyMutation \/ DisableAutoStopped \/ SyncBackupMode \/ RestartBackupMode
           \/ ManagerBegin \/ ManagerStep
           \/ WatcherReload \/ Lapse \/ AiFlips \/ PanelCrash \/ ManagerCrash
    PROVE  FInv'
<1>1. CASE ApplyMutation \/ DisableAutoStopped
  <2>1. life = "up" /\ pc = "free" /\ pc' = "snapshot" /\ UNCHANGED <<db, life, lapsed, files>>
    BY <1>1 DEF ApplyMutation, DisableAutoStopped, Begin, panel, disk, world
  <2>. QED
    BY <2>1 DEF FInv, LifeMatches, FilesFollow, SavedFollow, WrittenIsTransaction, ApplySteps,
        ManagerSteps, Follows
<1>2. CASE SyncBackupMode
  <2>1. /\ life = "up" /\ pc = "free" /\ pc' \in {"modeRestart", "free"}
        /\ UNCHANGED <<db, life, lapsed>>
        /\ files' \in PartlyRendered \cup {WithRendered}
    BY <1>2 DEF SyncBackupMode, panel, world
  <2>2. Follows(files) /\ (Follows(files) => Follows(files)')
    BY <2>1, RenderFollows DEF FInv, FilesFollow, Follows
  <2>. QED
    BY <2>1, <2>2 DEF FInv, LifeMatches, FilesFollow, SavedFollow, WrittenIsTransaction, ApplySteps,
        ManagerSteps
<1>3. CASE RestartBackupMode \/ ManagerCrash
  <2>1. /\ pc \in ManagerSteps \cup {"modeRestart"} /\ pc' = "free"
        /\ UNCHANGED <<db, life, lapsed, files, job>>
    BY <1>3 DEF RestartBackupMode, ManagerCrash, panel, disk, world
  <2>. QED
    BY <2>1 DEF FInv, LifeMatches, FilesFollow, SavedFollow, WrittenIsTransaction, ApplySteps,
        ManagerSteps, Follows
<1>4. CASE ManagerBegin
  <2>1. pc = "free" /\ pc' = "manage" /\ UNCHANGED <<db, life, lapsed, files, job>>
    BY <1>4 DEF ManagerBegin, panel, world
  <2>. QED
    BY <2>1 DEF FInv, LifeMatches, FilesFollow, SavedFollow, WrittenIsTransaction, ApplySteps,
        ManagerSteps, Follows
<1>5. CASE ManagerRender
  <2>1. /\ pc = "manage" /\ pc' \in {"managerSync", "free"}
        /\ UNCHANGED <<db, life, lapsed>>
        /\ files' \in PartlyRendered \cup {[files EXCEPT !.config = Rendered]}
    BY <1>5 DEF ManagerRender, panel, world
  <2>2. Follows(files) => Follows(files)'
    BY <2>1, RenderFollows DEF FInv, Follows
  <2>. QED
    BY <2>1, <2>2 DEF FInv, LifeMatches, FilesFollow, SavedFollow, WrittenIsTransaction, ApplySteps,
        ManagerSteps
<1>6. CASE ManagerSync \/ ManagerRestart
  <2>1. /\ pc \in {"managerSync", "managerRestart"} /\ pc' \in {"managerRestart", "free"}
        /\ UNCHANGED <<db, life, lapsed, files, job>>
    BY <1>6 DEF ManagerSync, ManagerRestart, panel, disk, world
  <2>. QED
    BY <2>1 DEF FInv, LifeMatches, FilesFollow, SavedFollow, WrittenIsTransaction, ApplySteps,
        ManagerSteps, Follows
<1>7. CASE Lapse
  <2>1. lapsed \subseteq lapsed' /\ UNCHANGED <<db, life, files, job, pc>>
    BY <1>7 DEF Lapse, panel, disk
  <2>. QED
    BY <2>1 DEF FInv, LifeMatches, FilesFollow, SavedFollow, WrittenIsTransaction, Follows
<1>8. CASE WatcherReload \/ AiFlips
  <2>1. UNCHANGED <<db, life, lapsed, files, job, pc>>
    BY <1>8 DEF WatcherReload, AiFlips, panel, disk, world
  <2>. QED
    BY <2>1 DEF FInv, LifeMatches, FilesFollow, SavedFollow, WrittenIsTransaction, Follows
<1>9. CASE PanelCrash
  <2>1. /\ life' = "down" /\ UNCHANGED <<db, lapsed, files, job>>
        /\ pc' \in {"free"} \cup ManagerSteps
    BY <1>9 DEF PanelCrash, disk, world, FInv, TypeOK
  <2>. QED
    BY <2>1 DEF FInv, LifeMatches, FilesFollow, SavedFollow, WrittenIsTransaction, ApplySteps,
        ManagerSteps
<1>. QED
  BY <1>1, <1>2, <1>3, <1>4, <1>5, <1>6, <1>7, <1>8, <1>9 DEF ManagerStep

LEMMA FilesInitially == Init => FInv
<1>1. Init => TypeOK
  BY InitTyped, BoundsAssumption
<1>. QED
  BY <1>1 DEF Init, FInv, LifeMatches, FilesFollow, SavedFollow, WrittenIsTransaction,
      Follows, ApplySteps

LEMMA FilesStep == FInv /\ [Next]_vars => FInv'
<1>. SUFFICES ASSUME FInv, [Next]_vars
              PROVE  FInv'
  OBVIOUS
<1>1. TypeOK'
  BY StepTyped, ModesAssumption, BoundsAssumption DEF FInv
<1>2. CASE Next
  BY <1>1, <1>2, ApplyFollows, BootFollows, OthersFollow DEF Next
<1>3. CASE UNCHANGED vars
  BY <1>1, <1>3 DEF vars, panel, disk, world, FInv, LifeMatches, FilesFollow, SavedFollow,
      WrittenIsTransaction, Follows
<1>. QED
  BY <1>2, <1>3

\* Whatever fails and whoever dies in the middle of an apply, a startup or a
\* manager cycle: between two applies the inventory file and the configuration
\* hold the ports of the database, less those that expired since.
THEOREM FilesFollowTheDatabase == Spec => []FilesFollowDatabase
<1>1. FInv => FilesFollowDatabase
  BY DEF FInv, FilesFollow, FilesFollowDatabase, InCycle, Follows
<1>. QED
  BY <1>1, FilesInitially, FilesStep, PTL DEF Spec

-----------------------------------------------------------------------------
(* The backup process runs its file.                                        *)

\* A start forgets the mode that was applied last.
StartForgetsMode == life \in {"disable", "write"} => lastMode = "unset"

\* Only a panel with a backup remembers a mode.
ModeNeedsBackup == (lastMode # "unset" \/ pc = "modeRestart") => Backup

BackupTrusted == life = "up" /\ lastMode # "unset" /\ "backup" \notin doubt

\* Which file the backup runs, at every step of whoever holds the lock: until an
\* apply has rendered, the file on disk, then the one that would be put back.
BackupFollows ==
    BackupTrusted =>
        /\ pc \in {"free", "snapshot", "restart", "settle", "commit", "undoPlane"} \cup ManagerSteps =>
                backup = files.backup
        /\ pc \in {"render", "test", "backup"} => backup = job.saved.backup
        /\ pc \in {"restart", "settle", "commit", "undo"} =>
                (job.backupTried \/ backup = job.saved.backup)

BInv == FInv /\ StartForgetsMode /\ ModeNeedsBackup /\ BackupFollows

\* Only an apply, a synchronisation of the mode and the startup write what the
\* backup's part of the invariant speaks of.
LEMMA BackupUntouched ==
    ASSUME BInv,
           UNCHANGED <<lastMode, life, files, backup, job>>,
           "backup" \in doubt => "backup" \in doubt',
           pc \in {"free"} \cup ManagerSteps, pc' \in {"free", "snapshot"} \cup ManagerSteps
    PROVE  StartForgetsMode' /\ ModeNeedsBackup' /\ BackupFollows'
  BY DEF BInv, StartForgetsMode, ModeNeedsBackup, BackupFollows, BackupTrusted, ManagerSteps

LEMMA ApplyBackup ==
    ASSUME BInv, ApplyStep
    PROVE  StartForgetsMode' /\ ModeNeedsBackup' /\ BackupFollows'
<1>. USE DEF BackupFollows, BackupTrusted, ManagerSteps
<1>1. /\ StartForgetsMode /\ ModeNeedsBackup /\ BackupFollows /\ pc # "modeRestart"
      /\ job \in Job /\ files \in Files
  BY DEF BInv, FInv, TypeOK, ApplyStep, Snapshot, Render, Test, RestartBackup, RestartDataPlane,
      Settle, Commit, UndoFiles, UndoBackup, UndoPlane
<1>2. ASSUME life' \in {life, "down", Finished}, UNCHANGED lastMode, pc' # "modeRestart"
      PROVE  StartForgetsMode' /\ ModeNeedsBackup'
  BY <1>1, <1>2 DEF StartForgetsMode, ModeNeedsBackup, Finished
<1>3. CASE Snapshot
  <2>1. /\ pc = "snapshot" /\ pc' = "render" /\ job'.saved = files
        /\ UNCHANGED <<lastMode, life, backup, doubt>>
    BY <1>1, <1>3 DEF Snapshot, panel, processes, Job
  <2>. QED
    BY <1>1, <1>2, <2>1
<1>4. CASE Render
  <2>1. /\ pc = "render" /\ pc' \in {"test", "undo"}
        /\ UNCHANGED <<lastMode, life, backup, doubt, job>>
    BY <1>4 DEF Render, Abort, panel, processes
  <2>. QED
    BY <1>1, <1>2, <2>1
<1>5. CASE Test
  <2>1. /\ pc = "test" /\ pc' \in {"backup", "restart", "settle", "undo"}
        /\ pc' \in {"restart", "settle"} => ~BackupChanged
        /\ job'.saved = job.saved
        /\ UNCHANGED <<lastMode, life, backup, doubt, files>>
    BY <1>1, <1>5 DEF Test, AfterBackup, Abort, panel, Job
  <2>2. pc' \in {"restart", "settle"} /\ BackupTrusted => job.saved.backup = files.backup
    BY <1>1, <2>1 DEF BackupChanged, ModeNeedsBackup
  <2>. QED
    BY <1>1, <1>2, <2>1, <2>2
<1>6. CASE RestartBackup
  <2>1. /\ pc = "backup" /\ pc' \in {"restart", "settle", "undo"}
        /\ job'.backupTried
        /\ pc' \in {"restart", "settle"} => backup' = files.backup
        /\ UNCHANGED <<lastMode, life, files>>
    BY <1>1, <1>6 DEF RestartBackup, AfterBackup, Abort, panel, disk, Job
  <2>. QED
    BY <1>1, <1>2, <2>1
<1>7. CASE RestartDataPlane \/ Settle
  <2>1. /\ pc \in {"restart", "settle"} /\ pc' \in {"settle", "commit", "undo"}
        /\ job'.saved = job.saved /\ job'.backupTried = job.backupTried
        /\ "backup" \in doubt => "backup" \in doubt'
        /\ UNCHANGED <<lastMode, life, files, backup>>
    BY <1>1, <1>7 DEF RestartDataPlane, PlaneLoaded, Settle, Abort, panel, disk, processes, Job
  <2>. QED
    BY <1>1, <1>2, <2>1
<1>8. CASE Commit
  <2>1. /\ pc = "commit" /\ pc' \in {"free", "undo"} /\ life' \in {life, Finished}
        /\ UNCHANGED <<lastMode, files, backup, doubt, job>>
    BY <1>8 DEF Commit, Abort, disk, processes
  <2>2. life' = "up" => life = "up"
    BY <2>1 DEF Finished
  <2>. QED
    BY <1>1, <1>2, <2>1, <2>2
<1>9. CASE UndoFiles
  <2>1. /\ pc = "undo" /\ files' = job.saved
        /\ pc' = "undoBackup" \/ (pc' = "undoPlane" /\ ~job.backupTried)
        /\ UNCHANGED <<lastMode, life, backup, doubt, job>>
    BY <1>9 DEF UndoFiles, panel, processes
  <2>. QED
    BY <1>1, <1>2, <2>1
<1>10. CASE UndoBackup
  <2>1. /\ pc = "undoBackup" /\ pc' = "undoPlane"
        /\ backup' = files.backup \/ "backup" \in doubt'
        /\ UNCHANGED <<lastMode, life, files, job>>
    BY <1>10 DEF UndoBackup, panel, disk
  <2>. QED
    BY <1>1, <1>2, <2>1
<1>11. CASE UndoPlane
  <2>1. /\ pc = "undoPlane" /\ pc' = "free" /\ life' \in {life, "down"}
        /\ "backup" \in doubt => "backup" \in doubt'
        /\ UNCHANGED <<lastMode, files, backup, job>>
    BY <1>11 DEF UndoPlane, PlaneLoaded, disk
  <2>. QED
    BY <1>1, <1>2, <2>1
<1>. QED
  BY <1>3, <1>4, <1>5, <1>6, <1>7, <1>8, <1>9, <1>10, <1>11 DEF ApplyStep

\* A panel that has just started has not applied a mode yet.
LEMMA BootBackup ==
    ASSUME BInv, BootStep
    PROVE  StartForgetsMode' /\ ModeNeedsBackup' /\ BackupFollows'
<1>1. /\ StartForgetsMode /\ ModeNeedsBackup
      /\ pc \in {"bootTest", "bootRestart"} => life = "write"
  BY DEF BInv, FInv, LifeMatches
<1>2. pc' # "modeRestart" \/ pc' = pc
  BY DEF BootStep, BootCleanUp, BootNothingToDisable, BootDisable, Begin, BootLockBusy,
      BootRender, BootTest, BootRestart
<1>3. /\ lastMode' \in {lastMode, "unset"}
      /\ life' \in {"disable", "write"} => life \in {"disable", "write"} \/ lastMode' = "unset"
      /\ life' = "up" => life = "write"
  BY <1>1 DEF BootStep, BootCleanUp, BootNothingToDisable, BootDisable, Begin, BootLockBusy,
      BootRender, BootTest, BootRestart, panel
<1>. QED
  BY <1>1, <1>2, <1>3 DEF StartForgetsMode, ModeNeedsBackup, BackupFollows, BackupTrusted

LEMMA OthersBackup ==
    ASSUME BInv,
           \/ ApplyMutation \/ DisableAutoStopped \/ SyncBackupMode \/ RestartBackupMode
           \/ ManagerBegin \/ ManagerStep
           \/ WatcherReload \/ Lapse \/ AiFlips \/ PanelCrash \/ ManagerCrash
    PROVE  StartForgetsMode' /\ ModeNeedsBackup' /\ BackupFollows'
<1>1. /\ StartForgetsMode /\ ModeNeedsBackup /\ BackupFollows
      /\ files \in Files
      /\ pc = "modeRestart" => life = "up"
      /\ pc \in {"free"} \cup PanelSteps \cup ManagerSteps
  BY DEF BInv, FInv, TypeOK, LifeMatches
<1>2. \A f \in PartlyRendered \cup {[files EXCEPT !.config = Rendered]} :
            f.backup = files.backup
  BY <1>1 DEF PartlyRendered, Files
<1>3. CASE ApplyMutation \/ DisableAutoStopped
  <2>1. /\ pc = "free" /\ pc' = "snapshot" /\ UNCHANGED <<lastMode, life, files, backup, doubt>>
    BY <1>3 DEF ApplyMutation, DisableAutoStopped, Begin, panel, disk, processes
  <2>. QED
    BY <1>1, <2>1 DEF StartForgetsMode, ModeNeedsBackup, BackupFollows, BackupTrusted, ManagerSteps
<1>4. CASE SyncBackupMode
  <2>1. /\ pc = "free" /\ Backup /\ UNCHANGED <<lastMode, life, backup, doubt>>
        /\ \/ pc' = "modeRestart"
           \/ pc' = "free" /\ files' \in PartlyRendered
    BY <1>4 DEF SyncBackupMode, panel, processes
  <2>. QED
    BY <1>1, <1>2, <2>1 DEF StartForgetsMode, ModeNeedsBackup, BackupFollows, BackupTrusted,
        ManagerSteps
<1>5. CASE RestartBackupMode
  <2>1. /\ pc = "modeRestart" /\ pc' = "free" /\ UNCHANGED <<life, files>>
        /\ backup' = files.backup \/ "backup" \in doubt'
    BY <1>5 DEF RestartBackupMode, disk
  <2>. QED
    BY <1>1, <2>1 DEF StartForgetsMode, ModeNeedsBackup, BackupFollows, BackupTrusted, ManagerSteps
<1>6. CASE ManagerRender
  <2>1. /\ pc = "manage" /\ pc' \in {"managerSync", "free"}
        /\ UNCHANGED <<lastMode, life, backup, doubt>>
        /\ files' \in PartlyRendered \cup {[files EXCEPT !.config = Rendered]}
    BY <1>6 DEF ManagerRender, panel, processes
  <2>. QED
    BY <1>1, <1>2, <2>1 DEF StartForgetsMode, ModeNeedsBackup, BackupFollows, BackupTrusted,
        ManagerSteps
<1>7. CASE ManagerBegin \/ ManagerSync \/ ManagerRestart \/ ManagerCrash
  <2>1. /\ pc \in {"free"} \cup ManagerSteps /\ pc' \in {"free"} \cup ManagerSteps
        /\ UNCHANGED <<lastMode, life, files, backup, job>>
    BY <1>7 DEF ManagerBegin, ManagerSync, ManagerRestart, ManagerCrash, panel, disk, processes,
        ManagerSteps
  <2>2. "backup" \in doubt => "backup" \in doubt'
    BY <1>7 DEF ManagerBegin, ManagerSync, ManagerRestart, ManagerCrash, ManagerGivesUp
  <2>. QED
    BY <2>1, <2>2, BackupUntouched
<1>8. CASE WatcherReload \/ Lapse \/ AiFlips
  <2>1. UNCHANGED <<lastMode, life, files, backup, job, doubt, pc>>
    BY <1>8 DEF WatcherReload, Lapse, AiFlips, panel, disk, processes
  <2>. QED
    BY <1>1, <2>1 DEF StartForgetsMode, ModeNeedsBackup, BackupFollows, BackupTrusted
<1>9. CASE PanelCrash
  <2>1. life' = "down" /\ UNCHANGED lastMode /\ pc' # "modeRestart"
    BY <1>1, <1>9 DEF PanelCrash, PanelSteps, ManagerSteps
  <2>. QED
    BY <1>1, <2>1 DEF StartForgetsMode, ModeNeedsBackup, BackupFollows, BackupTrusted
<1>. QED
  BY <1>3, <1>4, <1>5, <1>6, <1>7, <1>8, <1>9 DEF ManagerStep

\* Whatever fails on the way, a backup whose reload was not reported as failed
\* runs the file on disk whenever no writer is at work: a rollback that put the
\* file back has also had the process load it.
THEOREM BackupRuns == Spec => []BackupRunsItsFile
<1>1. Init => BInv
  BY FilesInitially DEF Init, BInv, StartForgetsMode, ModeNeedsBackup, BackupFollows, BackupTrusted
<1>2. BInv /\ [Next]_vars => BInv'
  <2>1. BInv /\ UNCHANGED vars => StartForgetsMode' /\ ModeNeedsBackup' /\ BackupFollows'
    BY DEF BInv, vars, panel, disk, processes, StartForgetsMode, ModeNeedsBackup, BackupFollows,
        BackupTrusted
  <2>2. BInv /\ Next => StartForgetsMode' /\ ModeNeedsBackup' /\ BackupFollows'
    BY ApplyBackup, BootBackup, OthersBackup DEF Next
  <2>. QED
    BY <2>1, <2>2, FilesStep DEF BInv
<1>3. BInv => BackupRunsItsFile
  BY DEF BInv, BackupFollows, BackupTrusted, BackupRunsItsFile, AtRest
<1>. QED
  BY <1>1, <1>2, <1>3, PTL DEF Spec

-----------------------------------------------------------------------------
(* The data plane serves what is committed.                                 *)

\* Nothing was reported, and what died has been made up for by the next start
\* or will be.
PlaneTrusted ==
    /\ ~External
    /\ doubt \cap {"plane", "missed"} = {}
    /\ "died" \in doubt => lapsed = {}

\* The startup's apply is the only one that does not reload, and it is there
\* because a port has expired.
StartupAppliesQuietly ==
    pc \in ApplySteps =>
        /\ (life = "up") = job.reload
        /\ life # "up" => lapsed # {}
        /\ (pc = "restart" \/ job.planeTried) => job.reload

DeathsNoted == life # "up" => ("died" \in doubt /\ (Remote \/ "missed" \in doubt))

\* From the upload on, the node has the file that a restart would load.
Uploaded ==
    pc \in {"backup", "restart", "settle", "commit", "managerRestart", "bootRestart"} =>
        (Remote => node = files.config)

\* The rollback works from what was saved, and what has not changed is the same.
RollbackKnows ==
    /\ pc \in {"undoBackup", "undoPlane"} => files = job.saved
    /\ (pc = "backup" /\ ~job.changed) => job.saved.config.ports = files.config.ports

SavedPorts == job.saved.config.ports

\* While the panel is up: the process serves what the node has and the file says,
\* until an apply uploads; then what the apply found, until it is restarted; and
\* when the apply fails, either of them.
UpServes ==
    (PlaneTrusted /\ life = "up") =>
        /\ pc \in {"free", "snapshot", "modeRestart"} \cup ManagerSteps =>
                /\ Remote => node.ports = files.config.ports
                /\ running.ports = files.config.ports
        /\ (Remote /\ pc \in {"render", "test"}) => node.ports = SavedPorts
        /\ pc \in {"render", "test", "backup", "restart"} => running.ports = SavedPorts
        /\ pc \in {"settle", "commit"} => running.ports = files.config.ports
        /\ pc \in {"settle", "commit", "undo", "undoBackup", "undoPlane"} =>
                (job.planeTried \/ running.ports = SavedPorts)
        /\ pc \in {"undo", "undoBackup", "undoPlane"} =>
                (Remote => running.ports \in {SavedPorts, node.ports})

\* While it is not: the process serves what the node has, so that an upload by the
\* startup is noticed if it changes anything, or what the database says.
DownServes ==
    (PlaneTrusted /\ life # "up" /\ pc \notin {"managerRestart", "bootRestart"}) =>
        running.ports \in {node.ports, db}

PInv ==
    /\ FInv /\ StartupAppliesQuietly /\ DeathsNoted /\ Uploaded /\ RollbackKnows
    /\ UpServes /\ DownServes

LEMMA QuietStep ==
    ASSUME PInv, Next
    PROVE  StartupAppliesQuietly'
<1>1. /\ StartupAppliesQuietly /\ LifeMatches /\ job \in Job
  BY DEF PInv, FInv, TypeOK
<1>2. ASSUME NEW tx, NEW reload \in BOOLEAN, Begin(tx, reload),
             reload = (life = "up"), reload \/ lapsed # {}
      PROVE  StartupAppliesQuietly'
  BY <1>1, <1>2 DEF Begin, StartupAppliesQuietly, ApplySteps, Job, panel, world
<1>3. CASE ApplyMutation \/ DisableAutoStopped \/ BootDisable
  BY <1>2, <1>3 DEF ApplyMutation, DisableAutoStopped, BootDisable
<1>4. CASE ApplyStep
  <2>1. pc \in ApplySteps /\ UNCHANGED lapsed
    BY <1>4 DEF ApplyStep, Snapshot, Render, Test, RestartBackup, RestartDataPlane, Settle,
        Commit, UndoFiles, UndoBackup, UndoPlane, ApplySteps, world
  <2>2. job'.reload = job.reload
    BY <1>1, <1>4 DEF ApplyStep, Snapshot, Render, Test, RestartBackup, RestartDataPlane, Settle,
        Commit, UndoFiles, UndoBackup, UndoPlane, Job
  <2>3. CASE Commit \/ UndoPlane
    BY <1>1, <2>1, <2>3 DEF Commit, UndoPlane, Abort, StartupAppliesQuietly, ApplySteps
  <2>4. CASE ~Commit /\ ~UndoPlane
    <3>1. UNCHANGED life
      BY <1>4, <2>4 DEF ApplyStep, Snapshot, Render, Test, RestartBackup, RestartDataPlane,
          Settle, UndoFiles, UndoBackup, panel
    <3>2. (pc' = "restart" /\ pc # "restart") => job.reload
      BY <1>4, <2>4 DEF ApplyStep, Snapshot, Render, Test, RestartBackup, RestartDataPlane,
          Settle, UndoFiles, UndoBackup, AfterBackup, RestartNeeded, Abort
    <3>3. job'.planeTried => job.planeTried \/ pc = "restart"
      BY <1>1, <1>4, <2>4 DEF ApplyStep, Snapshot, Render, Test, RestartBackup, RestartDataPlane,
          Settle, UndoFiles, UndoBackup, Job
    <3>. QED
      BY <1>1, <2>1, <2>2, <3>1, <3>2, <3>3 DEF StartupAppliesQuietly
  <2>. QED
    BY <2>3, <2>4
<1>5. CASE SyncBackupMode \/ RestartBackupMode \/ BootRender \/ BootTest \/ BootRestart
  <2>1. pc' \notin ApplySteps
    BY <1>5 DEF SyncBackupMode, RestartBackupMode, BootRender, BootTest, BootRestart, ApplySteps
  <2>. QED
    BY <2>1 DEF StartupAppliesQuietly
<1>6. CASE BootCleanUp \/ BootNothingToDisable \/ BootLockBusy
  <2>1. pc' \notin ApplySteps
    BY <1>1, <1>6 DEF BootCleanUp, BootNothingToDisable, BootLockBusy, LifeMatches, ManagerSteps,
        ApplySteps
  <2>. QED
    BY <2>1 DEF StartupAppliesQuietly
<1>7. CASE ManagerBegin \/ ManagerStep \/ ManagerCrash
  <2>1. pc' \notin ApplySteps
    BY <1>7 DEF ManagerBegin, ManagerStep, ManagerRender, ManagerSync, ManagerRestart,
        ManagerCrash, ApplySteps
  <2>. QED
    BY <2>1 DEF StartupAppliesQuietly
<1>8. CASE PanelCrash
  <2>1. pc' \notin ApplySteps
    BY <1>8 DEF PanelCrash, PanelSteps, ApplySteps
  <2>. QED
    BY <2>1 DEF StartupAppliesQuietly
<1>9. CASE WatcherReload \/ Lapse \/ AiFlips
  <2>1. UNCHANGED <<pc, life, job>> /\ lapsed \subseteq lapsed'
    BY <1>9 DEF WatcherReload, Lapse, AiFlips, panel, world
  <2>. QED
    BY <1>1, <2>1 DEF StartupAppliesQuietly
<1>. QED
  BY <1>3, <1>4, <1>5, <1>6, <1>7, <1>8, <1>9 DEF Next, BootStep

\* Only a panel that is up, or becomes it, has seen the data plane load.
LEMMA DeathsStep ==
    ASSUME PInv, Next
    PROVE  DeathsNoted'
<1>1. /\ StartupAppliesQuietly /\ DeathsNoted /\ job \in Job
      /\ pc = "bootTest" => life = "write"
  BY DEF PInv, FInv, TypeOK, LifeMatches
<1>2. CASE PanelCrash
  BY <1>2 DEF PanelCrash, PanelDied, DeathsNoted
<1>3. CASE ~PanelCrash
  <2>1. life' # "up" => life # "up"
    BY <1>1, <1>3 DEF Next, ApplyMutation, DisableAutoStopped, Begin, ApplyStep, Snapshot, Render,
        Test, RestartBackup, RestartDataPlane, Settle, Commit, Finished, UndoFiles, UndoBackup,
        UndoPlane, SyncBackupMode, RestartBackupMode, BootStep, BootCleanUp,
        BootNothingToDisable, BootDisable, BootLockBusy, BootRender, BootTest, BootRestart,
        ManagerBegin, ManagerStep, ManagerRender, ManagerSync, ManagerRestart, WatcherReload,
        Lapse, AiFlips, ManagerCrash, panel
  <2>2. life' # "up" => doubt \ {"plane", "backup"} \subseteq doubt'
    <3>1. CASE RestartDataPlane
      BY <1>1, <2>1, <3>1 DEF RestartDataPlane, panel, StartupAppliesQuietly, ApplySteps
    <3>2. CASE UndoPlane
      BY <1>1, <2>1, <3>2 DEF UndoPlane, StartupAppliesQuietly, ApplySteps
    <3>3. CASE ~RestartDataPlane /\ ~UndoPlane
      BY <1>3, <3>3 DEF Next, ApplyMutation, DisableAutoStopped, Begin, ApplyStep, Snapshot,
          Render, Test, RestartBackup, Settle, Commit, UndoFiles, UndoBackup,
          SyncBackupMode, RestartBackupMode, BootStep, BootCleanUp,
          BootNothingToDisable, BootDisable, BootLockBusy, BootRender, BootTest, BootRestart,
          ManagerBegin, ManagerStep, ManagerRender, ManagerSync, ManagerRestart, ManagerGivesUp,
          WatcherReload, Lapse, AiFlips, ManagerCrash
    <3>. QED
      BY <3>1, <3>2, <3>3
  <2>. QED
    BY <1>1, <2>1, <2>2 DEF DeathsNoted
<1>. QED
  BY <1>2, <1>3

LEMMA UploadedStep ==
    ASSUME PInv, Next
    PROVE  Uploaded' /\ RollbackKnows'
<1>. USE DEF Uploaded, RollbackKnows
<1>1. /\ Uploaded /\ RollbackKnows /\ job \in Job
  BY DEF PInv, FInv, TypeOK
<1>2. CASE Snapshot \/ Render
  BY <1>2 DEF Snapshot, Render, Abort
<1>3. CASE Test
  BY <1>1, <1>3 DEF Test, ConfigChanged, AfterBackup, Abort, Job
<1>4. CASE RestartBackup \/ RestartDataPlane \/ Settle \/ Commit
  <2>1. /\ pc \in {"backup", "restart", "settle", "commit"}
        /\ pc' \in {"restart", "settle", "commit", "free", "undo"}
        /\ UNCHANGED <<node, files>>
    BY <1>4 DEF RestartBackup, RestartDataPlane, Settle, Commit, AfterBackup, Abort, disk, processes
  <2>. QED
    BY <1>1, <2>1
<1>5. CASE UndoFiles \/ UndoBackup
  <2>1. /\ pc' \in {"undoBackup", "undoPlane"} /\ files' = job'.saved
    BY <1>1, <1>5 DEF UndoFiles, UndoBackup, disk
  <2>. QED
    BY <2>1
<1>6. CASE UndoPlane \/ ApplyMutation \/ DisableAutoStopped \/ SyncBackupMode \/ RestartBackupMode
  BY <1>6 DEF UndoPlane, ApplyMutation, DisableAutoStopped, Begin, SyncBackupMode, RestartBackupMode
<1>7. CASE BootCleanUp \/ BootNothingToDisable \/ BootLockBusy \/ Lapse \/ AiFlips \/ WatcherReload
  <2>1. UNCHANGED <<pc, job, node, files>>
    BY <1>7 DEF BootCleanUp, BootNothingToDisable, BootLockBusy, Lapse, AiFlips, WatcherReload,
        disk, processes
  <2>. QED
    BY <1>1, <2>1
<1>8. CASE BootDisable \/ BootRender \/ BootRestart
  BY <1>8 DEF BootDisable, Begin, BootRender, BootRestart
<1>9. CASE BootTest
  BY <1>9 DEF BootTest, disk
<1>10. CASE ManagerBegin \/ ManagerRender \/ ManagerRestart \/ ManagerCrash
  BY <1>10 DEF ManagerBegin, ManagerRender, ManagerRestart, ManagerCrash
<1>11. CASE ManagerSync
  BY <1>11 DEF ManagerSync
<1>12. CASE PanelCrash
  <2>1. pc' \in {"free", pc} \ PanelSteps /\ UNCHANGED <<node, files>>
    BY <1>12 DEF PanelCrash, PanelSteps, disk, processes
  <2>. QED
    BY <1>1, <2>1 DEF PanelSteps
<1>. QED
  BY <1>2, <1>3, <1>4, <1>5, <1>6, <1>7, <1>8, <1>9, <1>10, <1>11, <1>12
     DEF Next, ApplyStep, BootStep, ManagerStep

\* Trust is not regained by anything that leaves the marks or adds to them.
LEMMA TrustKept ==
    ASSUME PlaneTrusted', doubt \ {"backup"} \subseteq doubt', lapsed \subseteq lapsed'
    PROVE  PlaneTrusted
  BY DEF PlaneTrusted

\* What the rendering outside of an apply leaves as it is.
LEMMA RenderKeepsPorts ==
    ASSUME TypeOK, Follows(files)
    PROVE  \A f \in PartlyRendered \cup {WithRendered, [files EXCEPT !.config = Rendered]} :
                f.config.ports = files.config.ports
<1>1. files.config.ports = files.inventory
  BY DEF Follows
<1>2. \A f \in PartlyRendered \cup {WithRendered, [files EXCEPT !.config = Rendered]} :
            Follows(f) /\ f.inventory = files.inventory
  BY RenderFollows
<1>. QED
  BY <1>1, <1>2 DEF Follows

LEMMA ApplyServes ==
    ASSUME PInv, ApplyStep
    PROVE  UpServes'
<1>. SUFFICES ASSUME PlaneTrusted', life' = "up"
              PROVE  UpServes'
  BY DEF UpServes
<1>. USE DEF ManagerSteps, SavedPorts
<1>1. /\ UpServes /\ Uploaded /\ RollbackKnows /\ StartupAppliesQuietly
      /\ job \in Job /\ files \in Files
      /\ ~External
  BY DEF PInv, FInv, TypeOK, PlaneTrusted
<1>2. pc \in ApplySteps /\ UNCHANGED lapsed
  BY DEF ApplyStep, Snapshot, Render, Test, RestartBackup, RestartDataPlane, Settle, Commit,
      UndoFiles, UndoBackup, UndoPlane, ApplySteps, world
<1>3. life = "up" /\ job.reload
  <2>1. life = "up"
    BY DEF ApplyStep, Snapshot, Render, Test, RestartBackup, RestartDataPlane, Settle, Commit,
        UndoFiles, UndoBackup, UndoPlane, panel, Finished
  <2>. QED
    BY <1>1, <1>2, <2>1 DEF StartupAppliesQuietly
<1>4. doubt \ {"backup"} \subseteq doubt' => PlaneTrusted
  BY <1>2, TrustKept
<1>5. CASE Snapshot
  <2>1. /\ pc = "snapshot" /\ pc' = "render" /\ job'.saved = files
        /\ UNCHANGED <<node, running, doubt>>
    BY <1>1, <1>5 DEF Snapshot, processes, Job
  <2>. QED
    BY <1>1, <1>3, <1>4, <2>1 DEF UpServes
<1>6. CASE Render
  <2>1. /\ pc = "render" /\ pc' \in {"test", "undo"}
        /\ UNCHANGED <<node, running, doubt, job>>
    BY <1>6 DEF Render, Abort, processes
  <2>. QED
    BY <1>1, <1>3, <1>4, <2>1 DEF UpServes
<1>7. CASE Test
  <2>1. /\ pc = "test" /\ pc' \in {"backup", "restart", "settle", "undo"}
        /\ pc' = "settle" => ~ConfigChanged
        /\ job'.saved = job.saved /\ job'.planeTried = job.planeTried
        /\ UNCHANGED <<running, doubt, files>>
    BY <1>1, <1>3, <1>7 DEF Test, AfterBackup, RestartNeeded, Abort, Job
  <2>2. pc' = "settle" => job.saved.config = files.config
    BY <2>1 DEF ConfigChanged
  <2>. QED
    BY <1>1, <1>3, <1>4, <2>1, <2>2 DEF UpServes
<1>8. CASE RestartBackup
  <2>1. /\ pc = "backup" /\ pc' \in {"restart", "settle", "undo"}
        /\ pc' = "settle" => ~job.changed
        /\ job'.saved = job.saved /\ job'.planeTried = job.planeTried
        /\ UNCHANGED <<running, node, files>>
        /\ doubt \ {"backup"} \subseteq doubt'
    BY <1>1, <1>3, <1>8 DEF RestartBackup, AfterBackup, RestartNeeded, Abort, Job, disk
  <2>. QED
    BY <1>1, <1>3, <1>4, <2>1 DEF UpServes, RollbackKnows
<1>9. CASE RestartDataPlane
  <2>1. /\ pc = "restart" /\ job'.planeTried /\ job'.saved = job.saved
        /\ UNCHANGED <<node, files>>
        /\ \/ running' = Target /\ pc' = "settle"
           \/ running' \in {running, Target} /\ pc' = "undo" /\ UNCHANGED doubt
    BY <1>1, <1>9 DEF RestartDataPlane, EitherLoaded, Abort, Job, disk
  <2>2. Target.ports = files.config.ports /\ (Remote => Target = node)
    BY <1>1, <2>1 DEF Target, Uploaded
  <2>. QED
    BY <1>1, <1>3, <1>4, <2>1, <2>2 DEF UpServes
<1>10. CASE Settle \/ Commit
  <2>1. /\ pc \in {"settle", "commit"} /\ pc' \in {"commit", "free", "undo"}
        /\ UNCHANGED <<node, running, files, doubt, job>>
    BY <1>10 DEF Settle, Commit, Abort, disk, processes
  <2>. QED
    BY <1>1, <1>3, <1>4, <2>1 DEF UpServes, Uploaded
<1>11. CASE UndoFiles \/ UndoBackup
  <2>1. /\ pc \in {"undo", "undoBackup"} /\ pc' \in {"undoBackup", "undoPlane"}
        /\ UNCHANGED <<node, running, job>>
        /\ doubt \ {"backup"} \subseteq doubt'
    BY <1>11 DEF UndoFiles, UndoBackup, processes
  <2>. QED
    BY <1>1, <1>3, <1>4, <2>1 DEF UpServes
<1>12. CASE UndoPlane
  <2>1. /\ pc = "undoPlane" /\ pc' = "free" /\ files' = files /\ files = job.saved
    BY <1>1, <1>12 DEF UndoPlane, disk, RollbackKnows
  <2>2. "plane" \notin doubt'
    BY DEF PlaneTrusted
  <2>3. /\ Remote => node' = files'.config
        /\ \/ job.planeTried /\ running' = TargetAfter
           \/ ~job.planeTried /\ UNCHANGED <<running, doubt>>
    BY <1>1, <1>12, <2>1, <2>2 DEF UndoPlane, Job
  <2>4. running'.ports = files'.config.ports
    BY <1>1, <1>3, <1>4, <2>1, <2>3 DEF TargetAfter, UpServes
  <2>. QED
    BY <2>1, <2>3, <2>4 DEF UpServes
<1>. QED
  BY <1>5, <1>6, <1>7, <1>8, <1>9, <1>10, <1>11, <1>12 DEF ApplyStep

\* A start that finds the node as it should be also finds the process so.
LEMMA BootServes ==
    ASSUME PInv, BootStep
    PROVE  UpServes'
<1>. SUFFICES ASSUME PlaneTrusted', life' = "up"
              PROVE  UpServes'
  BY DEF UpServes
<1>. USE DEF ManagerSteps
<1>1. /\ DownServes /\ Uploaded /\ DeathsNoted
      /\ pc \in {"bootTest", "bootRestart"} => life = "write" /\ Follows(files)
  BY DEF PInv, FInv, LifeMatches, FilesFollow
<1>2. ~External /\ doubt' \cap {"plane", "missed"} = {}
  BY DEF PlaneTrusted
<1>3. BootTest \/ BootRestart
  BY DEF BootStep, BootCleanUp, BootNothingToDisable, BootDisable, Begin, BootLockBusy, BootRender,
      panel
<1>4. CASE BootTest
  <2>1. /\ pc = "bootTest" /\ pc' = "free" /\ UNCHANGED <<db, lapsed, files, running, doubt>>
        /\ node' = IF Remote THEN files.config ELSE node
        /\ ~(Remote /\ node # files.config)
    BY <1>1, <1>2, <1>4 DEF BootTest, disk, world
  <2>2. PlaneTrusted
    BY <2>1, TrustKept
  <2>3. Remote /\ lapsed = {}
    BY <1>1, <1>2, <2>1, <2>2 DEF DeathsNoted, PlaneTrusted
  <2>4. running.ports \in {node.ports, db} /\ node = files.config /\ files.config.ports = db
    BY <1>1, <2>1, <2>2, <2>3 DEF DownServes, Follows
  <2>. QED
    BY <2>1, <2>3, <2>4 DEF UpServes
<1>5. CASE BootRestart
  <2>1. /\ pc = "bootRestart" /\ pc' = "free" /\ UNCHANGED <<files, node>> /\ running' = Target
    BY <1>2, <1>5 DEF BootRestart, disk
  <2>. QED
    BY <1>1, <2>1 DEF UpServes, Uploaded, Target
<1>. QED
  BY <1>3, <1>4, <1>5

LEMMA OthersServe ==
    ASSUME PInv,
           \/ ApplyMutation \/ DisableAutoStopped \/ SyncBackupMode \/ RestartBackupMode
           \/ ManagerBegin \/ ManagerStep
           \/ WatcherReload \/ Lapse \/ AiFlips \/ PanelCrash \/ ManagerCrash
    PROVE  UpServes'
<1>. SUFFICES ASSUME PlaneTrusted', life' = "up"
              PROVE  UpServes'
  BY DEF UpServes
<1>. USE DEF ManagerSteps
<1>1. /\ UpServes /\ Uploaded /\ TypeOK /\ ~External
      /\ (life = "up" /\ pc \in {"free"} \cup ManagerSteps) => Follows(files)
  BY DEF PInv, FInv, FilesFollow, PlaneTrusted
<1>2. life = "up" /\ lapsed \subseteq lapsed'
  BY DEF ApplyMutation, DisableAutoStopped, Begin, SyncBackupMode, RestartBackupMode,
      ManagerBegin, ManagerStep, ManagerRender, ManagerSync, ManagerRestart, WatcherReload, Lapse,
      AiFlips, PanelCrash, ManagerCrash, panel, world
<1>3. doubt \ {"backup"} \subseteq doubt' => PlaneTrusted
  BY <1>2, TrustKept
<1>4. CASE ApplyMutation \/ DisableAutoStopped \/ ManagerBegin
  <2>1. /\ pc = "free" /\ pc' \in {"snapshot", "manage"}
        /\ UNCHANGED <<files, node, running, doubt>>
    BY <1>4 DEF ApplyMutation, DisableAutoStopped, Begin, ManagerBegin, disk, processes
  <2>. QED
    BY <1>1, <1>2, <1>3, <2>1 DEF UpServes
<1>5. CASE SyncBackupMode \/ ManagerRender
  <2>1. /\ pc \in {"free", "manage"} /\ pc' \in {"free", "modeRestart", "managerSync"}
        /\ files' \in PartlyRendered \cup {WithRendered, [files EXCEPT !.config = Rendered]}
        /\ UNCHANGED <<node, running, doubt>>
    BY <1>5 DEF SyncBackupMode, ManagerRender, processes
  <2>2. files'.config.ports = files.config.ports
    BY <1>1, <1>2, <2>1, RenderKeepsPorts
  <2>. QED
    BY <1>1, <1>2, <1>3, <2>1, <2>2 DEF UpServes
<1>6. CASE RestartBackupMode
  <2>1. /\ pc = "modeRestart" /\ pc' = "free" /\ UNCHANGED <<files, node, running>>
        /\ doubt \ {"backup"} \subseteq doubt'
    BY <1>6 DEF RestartBackupMode, disk
  <2>. QED
    BY <1>1, <1>2, <1>3, <2>1 DEF UpServes
<1>7. CASE ManagerSync
  <2>1. /\ pc = "managerSync" /\ pc' \in {"free", "managerRestart"}
        /\ UNCHANGED <<files, running, doubt>>
        /\ Remote => node' \in {node, files.config}
    BY <1>2, <1>7 DEF ManagerSync, EitherLoaded, ManagerGivesUp
  <2>. QED
    BY <1>1, <1>2, <1>3, <2>1 DEF UpServes
<1>8. CASE ManagerRestart
  <2>1. /\ pc = "managerRestart" /\ pc' = "free" /\ UNCHANGED <<files, node>>
        /\ \/ running' = Target
           \/ running' \in {running, Target} /\ UNCHANGED doubt
    BY <1>2, <1>8 DEF ManagerRestart, EitherLoaded, ManagerGivesUp
  <2>2. Target.ports = files.config.ports /\ (Remote => node = files.config)
    BY <1>1, <2>1 DEF Target, Uploaded
  <2>. QED
    BY <1>1, <1>2, <1>3, <2>1, <2>2 DEF UpServes
<1>9. CASE Lapse \/ AiFlips
  <2>1. UNCHANGED <<pc, job, files, node, running, doubt>>
    BY <1>9 DEF Lapse, AiFlips, disk, processes
  <2>. QED
    BY <1>1, <1>2, <1>3, <2>1 DEF UpServes, SavedPorts
<1>10. CASE ManagerCrash
  <2>1. /\ pc \in ManagerSteps /\ pc' = "free" /\ UNCHANGED <<files, node, running, doubt>>
    BY <1>2, <1>10 DEF ManagerCrash, ManagerGivesUp, disk, processes
  <2>. QED
    BY <1>1, <1>2, <1>3, <2>1 DEF UpServes
<1>11. ~WatcherReload /\ ~PanelCrash
  BY <1>1 DEF WatcherReload, PanelCrash
<1>. QED
  BY <1>4, <1>5, <1>6, <1>7, <1>8, <1>9, <1>10, <1>11 DEF ManagerStep

\* A death that leaves the next start something to make up for.
LEMMA DeathServes ==
    ASSUME PInv, PanelCrash, PlaneTrusted', pc' \notin {"managerRestart", "bootRestart"}
    PROVE  running'.ports \in {node'.ports, db'}
<1>. USE DEF ManagerSteps, SavedPorts
<1>1. /\ UpServes /\ DownServes /\ Uploaded /\ RollbackKnows /\ LifeMatches /\ FilesFollow
      /\ SavedFollow /\ pc \in {"free"} \cup PanelSteps \cup ManagerSteps
      /\ pc = "managerRestart" => pc' = pc
  BY DEF PInv, FInv, TypeOK, PanelCrash, PanelSteps
<1>2. /\ UNCHANGED <<db, lapsed, running, node>>
      /\ doubt \subseteq doubt' /\ "died" \in doubt' /\ Remote /\ pc # "bootRestart"
  BY DEF PanelCrash, PanelDied, processes, world, PlaneTrusted
<1>3. PlaneTrusted /\ lapsed = {}
  BY <1>2, TrustKept DEF PlaneTrusted
<1>4. \A f : Follows(f) => f.config.ports = db
  BY <1>3 DEF Follows
<1>5. CASE life # "up"
  BY <1>1, <1>2, <1>3, <1>5 DEF DownServes
<1>6. CASE life = "up" /\ pc \in {"free", "snapshot", "modeRestart", "render", "test",
                                  "settle", "commit"} \cup ManagerSteps
  BY <1>1, <1>2, <1>3, <1>6 DEF UpServes, Uploaded
<1>7. CASE life = "up" /\ pc \in {"backup", "restart"}
  BY <1>1, <1>2, <1>3, <1>4, <1>7 DEF UpServes, SavedFollow
<1>8. CASE life = "up" /\ pc \in {"undo", "undoBackup", "undoPlane"}
  <2>1. SavedPorts = db
    BY <1>1, <1>4, <1>8 DEF SavedFollow, FilesFollow, RollbackKnows
  <2>. QED
    BY <1>1, <1>2, <1>3, <1>8, <2>1 DEF UpServes
<1>9. CASE life = "up" /\ pc = "bootTest"
  BY <1>1, <1>9 DEF LifeMatches
<1>. QED
  BY <1>1, <1>2, <1>5, <1>6, <1>7, <1>8, <1>9 DEF PanelSteps

LEMMA DownStep ==
    ASSUME PInv, DeathsNoted', Next
    PROVE  DownServes'
<1>. SUFFICES ASSUME PlaneTrusted', life' # "up", pc' \notin {"managerRestart", "bootRestart"}
              PROVE  running'.ports \in {node'.ports, db'}
  BY DEF DownServes
<1>1. /\ DownServes /\ Uploaded /\ StartupAppliesQuietly
      /\ pc \in {"bootTest", "bootRestart"} => life = "write"
  BY DEF PInv, FInv, LifeMatches
<1>2. ~External /\ "missed" \notin doubt' /\ Remote /\ lapsed' = {} /\ "died" \in doubt'
  BY DEF PlaneTrusted, DeathsNoted
<1>3. doubt \ {"backup"} \subseteq doubt' /\ lapsed \subseteq lapsed' => PlaneTrusted
  BY TrustKept
<1>4. CASE ApplyStep
  <2>1. life # "up"
    BY <1>4 DEF ApplyStep, Snapshot, Render, Test, RestartBackup, RestartDataPlane, Settle, Commit,
        Finished, UndoFiles, UndoBackup, UndoPlane, panel
  <2>2. pc \in ApplySteps /\ UNCHANGED lapsed
    BY <1>4 DEF ApplyStep, Snapshot, Render, Test, RestartBackup, RestartDataPlane, Settle, Commit,
        UndoFiles, UndoBackup, UndoPlane, ApplySteps, world
  <2>. QED
    BY <1>1, <1>2, <2>1, <2>2 DEF StartupAppliesQuietly
<1>5. CASE BootCleanUp
  <2>1. /\ life = "down" /\ UNCHANGED <<lapsed, running, node, doubt, pc>>
        /\ db' = db \ (lapsed \ Sold)
    BY <1>5 DEF BootCleanUp, processes, world
  <2>. QED
    BY <1>1, <1>2, <1>3, <2>1 DEF DownServes
<1>6. CASE BootNothingToDisable \/ BootLockBusy \/ BootRender
  <2>1. /\ life # "up" /\ pc \notin {"managerRestart", "bootRestart"}
        /\ UNCHANGED <<db, lapsed, running, node, doubt>>
    BY <1>6 DEF BootNothingToDisable, BootLockBusy, BootRender, processes, world
  <2>. QED
    BY <1>1, <1>3, <2>1 DEF DownServes
<1>7. ~BootDisable /\ ~BootTest /\ ~BootRestart
  <2>1. BootDisable => db \cap lapsed' # {}
    BY DEF BootDisable, Begin, world
  <2>. QED
    BY <1>2, <2>1 DEF BootTest, BootRestart
<1>8. CASE ManagerBegin \/ ManagerRender \/ AiFlips
  <2>1. /\ UNCHANGED <<db, life, lapsed, running, node, doubt>>
        /\ pc \in {"free", "manage"} \/ pc' = pc
    BY <1>8 DEF ManagerBegin, ManagerRender, AiFlips, panel, processes, world
  <2>. QED
    BY <1>1, <1>3, <2>1 DEF DownServes
<1>9. CASE ManagerSync
  <2>1. /\ pc = "managerSync" /\ UNCHANGED <<db, life, lapsed, running, doubt>>
        /\ node' = files.config /\ ~(Remote /\ node # files.config)
    BY <1>2, <1>9 DEF ManagerSync, ManagerGivesUp, panel, world
  <2>. QED
    BY <1>1, <1>2, <1>3, <2>1 DEF DownServes
<1>10. CASE ManagerRestart
  <2>1. running' = Target /\ UNCHANGED node
    BY <1>2, <1>10 DEF ManagerRestart, ManagerGivesUp, panel
  <2>. QED
    BY <1>2, <2>1 DEF Target
<1>11. CASE PanelCrash
  BY <1>11, DeathServes
<1>12. ~WatcherReload /\ ~Lapse /\ ~ManagerCrash
  BY <1>2 DEF WatcherReload, Lapse, ManagerCrash, ManagerGivesUp, panel
<1>13. ~ApplyMutation /\ ~DisableAutoStopped /\ ~SyncBackupMode /\ ~RestartBackupMode
  <2>1. pc = "modeRestart" => life = "up"
    BY DEF PInv, FInv, LifeMatches
  <2>. QED
    BY <2>1 DEF ApplyMutation, DisableAutoStopped, Begin, SyncBackupMode, RestartBackupMode, panel
<1>. QED
  BY <1>4, <1>5, <1>6, <1>7, <1>8, <1>9, <1>10, <1>11, <1>12, <1>13 DEF Next, BootStep, ManagerStep

\* In direct mode, whenever no writer is at work, the node's file and the data plane
\* process serve the ports of the committed configuration, whatever failed, was
\* rolled back or died on the way, unless a failed reload or rollback was reported,
\* a death left an upload that no start reloads for, or a port has expired since
\* a death.
THEOREM CommittedServed == Spec => []CommittedPortsServed
<1>1. Init => PInv
  <2>1. Init => FInv
    BY FilesInitially
  <2>. QED
    BY <2>1 DEF Init, PInv, StartupAppliesQuietly, ApplySteps, DeathsNoted, Uploaded, RollbackKnows,
        UpServes, DownServes
<1>2. PInv /\ [Next]_vars => PInv'
  <2>. SUFFICES ASSUME PInv, [Next]_vars
                PROVE  PInv'
    OBVIOUS
  <2>1. FInv'
    BY FilesStep DEF PInv
  <2>2. CASE Next
    <3>1. /\ StartupAppliesQuietly' /\ DeathsNoted' /\ Uploaded' /\ RollbackKnows'
      BY <2>2, QuietStep, DeathsStep, UploadedStep
    <3>2. UpServes'
      BY <2>2, ApplyServes, BootServes, OthersServe DEF Next
    <3>3. DownServes'
      BY <2>2, <3>1, DownStep
    <3>. QED
      BY <2>1, <3>1, <3>2, <3>3 DEF PInv
  <2>3. CASE UNCHANGED vars
    BY <2>1, <2>3 DEF vars, panel, disk, processes, world, PInv, StartupAppliesQuietly, DeathsNoted,
        Uploaded, RollbackKnows, UpServes, DownServes, PlaneTrusted, SavedPorts
  <2>. QED
    BY <2>2, <2>3
<1>3. PInv => CommittedPortsServed
  BY DEF PInv, UpServes, PlaneTrusted, CommittedPortsServed, AtRest
<1>. QED
  BY <1>1, <1>2, <1>3, PTL DEF Spec

-----------------------------------------------------------------------------
(* The pending marker.                                                      *)

\* A manager cycle that finds the marker, or sets it, remembers it.
PendingRemembered == pc = "managerSync" /\ marker => job.changed

MarkerInv == TypeOK /\ PendingRemembered

LEMMA RememberedStep ==
    ASSUME MarkerInv, Next
    PROVE  PendingRemembered'
<1>1. CASE pc' # "managerSync"
  BY <1>1 DEF PendingRemembered
<1>2. CASE pc' = "managerSync" /\ pc # "managerSync"
  <2>1. ~(SyncBackupMode \/ RestartBackupMode \/ BootStep)
    BY <1>2 DEF SyncBackupMode, RestartBackupMode, BootStep, BootCleanUp, BootNothingToDisable,
        BootDisable, Begin, BootLockBusy, BootRender, BootTest, BootRestart
  <2>2. ~(ApplyMutation \/ DisableAutoStopped \/ ApplyStep)
    BY <1>2 DEF ApplyMutation, DisableAutoStopped, Begin, ApplyStep, Snapshot, Render, Test,
        RestartBackup, RestartDataPlane, Settle, Commit, UndoFiles, UndoBackup, UndoPlane,
        Abort, AfterBackup
  <2>3. ~(WatcherReload \/ Lapse \/ AiFlips \/ PanelCrash \/ ManagerCrash)
    BY <1>2 DEF WatcherReload, Lapse, AiFlips, PanelCrash, ManagerCrash, PanelSteps
  <2>4. CASE ManagerRender
    BY <2>4 DEF ManagerRender, MarkerInv, TypeOK, Job, PendingRemembered
  <2>5. ~ManagerBegin /\ ~ManagerSync /\ ~ManagerRestart
    BY <1>2 DEF ManagerBegin, ManagerSync, ManagerRestart
  <2>. QED
    BY <2>1, <2>2, <2>3, <2>4, <2>5 DEF Next, ManagerStep
<1>3. CASE pc' = "managerSync" /\ pc = "managerSync"
  <2>1. job' = job /\ marker' \in {marker, FALSE}
    <3>1. ~(ApplyMutation \/ DisableAutoStopped \/ ApplyStep)
      BY <1>3 DEF ApplyMutation, DisableAutoStopped, Begin, ApplyStep, Snapshot, Render, Test,
          RestartBackup, RestartDataPlane, Settle, Commit, UndoFiles, UndoBackup, UndoPlane
    <3>2. ~(SyncBackupMode \/ RestartBackupMode \/ ManagerBegin \/ ManagerStep \/ ManagerCrash)
      BY <1>3 DEF SyncBackupMode, RestartBackupMode, ManagerBegin, ManagerStep, ManagerRender,
          ManagerSync, ManagerRestart, ManagerCrash
    <3>3. CASE BootStep
      BY <1>3, <3>3 DEF BootStep, BootCleanUp, BootNothingToDisable, BootDisable, Begin,
          BootLockBusy, BootRender, BootTest, BootRestart, disk
    <3>4. CASE WatcherReload \/ Lapse \/ AiFlips \/ PanelCrash
      BY <3>4 DEF WatcherReload, Lapse, AiFlips, PanelCrash, disk
    <3>. QED
      BY <3>1, <3>2, <3>3, <3>4 DEF Next
  <2>. QED
    BY <1>3, <2>1 DEF MarkerInv, PendingRemembered
<1>. QED
  BY <1>1, <1>2, <1>3

\* In external mode only a step that loads the configuration takes the marker away.
LEMMA MarkerStep ==
    ASSUME External, MarkerInv, Next, marker, ~marker'
    PROVE  running' = TargetAfter
<1>1. ~(ApplyMutation \/ DisableAutoStopped \/ ApplyStep)
  BY DEF ApplyMutation, DisableAutoStopped, Begin, ApplyStep, Snapshot, Render, Test,
      RestartBackup, RestartDataPlane, Settle, Commit, UndoFiles, UndoBackup, UndoPlane, disk
<1>2. ~(SyncBackupMode \/ RestartBackupMode \/ BootStep)
  BY DEF SyncBackupMode, RestartBackupMode, BootStep, BootCleanUp, BootNothingToDisable,
      BootDisable, Begin, BootLockBusy, BootRender, BootTest, BootRestart, disk
<1>3. ~(ManagerBegin \/ ManagerRender \/ ManagerSync)
  BY DEF ManagerBegin, ManagerRender, ManagerSync, MarkerInv, PendingRemembered
<1>4. CASE ManagerRestart
  BY <1>4 DEF ManagerRestart, Target, TargetAfter
<1>5. CASE WatcherReload
  BY <1>5 DEF WatcherReload, Target, TargetAfter
<1>6. ~(Lapse \/ AiFlips \/ PanelCrash \/ ManagerCrash)
  BY DEF Lapse, AiFlips, PanelCrash, ManagerCrash, disk
<1>. QED
  BY <1>1, <1>2, <1>3, <1>4, <1>5, <1>6 DEF Next, ManagerStep

\* With an external reloader the marker of a pending apply goes only in a step
\* that has the data plane load the configuration: no apply, no startup and no
\* manager cycle, successful or not, forgets a reload that is still owed.
THEOREM OwedReloadRemembered ==
    ASSUME External
    PROVE  Spec => MarkerClearedOnceLoaded
<1>1. Init => MarkerInv
  <2>1. Init => TypeOK
    BY InitTyped, BoundsAssumption
  <2>. QED
    BY <2>1 DEF Init, MarkerInv, PendingRemembered
<1>2. MarkerInv /\ [Next]_vars => MarkerInv'
  <2>1. MarkerInv /\ [Next]_vars => TypeOK'
    BY StepTyped, ModesAssumption, BoundsAssumption DEF MarkerInv
  <2>2. MarkerInv /\ UNCHANGED vars => PendingRemembered'
    BY DEF MarkerInv, PendingRemembered, vars, disk
  <2>. QED
    BY <2>1, <2>2, RememberedStep DEF MarkerInv
<1>3. MarkerInv /\ [Next]_vars => [marker /\ ~marker' => running' = TargetAfter]_vars
  BY MarkerStep
<1>. QED
  BY <1>1, <1>2, <1>3, PTL DEF Spec, MarkerClearedOnceLoaded
=============================================================================
