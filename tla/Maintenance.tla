---------------------------- MODULE Maintenance ----------------------------
(***************************************************************************)
(* What an executed restart job does between its start and its outcome,    *)
(* and the operations of the panel that touch the same world beside it:    *)
(* full backups, the browser restore and the browser's "game-apply".       *)
(*                                                                         *)
(* A build is a number; "package" is the one staged by Steam, "loaded" the *)
(* one the images and DUNE_IMAGE_TAG name. The world's data is a version   *)
(* of the database and one of the files; a running world moves both on.    *)
(* A command of restart-target.sh that outlives its timeout, or the panel  *)
(* that called it, still has its effect later: "strays" are those effects. *)
(*                                                                         *)
(* The reboot after an update is in RestartJobs, where a job that finds    *)
(* the operation lock taken is deferred too.                               *)
(***************************************************************************)
EXTENDS Naturals, FiniteSets

CONSTANTS
    Policies,       \* the update policies jobs have
    RequireReceipt, \* DUNE_UPDATE_REQUIRE_READINESS_RECEIPT
    Actors,         \* who acts beside the jobs
    MaxBuild,       \* bound: builds Steam stages
    MaxEdits,       \* bound: changes the running world makes
    MaxJobs,        \* bound: executed jobs
    MaxCrashes,     \* bound: panel deaths
    None

MaintenanceAssumption ==
    /\ Policies \subseteq {"current", "certified", "automatic"}
    /\ RequireReceipt \in BOOLEAN
    /\ Actors \subseteq {"steam", "capture", "restore", "apply", "stray"}
    /\ {MaxBuild, MaxEdits, MaxJobs, MaxCrashes} \subseteq Nat
    /\ None \notin {"job", "capture", "restore"}

HalfRestored == MaxEdits + 1    \* a database pg_restore has begun to replace

VARIABLES
    package, loaded, receipt,   \* the staged build, the loaded one, the newest receipt
    world, db, files, edits,    \* the game world and its data
    lock,                       \* operation.lock
    sets,                       \* verified backup sets
    job, capture, restore, apply,
    strays, jobs, crashes,
    stirred                     \* whose stopped world somebody else has moved since

builds == <<package, loaded, receipt>>
data == <<db, files, edits>>
vars ==
    <<builds, world, data, lock, sets, job, capture, restore, apply, strays, jobs, crashes, stirred>>

(* The data of a backup set, and what a job or a command's job took. *)
Here == [db |-> db, files |-> files]
Taken(by) == [db |-> by.db, files |-> by.files]

(* A world was started, or its data replaced, beside whoever had stopped it *)
(* and takes its data, the job or the restore.                              *)
Taking(w) == IF w = "job" THEN job.pc \in {"dump", "archive", "verify", "update"}
                          ELSE restore.pc \in {"capture", "load"}
Stir(who) == stirred' = stirred \cup {w \in who : Taking(w)}

IdleJob == [pc |-> "idle", policy |-> "current", action |-> "restart", backup |-> FALSE,
            update |-> FALSE, cand |-> 0, db |-> 0, files |-> 0, set |-> FALSE,
            failure |-> FALSE, start |-> "none", ok |-> FALSE]
IdleCapture == [pc |-> "idle", by |-> None, db |-> 0, files |-> 0]
Nothing == [db |-> 0, files |-> 0]
IdleRestore == [pc |-> "idle", set |-> Nothing, before |-> Nothing, stopped |-> FALSE, ok |-> FALSE]
IdleApply == [pc |-> "idle", cand |-> 0, ok |-> FALSE]

Init ==
    /\ package = 1 /\ loaded = 1 /\ receipt = None
    /\ world = "up" /\ db = 0 /\ files = 0 /\ edits = 0
    /\ lock = None /\ sets = {}
    /\ job = IdleJob /\ capture = IdleCapture /\ restore = IdleRestore /\ apply = IdleApply
    /\ strays = {} /\ jobs = 0 /\ crashes = 0 /\ stirred = {}

-----------------------------------------------------------------------------
(* The surroundings: Steam stages a build (the hotfix timer, or the        *)
(* browser's game-stage), the running world moves on.                      *)
Stage ==
    /\ "steam" \in Actors \/ job.pc \in {"idle", "ended", "lost"}
    /\ package < MaxBuild /\ package' = package + 1
    /\ UNCHANGED <<loaded, receipt, world, data, lock, sets, job, capture, restore, apply,
                   strays, jobs, crashes, stirred>>

Play ==
    /\ world = "up" /\ db # HalfRestored /\ edits < MaxEdits
    /\ edits' = edits + 1 /\ db' = edits + 1 /\ files' = edits + 1
    /\ UNCHANGED <<builds, world, lock, sets, job, capture, restore, apply, strays, jobs,
                   crashes, stirred>>

(* Update readiness: a receipt names the loaded and the staged build.      *)
Candidate == [from |-> loaded, to |-> package]

Certify ==
    /\ receipt # Candidate /\ receipt' = Candidate
    /\ UNCHANGED <<package, loaded, world, data, lock, sets, job, capture, restore, apply,
                   strays, jobs, crashes, stirred>>

ApplyReady == receipt = Candidate

-----------------------------------------------------------------------------
(* An executed job, under the operation lock from its preflight to its     *)
(* outcome.                                                                *)
AtJob(pc) == job.pc = pc
JobOnly == UNCHANGED <<capture, restore, apply, jobs, crashes>>

EndJob(new, ok) ==
    /\ job' = [new EXCEPT !.pc = "ended", !.ok = ok]
    /\ lock' = None

StartJob(policy, action, backup) ==
    /\ job.pc \in {"idle", "ended", "lost"} /\ jobs < MaxJobs
    /\ lock = None /\ lock' = "job"
    /\ jobs' = jobs + 1
    /\ job' = [IdleJob EXCEPT !.pc = "preflight", !.policy = policy, !.action = action,
                              !.backup = backup]
    /\ UNCHANGED <<builds, world, data, sets, capture, restore, apply, strays, crashes, stirred>>

(* restart_update_preflight. Under "certified" a farm that is not ready    *)
(* restarts on the current build; "automatic" is refused while receipts    *)
(* are required.                                                           *)
Preflight ==
    /\ AtJob("preflight") /\ JobOnly
    /\ UNCHANGED <<builds, world, data, sets, strays, stirred>>
    /\ \/ /\ job.policy = "current" \/ job.policy = "certified"
          /\ job' = [job EXCEPT !.pc = "disconnect"]
          /\ UNCHANGED lock
       \/ /\ job.policy = "certified" /\ package # loaded /\ ApplyReady
          /\ job' = [job EXCEPT !.pc = "disconnect", !.update = TRUE, !.cand = package]
          /\ UNCHANGED lock
       \/ /\ job.policy = "automatic"
          /\ IF RequireReceipt THEN EndJob(job, FALSE)
             ELSE /\ job' = [job EXCEPT !.pc = "disconnect", !.update = TRUE]
                  /\ UNCHANGED lock

Disconnect ==
    /\ AtJob("disconnect") /\ JobOnly
    /\ UNCHANGED <<builds, world, data, sets, strays, stirred>>
    /\ \/ job' = [job EXCEPT !.pc = "stop"] /\ UNCHANGED lock
       \/ EndJob(job, FALSE)

(* The stop phase. When it fails the job ends here, with the world as far  *)
(* down as the command got or is still getting.                            *)
Command(what) == [do |-> what, db |-> job.db, files |-> job.files]
Late(what) == IF "stray" \in Actors THEN {strays, strays \cup {Command(what)}} ELSE {strays}

StopWorld ==
    /\ AtJob("stop") /\ JobOnly
    /\ UNCHANGED <<builds, data, sets>>
    /\ \/ /\ world' = "down" /\ job' = [job EXCEPT !.pc = "dump"]
          /\ stirred' = stirred \ {"job"}
          /\ UNCHANGED <<lock, strays>>
       \/ /\ world' \in {world, "down"} /\ strays' \in Late("stop")
          /\ EndJob(job, FALSE) /\ UNCHANGED stirred

(* create_maintenance_backup: the dump, then the archives; verify_backup_set. *)
NoBackup == [job EXCEPT !.pc = "update", !.failure = TRUE]

(* Fault: an update is let through without a backup. *)
BackupSkipped_Allowed == [job EXCEPT !.pc = "update"]
BackupSkipped == [job EXCEPT !.pc = "update", !.failure = job.update]

DumpWorld ==
    /\ AtJob("dump") /\ JobOnly
    /\ job' \in IF job.backup THEN {[job EXCEPT !.pc = "archive", !.db = db], NoBackup}
                              ELSE {BackupSkipped}
    /\ UNCHANGED <<builds, world, data, lock, sets, strays, stirred>>

ArchiveWorld ==
    /\ AtJob("archive") /\ JobOnly
    /\ job' \in {[job EXCEPT !.pc = "verify", !.files = files], NoBackup}
    /\ UNCHANGED <<builds, world, data, lock, sets, strays, stirred>>

VerifyBackup ==
    /\ AtJob("verify") /\ JobOnly
    /\ \/ /\ sets' = sets \cup {Taken(job)}
          /\ job' = [job EXCEPT !.pc = "update", !.set = TRUE]
       \/ job' = NoBackup /\ UNCHANGED sets
    /\ UNCHANGED <<builds, world, data, lock, strays, stirred>>

(* The update phase: without an update, or after a failed backup, it loads *)
(* nothing. "automatic" acquires first; "none" takes what is staged then.  *)
(* A shutdown ends here.                                                   *)
Admitted == job.update /\ ~job.failure

AfterUpdate(failed) ==
    IF job.action = "shutdown" THEN EndJob([job EXCEPT !.failure = failed], ~failed)
    ELSE job' = [job EXCEPT !.pc = "start", !.failure = failed] /\ UNCHANGED lock

UpdateBuild ==
    /\ AtJob("update") /\ JobOnly
    /\ UNCHANGED <<receipt, world, data, sets, stirred>>
    /\ \/ /\ ~Admitted /\ AfterUpdate(job.failure)
          /\ UNCHANGED <<package, loaded, strays>>
       \/ /\ Admitted
          /\ package' \in IF job.policy = "automatic" THEN package..MaxBuild ELSE {package}
          /\ loaded' = package'
          /\ UNCHANGED strays /\ AfterUpdate(FALSE)
       \/ /\ ~job.failure
          /\ strays' \in IF Admitted THEN Late("update") ELSE {strays}
          /\ UNCHANGED <<package, loaded>> /\ AfterUpdate(TRUE)

(* The start phase, and the wait for the farm to be online. "pipe" is a    *)
(* start hook that returned 141.                                           *)
StartWorld ==
    /\ AtJob("start") /\ JobOnly /\ Stir({"restore"})
    /\ \/ /\ world' = "up" /\ UNCHANGED strays
          /\ job' \in {[job EXCEPT !.pc = "online", !.start = s] : s \in {"ok", "pipe", "failed"}}
       \/ /\ strays' \in Late("start") /\ UNCHANGED world
          /\ job' = [job EXCEPT !.pc = "online", !.start = "failed"]
    /\ UNCHANGED <<builds, data, lock, sets>>

Earned(online) == job.start \in {"ok", "pipe"} /\ online /\ ~job.failure

WaitOnline ==
    /\ AtJob("online") /\ JobOnly
    /\ \/ world = "up" /\ EndJob(job, Earned(TRUE))
       \/ job' = [job EXCEPT !.pc = "recover"] /\ UNCHANGED lock
    /\ UNCHANGED <<builds, world, data, sets, strays, stirred>>

(* run_restart_recovery, and the second wait when it worked. *)
Recover ==
    /\ AtJob("recover") /\ JobOnly /\ Stir({"restore"})
    /\ \/ /\ world' \in {world, "up"}
          /\ job' = [job EXCEPT !.pc = "online2"] /\ UNCHANGED lock
       \/ UNCHANGED world /\ EndJob(job, FALSE)
    /\ UNCHANGED <<builds, data, sets, strays>>

WaitAgain ==
    /\ AtJob("online2") /\ JobOnly
    /\ \E online \in BOOLEAN : (online => world = "up") /\ EndJob(job, Earned(online))
    /\ UNCHANGED <<builds, world, data, sets, strays, stirred>>

JobStep ==
    \/ Preflight \/ Disconnect \/ StopWorld \/ DumpWorld \/ ArchiveWorld \/ VerifyBackup
    \/ UpdateBuild \/ StartWorld \/ WaitOnline \/ Recover \/ WaitAgain

-----------------------------------------------------------------------------
(* create_full_backup, for a request or schedule ("capture") or as the     *)
(* first half of a restore. It fails at once when the lock is taken.       *)
CaptureOnly == UNCHANGED <<builds, world, data, job, apply, strays, jobs, crashes, stirred>>

(* The restore is told; a capture on its own is not awaited by anybody.    *)
CaptureOver(ok) ==
    /\ capture' = IdleCapture
    /\ restore' = IF capture.by = "restore"
                  THEN [restore EXCEPT !.pc = IF ok THEN "load" ELSE "restart",
                                       !.before = Taken(capture)]
                  ELSE restore

StartCapture(by) ==
    /\ capture.pc = "idle"
    /\ \/ by = "capture" /\ "capture" \in Actors
       \/ by = "restore" /\ restore.pc = "capture"
    /\ lock = None /\ lock' = by
    /\ capture' = [IdleCapture EXCEPT !.pc = "dump", !.by = by]
    /\ UNCHANGED <<sets, restore>> /\ CaptureOnly

CaptureBusy ==
    /\ restore.pc = "capture" /\ lock \notin {None, "restore"}
    /\ restore' = [restore EXCEPT !.pc = "restart"]
    /\ UNCHANGED <<lock, sets, capture>> /\ CaptureOnly

CaptureStep ==
    /\ capture.pc # "idle" /\ CaptureOnly
    /\ \/ /\ capture.pc = "dump"
          /\ capture' = [capture EXCEPT !.pc = "archive", !.db = db]
          /\ UNCHANGED <<lock, sets, restore>>
       \/ /\ capture.pc = "archive"
          /\ capture' = [capture EXCEPT !.pc = "verify", !.files = files]
          /\ UNCHANGED <<lock, sets, restore>>
       \/ /\ capture.pc = "verify"
          /\ sets' = sets \cup {Taken(capture)}
          /\ lock' = None /\ CaptureOver(TRUE)
       \/ /\ lock' = None /\ UNCHANGED sets /\ CaptureOver(FALSE)

-----------------------------------------------------------------------------
(* restore_backup_set: only the backup before the restore is taken under   *)
(* the operation lock.                                                     *)
RestoreOnly == UNCHANGED <<builds, edits, lock, sets, job, capture, apply, strays, jobs, crashes>>

StartRestore(s) ==
    /\ "restore" \in Actors /\ restore.pc = "idle"
    /\ restore' = [IdleRestore EXCEPT !.pc = "stop", !.set = s]
    /\ UNCHANGED <<world, db, files, stirred>> /\ RestoreOnly

(* stop_restore_writers names the writers it found running; when it raises *)
(* nothing is started again.                                               *)
StopWriters ==
    /\ restore.pc = "stop"
    /\ \/ /\ world' = "down"
          /\ restore' = [restore EXCEPT !.pc = "capture", !.stopped = world = "up"]
          /\ stirred' = stirred \ {"restore"}
       \/ /\ world' \in {world, "down"}
          /\ restore' = [restore EXCEPT !.pc = "ended"] /\ UNCHANGED stirred
    /\ UNCHANGED <<db, files>> /\ RestoreOnly

(* pg_restore --clean without a transaction: torn until it has finished,   *)
(* and for good when it fails.                                             *)
BeginLoad == restore.pc = "load"

LoadDatabase ==
    \/ /\ BeginLoad
       /\ restore' = [restore EXCEPT !.pc = "loading"]
       /\ db' = HalfRestored
       /\ UNCHANGED <<world, files>> /\ Stir({"job"}) /\ RestoreOnly
    \/ /\ restore.pc = "loading"
       /\ \/ restore' = [restore EXCEPT !.pc = "files"] /\ db' = restore.set.db
          \/ restore' = [restore EXCEPT !.pc = "restart"] /\ UNCHANGED db
       /\ UNCHANGED <<world, files>> /\ Stir({"job"}) /\ RestoreOnly

(* The selected file layers, maybe none; a failure leaves them mixed, which *)
(* no property here tells from replaced.                                    *)
LoadFiles ==
    /\ restore.pc = "files"
    /\ files' \in {files, restore.set.files}
    /\ restore' \in {[restore EXCEPT !.pc = "restart", !.ok = ok] : ok \in BOOLEAN}
    /\ UNCHANGED <<world, db>> /\ Stir({"job"}) /\ RestoreOnly

StartWriters ==
    /\ restore.pc = "restart"
    /\ \/ /\ world' = IF restore.stopped THEN "up" ELSE world
          /\ restore' = [restore EXCEPT !.pc = "ended"]
       \/ /\ restore' = [restore EXCEPT !.pc = "ended", !.ok = FALSE]
          /\ UNCHANGED world
    /\ UNCHANGED <<db, files>> /\ Stir({"job"}) /\ RestoreOnly

RestoreStep == StopWriters \/ LoadDatabase \/ LoadFiles \/ StartWriters

-----------------------------------------------------------------------------
(* update_console_action("game-apply"): the readiness gate, then a helper  *)
(* container that runs restart-target.sh in its default phase, "restart".  *)
(* That phase does not run the update check, whatever the variables say.   *)
StartApply ==
    /\ "apply" \in Actors /\ apply.pc = "idle"
    /\ RequireReceipt => ApplyReady
    /\ apply' = [IdleApply EXCEPT !.pc = "run", !.cand = package]
    /\ UNCHANGED <<builds, world, data, lock, sets, job, capture, restore, strays, jobs,
                   crashes, stirred>>

ApplyStep ==
    /\ \/ /\ apply.pc = "run"
          /\ world' = "down" /\ apply' = [apply EXCEPT !.pc = "up"] /\ UNCHANGED stirred
       \/ /\ apply.pc = "up"
          /\ world' = "up" /\ apply' = [apply EXCEPT !.pc = "ended", !.ok = TRUE]
          /\ Stir({"job", "restore"})
       \/ /\ apply.pc \in {"run", "up"} /\ UNCHANGED <<world, stirred>>
          /\ apply' = [apply EXCEPT !.pc = "ended"]
    /\ UNCHANGED <<builds, data, lock, sets, job, capture, restore, strays, jobs, crashes>>

-----------------------------------------------------------------------------
(* The effect of a command its caller no longer waits for. *)
StrayEffect(effect) ==
    /\ effect \in strays /\ strays' = strays \ {effect}
    /\ world' = CASE effect.do = "stop" -> "down" [] effect.do = "start" -> "up" [] OTHER -> world
    /\ loaded' = IF effect.do = "update" THEN package ELSE loaded
    /\ IF effect.do = "start" THEN Stir({"job", "restore"}) ELSE UNCHANGED stirred
    /\ UNCHANGED <<package, receipt, data, lock, sets, job, capture, restore, apply, jobs, crashes>>

(* The panel dies. The kernel gives the lock back; a command that was      *)
(* running goes on in its helper container, as the one of game-apply does. *)
Running(pc) ==
    CASE pc = "stop" -> {"stop"} [] pc = "start" -> {"start"}
      [] pc = "update" /\ Admitted -> {"update"} [] OTHER -> {}

Crash ==
    /\ crashes < MaxCrashes /\ crashes' = crashes + 1
    /\ lock' = None
    /\ job' = IF job.pc \in {"idle", "ended"} THEN job ELSE [job EXCEPT !.pc = "lost"]
    /\ capture' = IdleCapture
    /\ restore' = IF restore.pc = "idle" THEN restore ELSE [restore EXCEPT !.pc = "ended"]
    /\ \/ UNCHANGED strays
       \/ "stray" \in Actors /\ strays' = strays \cup {Command(what) : what \in Running(job.pc)}
    /\ UNCHANGED <<builds, world, data, sets, apply, jobs, stirred>>

-----------------------------------------------------------------------------
Next ==
    \/ Stage \/ Play \/ Certify
    \/ \E policy \in Policies, action \in {"restart", "shutdown"}, backup \in BOOLEAN :
          StartJob(policy, action, backup)
    \/ JobStep
    \/ \E by \in {"capture", "restore"} : StartCapture(by)
    \/ CaptureBusy \/ CaptureStep
    \/ \E s \in sets : StartRestore(s)
    \/ RestoreStep
    \/ StartApply \/ ApplyStep
    \/ \E effect \in strays : StrayEffect(effect)
    \/ Crash

Spec == Init /\ [][Next]_vars

(* Every call of a job, a backup and a restore has a timeout. *)
FairSpec ==
    /\ Spec
    /\ WF_vars(JobStep) /\ WF_vars(CaptureStep) /\ WF_vars(RestoreStep)
    /\ WF_vars(StartCapture("restore") \/ CaptureBusy)

-----------------------------------------------------------------------------
(* Properties.                                                             *)

(* The variables stay in their sets (the shape of the module's state). *)
TypeOK ==
    /\ {package, loaded} \subseteq 1..MaxBuild
    /\ receipt \in {None} \cup [from : 1..MaxBuild, to : 1..MaxBuild]
    /\ world \in {"up", "down"}
    /\ db \in 0..HalfRestored /\ files \in 0..HalfRestored /\ edits \in 0..MaxEdits
    /\ lock \in {None, "job", "capture", "restore"}
    /\ sets \subseteq [db : 0..HalfRestored, files : 0..HalfRestored]
    /\ job.pc \in {"idle", "preflight", "disconnect", "stop", "dump", "archive", "verify",
                   "update", "start", "online", "recover", "online2", "ended", "lost"}
    /\ capture.pc \in {"idle", "dump", "archive", "verify"}
    /\ restore.pc \in {"idle", "stop", "capture", "load", "loading", "files", "restart", "ended"}
    /\ apply.pc \in {"idle", "run", "up", "ended"}
    /\ strays \subseteq [do : {"stop", "start", "update"}, db : 0..HalfRestored,
                        files : 0..HalfRestored]
    /\ stirred \subseteq {"job", "restore"}

(* A build is changed only when a verified set holds what the job that      *)
(* ordered the change took, and that is still the data the build changes    *)
(* under: exactly, unless the world was started or a restore went on beside *)
(* the stopped job, or the update came after its caller had given up        *)
(* (create_maintenance_backup, verify_backup_set, the update phase of       *)
(* _execute_restart_locked).                                                *)
UpdateIsCovered ==
    [][loaded' # loaded =>
        \/ /\ AtJob("update") /\ job' # job
           /\ job.set /\ Taken(job) \in sets /\ (Taken(job) = Here \/ "job" \in stirred)
        \/ \E e \in strays \ strays' : e.do = "update" /\ Taken(e) \in sets]_vars

(* An outcome "ok" of _execute_restart_locked was earned: the backup that   *)
(* was asked for is a verified set, no older build than the certified one   *)
(* is loaded, and a restart has its world up again.                         *)
OutcomeIsEarned ==
    [][job'.ok /\ ~job.ok =>
        /\ job.backup => Taken(job) \in sets
        /\ job.update => loaded' >= job.cand
        /\ job.action = "restart" => world' = "up"]_vars

(* "a backup issue does not strand the farm offline": a restart that got   *)
(* past its stop phase tries to start the world whatever else failed.      *)
TroubleStrandsNobody ==
    job.pc = "ended" /\ job.action = "restart" /\ (job.failure \/ job.set) => job.start # "none"

(* Whatever is begun under operation.lock gives it back: jobs, backups and *)
(* restores, with all their failures (backup_operation_lock).              *)
LockComesBack == lock # None ~> lock = None

(* When pg_restore begins to replace the database, the set that was taken   *)
(* first is verified and holds what is replaced, unless the world was       *)
(* started since (restore_backup_set, create_full_backup).                  *)
TornHasRecovery ==
    [][restore.pc = "load" /\ restore'.pc = "loading" =>
        restore.before \in sets /\ (restore.before = Here \/ "restore" \in stirred)]_vars

(* A restore that was begun comes to its end, with the writers it stopped  *)
(* started or a failure reported (restore_backup_set).                     *)
RestoreEnds == restore.pc = "stop" ~> restore.pc = "ended"

-----------------------------------------------------------------------------
(* What the documentation says of it, and the code does not do.            *)

(* "the build cannot change inside the restart workflow": a certified job  *)
(* loads the build its receipt names.                                      *)
CertifiedBuildOnly ==
    [][loaded' # loaded => job.policy = "certified" /\ loaded' = job.cand]_vars

(* "A candidate can be applied only after the new stopped-world backup      *)
(* passes": the data a build changes under is in a verified set.            *)
UpdatesWhatIsSaved == [][loaded' # loaded => Here \in sets]_vars

(* game-apply "can load and activate the already-staged candidate": when   *)
(* it reports success, the certified candidate is loaded.                  *)
ApplyActivates == apply.pc = "ended" /\ apply.ok => loaded = apply.cand

(* The lock serializes "operations that require a stable recovery view":   *)
(* no verified set holds a database that was being replaced.               *)
RecoveryViewIsStable == \A s \in sets : s.db # HalfRestored

(* A restore works on "the quiet state": while it replaces the database    *)
(* and the files, no world runs on them.                                   *)
RestoreIsQuiet == restore.pc \in {"loading", "files"} => world = "down"
=============================================================================
