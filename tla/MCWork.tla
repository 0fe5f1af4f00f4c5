------------------------------- MODULE MCWork -------------------------------
(* Instances of what works on its own in the panel: the event scheduler,   *)
(* the restart jobs, the backup schedule and the maintenance of a restart. *)
(* Their models share no variable; `part` names the one that runs and the  *)
(* others rest in their initial states, so that TLC explores the sum of    *)
(* the state spaces and not their product.                                 *)
EXTENDS Work, TLC

CONSTANTS
    Parts,          \* what the run explores
    once, daily,    \* events
    j1, j2          \* restart jobs

VARIABLES
    part,
    package, loaded, receipt, world, db, files, edits, farmLock, sets, job, capture,
    restore, apply, strays, ended, farmCrashes, stirred

(* Events: what a run of each does, and how often it may. *)
PlanMixed == (once :> <<"announcement", "map-prewarm">>) @@ (daily :> <<"restart">>)
Repeats == (once :> 0) @@ (daily :> 2)
Limits == (once :> 1) @@ (daily :> 2)

(* The jobs are told apart only by equality. *)
Symmetry == Permutations({j1, j2})

-----------------------------------------------------------------------------

(* Two jobs and a reboot of the host. *)
Rebooted == INSTANCE RestartJobs WITH
    Jobs <- {j1, j2}, Standalone <- {}, Handlers <- {"h1"}, DailyAt <- 2, RetryDelay <- 1,
    Announcing <- {FALSE}, MaxClock <- 2, MaxCrashes <- 0, MaxBoots <- 1,
    clock <- jobsClock, crashes <- deaths

(* Two jobs with their notices, and deaths of the panel. *)
Notified == INSTANCE RestartJobs WITH
    Jobs <- {j1, j2}, Standalone <- {}, Handlers <- {"h1"}, DailyAt <- 2, RetryDelay <- 1,
    Announcing <- {TRUE}, MaxClock <- 2, MaxCrashes <- 1, MaxBoots <- 0,
    clock <- jobsClock, crashes <- deaths

(* Restart jobs of every policy beside a backup by hand. *)
Upkeep == INSTANCE Maintenance WITH
    Policies <- {"current", "certified", "automatic"}, RequireReceipt <- FALSE,
    Actors <- {"capture"}, MaxBuild <- 2, MaxEdits <- 1, MaxJobs <- 2, MaxCrashes <- 1,
    lock <- farmLock, jobs <- ended, crashes <- farmCrashes

(* Restores beside a backup by hand. *)
Restored == INSTANCE Maintenance WITH
    Policies <- {"certified"}, RequireReceipt <- TRUE, Actors <- {"capture", "restore"},
    MaxBuild <- 1, MaxEdits <- 2, MaxJobs <- 0, MaxCrashes <- 1,
    lock <- farmLock, jobs <- ended, crashes <- farmCrashes

(* A restore beside a restart job, and calls that outlive the job. *)
Beside == INSTANCE Maintenance WITH
    Policies <- {"certified", "automatic"}, RequireReceipt <- TRUE,
    Actors <- {"restore", "stray"}, MaxBuild <- 2, MaxEdits <- 2, MaxJobs <- 1,
    MaxCrashes <- 1, lock <- farmLock, jobs <- ended, crashes <- farmCrashes

(* Two certified updates, Steam, and calls that outlive their job. *)
Late == INSTANCE Maintenance WITH
    Policies <- {"certified"}, RequireReceipt <- TRUE, Actors <- {"stray", "steam"},
    MaxBuild <- 3, MaxEdits <- 1, MaxJobs <- 2, MaxCrashes <- 1,
    lock <- farmLock, jobs <- ended, crashes <- farmCrashes

(* An update beside an operator's apply, Steam, and calls that outlive it. *)
Outside == INSTANCE Maintenance WITH
    Policies <- {"certified"}, RequireReceipt <- TRUE, Actors <- {"apply", "stray", "steam"},
    MaxBuild <- 3, MaxEdits <- 1, MaxJobs <- 1, MaxCrashes <- 1,
    lock <- farmLock, jobs <- ended, crashes <- farmCrashes

ASSUME Rebooted!RestartJobsAssumption /\ Notified!RestartJobsAssumption
ASSUME Upkeep!MaintenanceAssumption /\ Restored!MaintenanceAssumption
ASSUME Beside!MaintenanceAssumption /\ Late!MaintenanceAssumption
ASSUME Outside!MaintenanceAssumption

-----------------------------------------------------------------------------

farmVars ==
    <<package, loaded, receipt, world, db, files, edits, farmLock, sets, job, capture,
      restore, apply, strays, ended, farmCrashes, stirred>>
allVars == <<part, vars, jobsVars, backupVars, farmVars>>

WorkInit ==
    /\ part \in Parts
    /\ Init
    /\ Restarts!Init
    /\ Backups!Init
    /\ Upkeep!Init

RunEvents(A) == part = "events" /\ A /\ UNCHANGED <<part, jobsVars, backupVars, farmVars>>
RunRestarts(A) == part = "restarts" /\ A /\ UNCHANGED <<part, vars, backupVars, farmVars>>
RunRebooted(A) == part = "rebooted" /\ A /\ UNCHANGED <<part, vars, backupVars, farmVars>>
RunNotified(A) == part = "notified" /\ A /\ UNCHANGED <<part, vars, backupVars, farmVars>>
RunBackups(A) == part = "backups" /\ A /\ UNCHANGED <<part, vars, jobsVars, farmVars>>
RunUpkeep(A) == part = "upkeep" /\ A /\ UNCHANGED <<part, vars, jobsVars, backupVars>>
RunRestored(A) == part = "restored" /\ A /\ UNCHANGED <<part, vars, jobsVars, backupVars>>
RunBeside(A) == part = "beside" /\ A /\ UNCHANGED <<part, vars, jobsVars, backupVars>>
RunLate(A) == part = "late" /\ A /\ UNCHANGED <<part, vars, jobsVars, backupVars>>
RunOutside(A) == part = "outside" /\ A /\ UNCHANGED <<part, vars, jobsVars, backupVars>>

WorkNext ==
    \/ RunEvents(Next)
    \/ RunRestarts(Restarts!Next) \/ RunRebooted(Rebooted!Next) \/ RunNotified(Notified!Next)
    \/ RunBackups(Backups!Next)
    \/ RunUpkeep(Upkeep!Next) \/ RunRestored(Restored!Next) \/ RunBeside(Beside!Next)
    \/ RunLate(Late!Next) \/ RunOutside(Outside!Next)

WorkSpec == WorkInit /\ [][WorkNext]_allVars

-----------------------------------------------------------------------------
(* What is checked, beside the properties of Work. *)

(* What a job changes a build under, and a restore replaces, is in the set   *)
(* it took before, unless the world was started beside it; a success is      *)
(* earned, and a failure tries to start again.                               *)
DataIsCovered ==
    /\ [](/\ CASE part = "restored" -> Restored!TypeOK [] part = "beside" -> Beside!TypeOK
               [] part = "late" -> Late!TypeOK [] part = "outside" -> Outside!TypeOK
               [] OTHER -> Upkeep!TypeOK
          /\ Upkeep!TroubleStrandsNobody)
    /\ Upkeep!UpdateIsCovered /\ Upkeep!OutcomeIsEarned /\ Upkeep!TornHasRecovery
=============================================================================
