-------------------------------- MODULE Work --------------------------------
(* What the panel does on a schedule: recurring events, and beside them the *)
(* restart jobs and the automatic backups.  They share no variable.         *)
EXTENDS EventAutomation

CONSTANTS
    Jobs, Standalone, DailyAt, RetryDelay, Announcing, LastTime, MaxDeaths, MaxBoots,
                                            \* of the restart jobs
    Interval, Retry, Retentions, Day, LastDay, MaxSets, MaxRestarts
                                            \* of the backups

VARIABLES
    jobs, notices, held, view, handler, worker, resume, checkpoint, armed, taken,
    rebooting, jobsClock, deaths, boots,
    schedule, backups, backupLock, tick, slots, failed, backupClock, restarts

Restarts == INSTANCE RestartJobs WITH
    MaxClock <- LastTime, MaxCrashes <- MaxDeaths, clock <- jobsClock, crashes <- deaths

Backups == INSTANCE BackupSchedule WITH
    MaxClock <- LastDay, MaxCrashes <- MaxRestarts,
    sets <- backups, lock <- backupLock, clock <- backupClock, crashes <- restarts

ASSUME WorkAssumption == Restarts!RestartJobsAssumption /\ Backups!BackupScheduleAssumption

jobsVars ==
    <<jobs, notices, held, view, handler, worker, resume, checkpoint, armed, taken,
      rebooting, jobsClock, deaths, boots>>
backupVars ==
    <<schedule, backups, backupLock, tick, slots, failed, backupClock, restarts>>

-----------------------------------------------------------------------------
(* What is checked, beside EventsKeepTheirPlan and CancelIsFinal of           *)
(* EventAutomation.                                                          *)

(* One restart at a time and one each morning; a retried request keeps its  *)
(* job; what is in flight, what has ended and what was silenced stays so.   *)
RestartsAreOrderly ==
    /\ [](Restarts!TypeOK /\ Restarts!OneActiveJob /\ Restarts!OneMorningRestart)
    /\ Restarts!RetryKeepsTheJob /\ Restarts!EndedForGood /\ Restarts!InFlightIsProtected
    /\ Restarts!SilencedStaysSilent

(* The schedule removes only sets of its own that expired, and tells the    *)
(* truth about its runs and failures.                                       *)
ScheduleIsHonest ==
    /\ [](Backups!TypeOK /\ Backups!RemovedWasExpired /\ Backups!GoodRunsAreReal
          /\ Backups!CollisionIsNoFailure)
    /\ Backups!FailureIsRetriedSoon
=============================================================================
