----------------------------- MODULE RestartJobs -----------------------------
(***************************************************************************)
(* Scheduled restarts and their announcements: restart-jobs.json and       *)
(* announcements.json, the request handlers that schedule and cancel, the  *)
(* announcement worker that sends notices and executes due jobs, and       *)
(* update-reboot-resume.sh, which finishes a job after a host reboot and   *)
(* writes restart-jobs.json from another process.                          *)
(*                                                                         *)
(* The panel reads and rewrites the whole of restart-jobs.json under       *)
(* RESTART_LOCK. Another process does not know that lock, so reading and   *)
(* writing are two steps here: Acquire takes the lock and copies the file  *)
(* into "view", and the operation that follows writes what it made of the  *)
(* view. announcements.json is written by the panel only, and its updates  *)
(* under ANNOUNCEMENT_LOCK are single steps.                               *)
(*                                                                         *)
(* What a job does between "stop" and its end is module Maintenance;       *)
(* here it ends in one step, with any outcome. The instant at which a      *)
(* notice before the zero mark is due is left open.                        *)
(***************************************************************************)
EXTENDS Naturals, FiniteSets

CONSTANTS
    Jobs,           \* ids of restart jobs; a job's own notice has its id
    Standalone,     \* ids of notices that belong to no restart
    Handlers,       \* request threads of the panel
    DailyAt,        \* the hour of the daily maintenance, named by its key
    RetryDelay,     \* RESTART_OPERATION_RETRY_SECONDS
    Announcing,     \* the values of a request's announce flag
    MaxClock,       \* bound: time
    MaxCrashes,     \* bound: panel restarts and deaths of the worker
    MaxBoots,       \* bound: host reboots
    None

AnnouncementWorker == "worker"
Notices == Jobs \cup Standalone
Panel == Handlers \cup {AnnouncementWorker}

RestartJobsAssumption ==
    /\ AnnouncementWorker \notin Handlers
    /\ None \notin Notices \cup Panel
    /\ Jobs \cap Standalone = {}
    /\ Announcing \subseteq BOOLEAN
    /\ {DailyAt, RetryDelay, MaxClock} \subseteq Nat \ {0}
    /\ {MaxCrashes, MaxBoots} \subseteq Nat

VARIABLES
    jobs,       \* restart-jobs.json
    notices,    \* announcements.json
    held,       \* who holds RESTART_LOCK
    view,       \* what the holder read from restart-jobs.json
    handler,    \* Handlers -> what is left of the request
    worker,     \* the announcement worker
    resume,     \* update-reboot-resume.sh resume
    checkpoint, \* the job named by update-reboot-resume.env
    armed,      \* history: jobs whose checkpoint was ever written
    taken,      \* history: ids that were given to a job
    rebooting,  \* a reboot was requested
    clock, crashes, boots

file == <<jobs, held, view>>
log == <<armed, taken>>
host == <<checkpoint, log, rebooting, resume, boots>>
vars == <<file, notices, handler, worker, host, clock, crashes>>

InFlight == {"executing", "awaiting_reboot"}
Active == {"scheduled"} \cup InFlight
Ended == {"executed", "failed", "cancelled", "superseded"}
Pending == {"scheduled", "delivering"}

NoJob == [status |-> "none", runAt |-> 0, daily |-> FALSE, announce |-> FALSE,
          execute |-> FALSE, deferred |-> FALSE]
NoNotice == [status |-> "none", at |-> 0, final |-> FALSE]
IdleHandler == [pc |-> "idle", ids |-> {}, at |-> 0]
FreshWorker == [pc |-> "poll", now |-> 0, notices |-> {}, jobs |-> {}, job |-> None,
                execute |-> FALSE, ok |-> FALSE, deferred |-> FALSE]
IdleResume == [pc |-> "idle", job |-> None, ok |-> FALSE, seen |-> [j \in Jobs |-> NoJob]]

Init ==
    /\ jobs = [j \in Jobs |-> NoJob]
    /\ notices = [n \in Notices |-> NoNotice]
    /\ held = None /\ view = [j \in Jobs |-> NoJob]
    /\ handler = [h \in Handlers |-> IdleHandler]
    /\ worker = FreshWorker
    /\ resume = IdleResume
    /\ checkpoint = None /\ armed = {} /\ taken = {} /\ rebooting = FALSE
    /\ clock = 1 /\ crashes = 0 /\ boots = 0

-----------------------------------------------------------------------------
(* RESTART_LOCK: what the worker is at decides whether it wants it.        *)
WantsLock(p) ==
    IF p = AnnouncementWorker THEN worker.pc \in {"restarts", "await", "unawait", "settle", "defer"}
                  ELSE handler[p].pc = "idle"

Acquire(p) ==
    /\ held = None /\ WantsLock(p)
    /\ held' = p /\ view' = jobs
    /\ UNCHANGED <<jobs, notices, handler, worker, host, clock, crashes>>

(* write_restart_state at the end of the critical section. *)
WriteJobs(p, new) ==
    /\ held = p
    /\ jobs' = new
    /\ held' = None /\ view' = [j \in Jobs |-> NoJob]

LeaveLock(p) == held = p /\ held' = None /\ view' = [j \in Jobs |-> NoJob] /\ UNCHANGED jobs

-----------------------------------------------------------------------------
(* schedule_restart. A keyed request is answered with the active job of    *)
(* the same key; nothing is written over a job in flight; a new job takes  *)
(* the place of the scheduled one. Its notice is scheduled afterwards.     *)
SameKey == {j \in Jobs : view[j].status \in Active /\ view[j].daily}

NothingInFlight == \A j \in Jobs : view[j].status \notin InFlight

InTime(at, strict) == at >= clock /\ (strict => at > clock)

Superseding(j, new) ==
    [k \in Jobs |->
        IF k = j THEN new
        ELSE IF view[k].status = "scheduled" THEN [view[k] EXCEPT !.status = "superseded"]
        ELSE view[k]]

ScheduleRestart(h, j, at, daily, announce, execute) ==
    /\ j \notin taken /\ taken' = taken \cup {j}
    /\ InTime(at, announce \/ daily)
    /\ daily => at = DailyAt /\ SameKey = {}
    /\ NothingInFlight
    /\ WriteJobs(h, Superseding(j, [status |-> "scheduled", runAt |-> at, daily |-> daily,
                                    announce |-> announce, execute |-> execute,
                                    deferred |-> FALSE]))
    /\ handler' = [handler EXCEPT ![h] =
                      IF announce THEN [pc |-> "announce", ids |-> {j}, at |-> at] ELSE IdleHandler]
    /\ UNCHANGED <<notices, worker, checkpoint, armed, rebooting, resume, boots, clock, crashes>>

(* schedule_announcement, called by schedule_restart once the job is in    *)
(* the file. It raises when the hour has passed by then.                   *)
NewNotice(n, at) ==
    [m \in Notices |->
        IF m = n THEN [status |-> "scheduled", at |-> at, final |-> FALSE]
        ELSE IF notices[m].status \in Pending THEN [notices[m] EXCEPT !.status = "superseded"]
        ELSE notices[m]]

AnnounceRestart(h) ==
    /\ handler[h].pc = "announce"
    /\ \E j \in handler[h].ids :
         IF handler[h].at < clock THEN UNCHANGED notices
                                  ELSE notices' = NewNotice(j, handler[h].at)
    /\ handler' = [handler EXCEPT ![h] = IdleHandler]
    /\ UNCHANGED <<file, worker, host, clock, crashes>>

(* The separate announcement card of the panel. *)
ScheduleAnnouncement(h, n, at) ==
    /\ handler[h].pc = "idle" /\ held # h
    /\ n \in Standalone /\ notices[n].status = "none" /\ at >= clock
    /\ notices' = NewNotice(n, at)
    /\ UNCHANGED <<file, handler, worker, host, clock, crashes>>

(* cancel_announcement, for one id or for all. *)
CancelAnnouncement(h, ids) ==
    /\ handler[h].pc = "idle" /\ held # h
    /\ \E n \in ids : notices[n].status \in Pending
    /\ notices' = [n \in Notices |->
                     IF n \in ids /\ notices[n].status \in Pending
                     THEN [notices[n] EXCEPT !.status = "cancelled"] ELSE notices[n]]
    /\ UNCHANGED <<file, handler, worker, host, clock, crashes>>

(* cancel_restart, for one id or for all; a job in flight is protected.    *)
(* Notices of the cancelled jobs are cancelled afterwards.                 *)
Cancellable_All(ids) == {j \in ids : view[j].status \in Active}
Cancellable(ids) == {j \in ids : view[j].status = "scheduled"}

CancelRestart(h, ids) ==
    /\ \/ ids = Jobs
       \/ \E j \in Jobs : ids = {j} /\ view[j].status \notin InFlight
    /\ WriteJobs(h, [j \in Jobs |-> IF j \in Cancellable(ids)
                                    THEN [view[j] EXCEPT !.status = "cancelled"] ELSE view[j]])
    /\ handler' = [handler EXCEPT ![h] =
                      IF Cancellable(ids) = {} THEN IdleHandler
                      ELSE [pc |-> "withdraw", ids |-> Cancellable(ids), at |-> 0]]
    /\ UNCHANGED <<notices, worker, host, clock, crashes>>

WithdrawNotices(h) ==
    /\ handler[h].pc = "withdraw"
    /\ notices' = [n \in Notices |->
                     IF n \in handler[h].ids /\ notices[n].status \in Pending
                     THEN [notices[n] EXCEPT !.status = "cancelled"] ELSE notices[n]]
    /\ handler' = [handler EXCEPT ![h] = IdleHandler]
    /\ UNCHANGED <<file, worker, host, clock, crashes>>

(* A request that is refused, or answered with the job that exists. *)
RefuseRequest(h) ==
    /\ LeaveLock(h)
    /\ UNCHANGED <<notices, handler, worker, host, clock, crashes>>

-----------------------------------------------------------------------------
(* announcement_worker: one pass of the loop. It reads the clock once,     *)
(* marks what is due, sends the notices, then executes the jobs.           *)
NoticeDue(n, now) == notices[n].status \in Pending /\ ~ (notices[n].at <= now /\ notices[n].final)

PollNotices ==
    /\ worker.pc = "poll"
    /\ \E early \in SUBSET {n \in Notices : NoticeDue(n, clock) /\ notices[n].at > clock} :
         LET due == early \cup {n \in Notices : NoticeDue(n, clock) /\ notices[n].at <= clock} IN
         /\ notices' = [n \in Notices |->
                          IF n \in due THEN [notices[n] EXCEPT !.status = "delivering"]
                          ELSE IF notices[n].status \in Pending /\ ~ NoticeDue(n, clock)
                          THEN [notices[n] EXCEPT !.status = "expired"]
                          ELSE notices[n]]
         /\ worker' = [worker EXCEPT !.pc = "restarts", !.now = clock, !.notices = due]
    /\ UNCHANGED <<file, handler, host, clock, crashes>>

RestartDue(j) ==
    /\ view[j].status \in Active \ {"awaiting_reboot"}
    /\ view[j].runAt <= worker.now

PollRestarts ==
    /\ worker.pc = "restarts"
    /\ WriteJobs(AnnouncementWorker, [j \in Jobs |-> IF RestartDue(j)
                                         THEN [view[j] EXCEPT !.status = "executing"] ELSE view[j]])
    /\ worker' = [worker EXCEPT !.pc = "deliver", 
                                    !.jobs = {[id |-> j, execute |-> view[j].execute] :
                                              j \in {k \in Jobs : RestartDue(k)}}]
    /\ UNCHANGED <<notices, handler, host, clock, crashes>>

(* deliver_announcement runs without a lock; its result is recorded if the *)
(* notice is still pending by then.                                        *)
Recordable(n) == notices[n].status \in Pending

Deliver(n) ==
    /\ worker.pc = "deliver" /\ n \in worker.notices
    /\ \E after \in {"scheduled", "sent", "failed"} :
         notices' = [notices EXCEPT ![n] =
             IF ~ Recordable(n) THEN @
             ELSE IF clock >= @.at THEN [@ EXCEPT !.final = TRUE, !.status = "expired"]
             ELSE [@ EXCEPT !.status = after]]
    /\ worker' = [worker EXCEPT !.notices = @ \ {n}]
    /\ UNCHANGED <<file, handler, host, clock, crashes>>

(* The next due job, or the next pass. *)
Turn ==
    /\ worker.pc = "deliver" /\ worker.notices = {} /\ worker.job = None
    /\ \/ worker.jobs = {} /\ worker' = FreshWorker
       \/ \E due \in worker.jobs :
            worker' = [worker EXCEPT !.pc = "execute", !.job = due.id, !.execute = due.execute,
                                     !.jobs = @ \ {due}]
    /\ UNCHANGED <<file, notices, handler, host, clock, crashes>>

At(pc) == worker.pc = pc /\ worker.job # None
Move(pc, ok) == worker' = [worker EXCEPT !.pc = pc, !.ok = ok]
Elsewhere == UNCHANGED <<file, notices, handler, host, clock, crashes>>

(* execute_restart: a dry run; another owner of the operation lock; a      *)
(* preflight or a disconnect that fails; or the farm is stopped.           *)
DryRun == At("execute") /\ ~ worker.execute /\ Move("settle", TRUE) /\ Elsewhere
Busy == At("execute") /\ worker.execute /\ Move("defer", FALSE) /\ Elsewhere
FailEarly == At("execute") /\ worker.execute /\ Move("settle", FALSE) /\ Elsewhere
StopFarm == At("execute") /\ worker.execute /\ Move("stopped", FALSE) /\ Elsewhere
EndRun == At("stopped") /\ (\E ok \in BOOLEAN : Move("settle", ok)) /\ Elsewhere

(* An applied update asks for a reboot: the job is marked first.           *)
UpdateApplied == At("stopped") /\ Move("await", FALSE) /\ Elsewhere

SetStatus(old, j, status) ==
    [old EXCEPT ![j].status = IF @ = "none" THEN @ ELSE status]

MarkAwaiting ==
    /\ At("await") /\ WriteJobs(AnnouncementWorker, SetStatus(view, worker.job, "awaiting_reboot"))
    /\ Move("request", FALSE)
    /\ UNCHANGED <<notices, handler, host, clock, crashes>>

(* update-reboot-resume.sh request: refused on another host, or the        *)
(* checkpoint is written, the status is written again and the reboot is    *)
(* asked for. The command may still be reported as failed.                 *)
RequestRefused == At("request") /\ Move("unawait", FALSE) /\ Elsewhere

RequestReboot ==
    /\ At("request")
    /\ checkpoint' = worker.job /\ armed' = armed \cup {worker.job} /\ rebooting' = TRUE
    /\ jobs' = SetStatus(jobs, worker.job, "awaiting_reboot")
    /\ \/ worker' = [worker EXCEPT !.pc = "settle", !.ok = TRUE, !.deferred = TRUE]
       \/ Move("unawait", FALSE)
    /\ UNCHANGED <<held, view, notices, handler, taken, resume, boots, clock, crashes>>

MarkExecuting ==
    /\ At("unawait") /\ WriteJobs(AnnouncementWorker, SetStatus(view, worker.job, "executing"))
    /\ worker' = [worker EXCEPT !.pc = "settle", !.ok = FALSE, !.deferred = TRUE]
    /\ UNCHANGED <<notices, handler, host, clock, crashes>>

(* The outcome of the job. *)
Settled(j) ==
    IF \/ view[j].status \notin InFlight
       \/ view[j].status = "awaiting_reboot" /\ worker.deferred
    THEN view[j]
    ELSE [view[j] EXCEPT !.status = IF worker.ok THEN "executed" ELSE "failed"]

NextJob == [worker EXCEPT !.pc = "deliver", !.job = None, !.execute = FALSE,
                          !.ok = FALSE, !.deferred = FALSE]

Settle ==
    /\ At("settle")
    /\ WriteJobs(AnnouncementWorker, [j \in Jobs |-> IF j = worker.job THEN Settled(j) ELSE view[j]])
    /\ worker' = NextJob
    /\ UNCHANGED <<notices, handler, host, clock, crashes>>

(* defer_restart_operation *)
Deferred(j) ==
    IF view[j].status = "executing"
    THEN [view[j] EXCEPT !.status = "scheduled", !.runAt = clock + RetryDelay, !.deferred = TRUE]
    ELSE view[j]

Defer ==
    /\ At("defer")
    /\ WriteJobs(AnnouncementWorker, [j \in Jobs |-> IF j = worker.job THEN Deferred(j) ELSE view[j]])
    /\ worker' = NextJob
    /\ UNCHANGED <<notices, handler, host, clock, crashes>>

-----------------------------------------------------------------------------
(* The worker ends with an exception and its supervisor starts another.    *)
WorkerDies ==
    /\ crashes < MaxCrashes /\ crashes' = crashes + 1
    /\ worker # FreshWorker /\ worker' = FreshWorker
    /\ IF held = AnnouncementWorker THEN held' = None /\ view' = [j \in Jobs |-> NoJob]
                        ELSE UNCHANGED <<held, view>>
    /\ UNCHANGED <<jobs, notices, handler, host, clock>>

PanelGone ==
    /\ held' = None /\ view' = [j \in Jobs |-> NoJob]
    /\ handler' = [h \in Handlers |-> IdleHandler]
    /\ worker' = FreshWorker

PanelRestarts ==
    /\ crashes < MaxCrashes /\ crashes' = crashes + 1
    /\ PanelGone
    /\ UNCHANGED <<jobs, notices, host, clock>>

(* The host goes down, asked to or not, and comes up with a new panel and  *)
(* with the resume service, which runs if there is a checkpoint.           *)
HostReboots ==
    /\ boots < MaxBoots /\ boots' = boots + 1
    /\ PanelGone
    /\ rebooting' = FALSE
    /\ resume' = [IdleResume EXCEPT !.pc = IF checkpoint = None THEN "idle" ELSE "start",
                                    !.job = checkpoint]
    /\ UNCHANGED <<jobs, notices, checkpoint, log, clock, crashes>>

(* update-reboot-resume.sh resume: the start phase, then write_job_status, *)
(* which reads and replaces restart-jobs.json; the checkpoint goes last,   *)
(* and stays when the start phase failed.                                  *)
ResumeStep == UNCHANGED <<held, view, notices, handler, worker, log, rebooting, boots,
                          clock, crashes>>

ResumeStart ==
    /\ resume.pc = "start"
    /\ \E ok \in BOOLEAN : resume' = [resume EXCEPT !.pc = "read", !.ok = ok]
    /\ ResumeStep /\ UNCHANGED <<jobs, checkpoint>>

ResumeRead ==
    /\ resume.pc = "read"
    /\ resume' = [resume EXCEPT !.pc = "write", !.seen = jobs]
    /\ ResumeStep /\ UNCHANGED <<jobs, checkpoint>>

ResumeWrite ==
    /\ resume.pc = "write"
    /\ jobs' = SetStatus(resume.seen, resume.job, IF resume.ok THEN "executed" ELSE "failed")
    /\ resume' = IF resume.ok THEN [resume EXCEPT !.pc = "remove", !.seen = IdleResume.seen]
                              ELSE IdleResume
    /\ ResumeStep /\ UNCHANGED checkpoint

ResumeRemove ==
    /\ resume.pc = "remove"
    /\ checkpoint' = None /\ resume' = IdleResume
    /\ ResumeStep /\ UNCHANGED jobs

Tick ==
    /\ clock < MaxClock /\ clock' = clock + 1
    /\ UNCHANGED <<file, notices, handler, worker, host, crashes>>

-----------------------------------------------------------------------------
Request(h) ==
    \/ \E j \in Jobs, at \in 1 .. MaxClock, daily, execute \in BOOLEAN, announce \in Announcing :
         ScheduleRestart(h, j, at, daily, announce, execute)
    \/ AnnounceRestart(h)
    \/ \E n \in Standalone, at \in 1 .. MaxClock : ScheduleAnnouncement(h, n, at)
    \/ \E ids \in {Notices} \cup {{n} : n \in Notices} : CancelAnnouncement(h, ids)
    \/ \E ids \in {Jobs} \cup {{j} : j \in Jobs} : CancelRestart(h, ids)
    \/ WithdrawNotices(h)
    \/ RefuseRequest(h)

WorkerStep ==
    \/ PollNotices \/ PollRestarts \/ (\E n \in Notices : Deliver(n)) \/ Turn
    \/ DryRun \/ Busy \/ FailEarly \/ StopFarm \/ EndRun
    \/ UpdateApplied \/ MarkAwaiting \/ RequestRefused \/ RequestReboot \/ MarkExecuting
    \/ Settle \/ Defer

Resume == ResumeStart \/ ResumeRead \/ ResumeWrite \/ ResumeRemove

Next ==
    \/ \E p \in Panel : Acquire(p)
    \/ \E h \in Handlers : Request(h)
    \/ WorkerStep
    \/ WorkerDies \/ PanelRestarts \/ HostReboots
    \/ Resume
    \/ Tick

Spec == Init /\ [][Next]_vars

(* The worker runs under a supervisor, requests return, the resume service *)
(* is a oneshot unit that systemd starts at boot, a lock is given back.    *)
Fairness ==
    /\ WF_vars(WorkerStep)
    /\ SF_vars(Acquire(AnnouncementWorker))
    /\ \A h \in Handlers : WF_vars(Request(h) /\ (held = h \/ handler[h].pc # "idle"))
    /\ WF_vars(Resume)
    /\ WF_vars(rebooting /\ HostReboots)

FairSpec == Spec /\ Fairness

-----------------------------------------------------------------------------
TypeOK ==
    /\ jobs \in [Jobs -> [status : {"none"} \cup Active \cup Ended, runAt : 0 .. MaxClock + RetryDelay,
                          daily : BOOLEAN, announce : BOOLEAN, execute : BOOLEAN, deferred : BOOLEAN]]
    /\ notices \in [Notices -> [status : {"none", "sent", "failed", "expired", "cancelled",
                                          "superseded"} \cup Pending,
                                at : 0 .. MaxClock, final : BOOLEAN]]
    /\ held \in Panel \cup {None} /\ view \in [Jobs -> [status : {"none"} \cup Active \cup Ended,
          runAt : 0 .. MaxClock + RetryDelay, daily : BOOLEAN, announce : BOOLEAN,
          execute : BOOLEAN, deferred : BOOLEAN]]
    /\ handler \in [Handlers -> [pc : {"idle", "announce", "withdraw"}, ids : SUBSET Jobs,
                                 at : 0 .. MaxClock]]
    /\ worker.pc \in {"poll", "restarts", "deliver", "execute", "stopped", "await", "request",
                      "unawait", "settle", "defer"}
    /\ worker.notices \subseteq Notices /\ worker.job \in Jobs \cup {None}
    /\ resume.pc \in {"idle", "start", "read", "write", "remove"}
    /\ {checkpoint, resume.job} \subseteq Jobs \cup {None}
    /\ armed \subseteq taken /\ taken \subseteq Jobs

(* The panel alone writes restart-jobs.json until the host reboots with a  *)
(* job handed over: the resume service then writes it too, without the     *)
(* lock (NoRepeatAfterCheckpoint is about that).                               *)
PanelAlone == boots = 0 \/ armed = {}

(* At most one restart is scheduled or in flight, so that two maintenance  *)
(* windows never compete for the farm: a new job takes the place of a      *)
(* scheduled one and is refused beside one in flight.                      *)
OneActiveJob ==
    PanelAlone =>
        \A j, k \in Jobs : jobs[j].status \in Active /\ jobs[k].status \in Active => j = k

(* "A timeout or lost HTTP response cannot create a second morning         *)
(* restart": of all jobs with the daily key at most one ever reaches       *)
(* execution.                                                              *)
Reached(j) == jobs[j].status \in InFlight \cup {"executed", "failed"}

OneMorningRestart ==
    PanelAlone =>
        \A j, k \in Jobs : jobs[j].daily /\ jobs[k].daily /\ Reached(j) /\ Reached(k) => j = k

(* "... or replace the first one": a repeated daily request never          *)
(* supersedes the job it repeats.                                          *)
RetryKeepsTheJob ==
    [][\A j, k \in Jobs :
         /\ PanelAlone
         /\ jobs[j].daily /\ jobs[j].status \in Active
         /\ jobs[k].status = "none" /\ jobs'[k].daily
         => jobs'[j].status = jobs[j].status]_vars

(* What has ended stays ended, whatever requests, passes of the worker,    *)
(* deaths and restarts are interleaved: the worker settles and defers a    *)
(* job by what the file says then, not by what it read when it was due.    *)
EndedForGood ==
    [][\A j \in Jobs :
         PanelAlone /\ jobs[j].status \in Ended => jobs'[j].status = jobs[j].status]_vars

(* Schedule and cancel requests cannot take a job out of the hands of the  *)
(* worker that runs it, not even on what they read before it was due.      *)
InFlightIsProtected ==
    [][\A j \in Jobs :
         PanelAlone /\ jobs[j].status \in InFlight
            => jobs'[j].status \notin {"cancelled", "superseded"}]_vars

(* A notice that was cancelled, superseded or sent for the last time is    *)
(* never sent again, although a delivery under way ends after it.          *)
SilencedStaysSilent ==
    [][\A n \in Notices : notices[n].status \in {"cancelled", "superseded", "expired"}
                            => notices'[n].status = notices[n].status]_vars

(* A job that is executing leaves that state: it is settled, deferred or   *)
(* handed over, also when the worker or the panel died while it ran.       *)
ExecutionEnds == \A j \in Jobs : jobs[j].status = "executing" ~> jobs[j].status # "executing"

-----------------------------------------------------------------------------
(* docs/operations-calendar.md:83: a job in flight is immutable to requests *)
(* "so its worker can finish recovery and seal the correct outcome".        *)
(* Somebody is there to end every job that awaits its reboot: the worker    *)
(* that asked for it, or the resume service with its checkpoint.            *)
AwaitingHasAnEnd ==
    \A j \in Jobs : jobs[j].status = "awaiting_reboot" =>
        worker.job = j \/ checkpoint = j \/ resume.job = j

(* docs/maintenance-updates.md:188: with the checkpoint and the status,    *)
(* "the restarted admin panel does not repeat the stop, backup, or update  *)
(* phases".                                                                *)
NoRepeatAfterCheckpoint == [][StopFarm => worker.job \notin armed]_vars

(* docs/admin-panel.md: "At the zero mark, the announcement worker sends a *)
(* final "starting now" notice before execution begins."                   *)
FinalNoticeFirst ==
    [][StopFarm /\ jobs[worker.job].announce => notices[worker.job].final]_vars
=============================================================================
