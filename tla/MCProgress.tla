----------------------------- MODULE MCProgress -----------------------------
(* Small instances of everything that must go on by itself, under the      *)
(* fairness that each module's FairSpec states.  The models share no       *)
(* variable; `part` names the one that runs and never changes, so that     *)
(* strong fairness of a step of one and strong fairness of a step of       *)
(* another are strong fairness of their disjunction.                       *)
EXTENDS Naturals, FiniteSets, TLC

CONSTANTS
    Parts,        \* what the run explores
    None, Gone, Torn

VARIABLES
    part,
    clock, event, lock, due, run, maintenance, performed, byHand, early, faults,
    jobs, notices, held, view, handler, worker, resume, checkpoint, armed, taken,
    rebooting, jobsClock, jobsCrashes, boots,
    schedule, backups, backupLock, tick, slots, failed, backupClock, backupCrashes,
    package, loaded, receipt, world, db, files, edits, farmLock, sets, job, capture,
    restore, apply, strays, ended, farmCrashes, stirred,
    starts, panels, deployment, runs, windows, proofs, request, storeLock, torn,
    inputs, results, age, plan, sleep, batch, last, troubles,
    truth, fp, pending, forced, count, upset, wake, paper, paperAge, note, work,
    made, changes, refreshes, ruins,
    source, fires, row, failing, log, pollLock, poll, duty, told, deaths,
    queue, thread, threadLock, producer, sender, dropped, line, late,
    online, ban, enforced, listed, cooling, session, ticking, crashes,
    recent, unkept, unjust, left,
    market, settled, bank, book, day, scan, claim, bought, informed, slips, ends, commands

-----------------------------------------------------------------------------

Automation == INSTANCE EventAutomation WITH
    Events <- {"once", "daily"},
    Plan <- ("once" :> <<"announcement">>) @@ ("daily" :> <<"map-prewarm">>),
    Repeat <- ("once" :> 0) @@ ("daily" :> 2), MaxRuns <- ("once" :> 1) @@ ("daily" :> 1),
    RunAts <- {1}, Handlers <- {}, Worker <- "worker", MaxClock <- 2, MaxFaults <- 1,
    Refusals <- TRUE

Restarts == INSTANCE RestartJobs WITH
    Jobs <- {"j1"}, Standalone <- {}, Handlers <- {"h1"}, DailyAt <- 2, RetryDelay <- 1,
    Announcing <- {FALSE}, MaxClock <- 2, MaxCrashes <- 1, MaxBoots <- 1,
    clock <- jobsClock, crashes <- jobsCrashes

Backups == INSTANCE BackupSchedule WITH
    Interval <- 2, Retry <- 1, Retentions <- {1}, Day <- 1, MaxClock <- 3, MaxSets <- 2,
    MaxCrashes <- 1,
    sets <- backups, lock <- backupLock, clock <- backupClock, crashes <- backupCrashes

Farm == INSTANCE Maintenance WITH
    Policies <- {"certified"}, RequireReceipt <- FALSE, Actors <- {"restore"},
    MaxBuild <- 1, MaxEdits <- 0, MaxJobs <- 1, MaxCrashes <- 1,
    lock <- farmLock, jobs <- ended, crashes <- farmCrashes

Deployments == INSTANCE AssuredDeploy WITH
    MaxRuns <- 1, MaxBoots <- 1, MaxDeaths <- 1, Handlers <- {"h1"}, MaxWindows <- 2,
    MaxReceipts <- 2, boots <- starts, deaths <- panels, run <- deployment,
    receipts <- proofs, handler <- request, lock <- storeLock

Canary == INSTANCE CanaryAutopilot WITH
    Targets <- <<"community", "publicIp">>, Enabled <- {"community", "publicIp"},
    Retention <- 1, MaxAge <- 1, Lead <- 1, Poll <- 1, Base <- 1, MaxBackoff <- 1,
    Outcomes <- {"ready", "failed"}, MaxStreak <- 1, Faults <- 0,
    receipts <- results, row <- plan, faults <- troubles

Inbox == INSTANCE AlertInbox WITH
    Alerts <- {"a1"}, Pollers <- {"worker", "reader"}, Worker <- "worker",
    Operators <- {"o1"}, MaxFires <- 1, MaxDeaths <- 1, lock <- pollLock

Briefing == INSTANCE OperationsBriefing WITH
    Cats <- {"well", "ill"}, Notifiers <- {"n1"}, Silent <- TRUE, MaxChanges <- 1,
    MaxRefreshes <- 1, MaxDeaths <- 1, source <- truth, failed <- upset,
    receipt <- paper, age <- paperAge, deaths <- ruins

Webhooks == INSTANCE OutboundWebhooks WITH
    Events <- {"e1", "e2"}, Producers <- {"p1", "p2"}, Workers <- {"w1", "w2"},
    Endpoints <- <<"ops">>, Plain <- {}, Capacity <- 2, Attempts <- 2, Uncaught <- FALSE, MaxLate <- 1,
    lock <- threadLock, worker <- sender

Bans == INSTANCE Moderation WITH
    Accounts <- {"a1", "a2"}, Bans <- {"b1"}, Tickers <- {"worker"}, Lists <- FALSE,
    MaxFaults <- 0, tick <- ticking, faults <- crashes

Sales == INSTANCE ArtificialExchange WITH
    NOrders <- 1, Prices <- {1}, Stack <- 1, Cap <- 2, Limit <- 2, AutoClaim <- TRUE,
    PartialFills <- FALSE, TornWrites <- FALSE, MaxRev <- 0, MaxDay <- 0, MaxDeaths <- 1,
    MaxCommands <- 1, file <- book, told <- informed, deaths <- ends

-----------------------------------------------------------------------------

eventVars == <<clock, event, lock, due, run, maintenance, performed, byHand, early, faults>>
jobsVars ==
    <<jobs, notices, held, view, handler, worker, resume, checkpoint, armed, taken,
      rebooting, jobsClock, jobsCrashes, boots>>
backupVars ==
    <<schedule, backups, backupLock, tick, slots, failed, backupClock, backupCrashes>>
farmVars ==
    <<package, loaded, receipt, world, db, files, edits, farmLock, sets, job, capture,
      restore, apply, strays, ended, farmCrashes, stirred>>
deployVars ==
    <<starts, panels, deployment, runs, windows, proofs, request, storeLock, torn>>
canaryVars == <<inputs, results, age, plan, sleep, batch, last, troubles>>
alertVars == <<source, fires, row, failing, log, pollLock, poll, duty, told, deaths>>
briefingVars ==
    <<truth, fp, pending, forced, count, upset, wake, paper, paperAge, note, work,
      made, changes, refreshes, ruins>>
webhookVars == <<queue, thread, threadLock, producer, sender, dropped, line, late>>
banVars ==
    <<online, ban, enforced, listed, cooling, session, ticking, crashes, recent, unkept,
      unjust, left>>
saleVars ==
    <<market, settled, bank, book, day, scan, claim, bought, informed, slips, ends,
      commands>>
panelVars == <<eventVars, jobsVars, backupVars, farmVars, deployVars>>
outerVars == <<canaryVars, alertVars, briefingVars, webhookVars, banVars, saleVars>>
allVars == <<part, panelVars, outerVars>>

ProgressInit ==
    /\ part \in Parts
    /\ Automation!Init /\ Restarts!Init /\ Backups!Init /\ Farm!Init /\ Deployments!Init
    /\ Canary!Init /\ Inbox!Init /\ Webhooks!Init /\ Bans!Init /\ Sales!Init
    /\ Briefing!Init /\ truth.cat = "well"     \* the categories are alike

RunEvents(A) ==
    part = "events" /\ A /\ UNCHANGED <<part, jobsVars, backupVars, farmVars, deployVars, outerVars>>
RunRestarts(A) ==
    part = "restarts" /\ A /\ UNCHANGED <<part, eventVars, backupVars, farmVars, deployVars, outerVars>>
RunBackups(A) ==
    part = "backups" /\ A /\ UNCHANGED <<part, eventVars, jobsVars, farmVars, deployVars, outerVars>>
RunFarm(A) ==
    part = "farm" /\ A /\ UNCHANGED <<part, eventVars, jobsVars, backupVars, deployVars, outerVars>>
RunDeploy(A) ==
    part = "deploy" /\ A /\ UNCHANGED <<part, eventVars, jobsVars, backupVars, farmVars, outerVars>>
RunCanary(A) ==
    part = "canary" /\ A /\ UNCHANGED <<part, panelVars, alertVars, briefingVars, webhookVars, banVars, saleVars>>
RunAlerts(A) ==
    part = "alerts" /\ A /\ UNCHANGED <<part, panelVars, canaryVars, briefingVars, webhookVars, banVars, saleVars>>
RunBriefing(A) ==
    part = "briefing" /\ A
      /\ UNCHANGED <<part, panelVars, canaryVars, alertVars, webhookVars, banVars, saleVars>>
RunWebhooks(A) ==
    part = "webhooks" /\ A /\ UNCHANGED <<part, panelVars, canaryVars, alertVars, briefingVars, banVars, saleVars>>
RunBans(A) ==
    part = "bans" /\ A /\ UNCHANGED <<part, panelVars, canaryVars, alertVars, briefingVars, webhookVars, saleVars>>
RunSales(A) ==
    part = "sales" /\ A /\ UNCHANGED <<part, panelVars, canaryVars, alertVars, briefingVars, webhookVars, banVars>>

ProgressNext ==
    \/ RunEvents(Automation!Next) \/ RunRestarts(Restarts!Next) \/ RunBackups(Backups!Next)
    \/ RunFarm(Farm!Next) \/ RunDeploy(Deployments!Next) \/ RunCanary(Canary!Next)
    \/ RunAlerts(Inbox!Next) \/ RunBriefing(Briefing!Next)
    \/ RunWebhooks(Webhooks!Next) \/ RunBans(Bans!Next)
    \/ RunSales(Sales!Next)

StrongFairness ==
    /\ SF_allVars(\/ RunEvents(Automation!ListDue) \/ RunRestarts(Restarts!Acquire("worker"))
                  \/ RunBackups(Backups!TickRecords) \/ RunDeploy(Deployments!GiveUp)
                  \/ RunCanary(Canary!Begin(FALSE)) \/ RunBriefing(Briefing!Record)
                  \/ RunAlerts(Inbox!Fetch("worker")) \/ RunWebhooks(Webhooks!Enqueue)
                  \/ RunBans(Bans!PublishKick("worker") /\ ticking["worker"].account = "a1"))
    /\ SF_allVars(\/ RunEvents(Automation!RunDue) \/ RunAlerts(Inbox!Sync("worker"))
                  \/ RunBans(Bans!PublishKick("worker") /\ ticking["worker"].account = "a2"))
    /\ SF_allVars(RunEvents(Automation!RefuseDue) \/ RunAlerts(Inbox!Fetch("reader")))
    /\ SF_allVars(RunAlerts(Inbox!Sync("reader")))

PanelFairness ==
    /\ WF_allVars(RunEvents(Automation!Work("worker")))
    /\ WF_allVars(RunRestarts(Restarts!WorkerStep))
    /\ WF_allVars(RunRestarts(Restarts!Request("h1") /\ (held = "h1" \/ handler["h1"].pc # "idle")))
    /\ WF_allVars(RunRestarts(Restarts!Resume))
    /\ WF_allVars(RunRestarts(rebooting /\ Restarts!HostReboots))
    /\ WF_allVars(RunBackups(Backups!Work))
    /\ WF_allVars(RunFarm(Farm!JobStep)) /\ WF_allVars(RunFarm(Farm!CaptureStep))
    /\ WF_allVars(RunFarm(Farm!RestoreStep))
    /\ WF_allVars(RunFarm(Farm!StartCapture("restore") \/ Farm!CaptureBusy))
    /\ WF_allVars(RunDeploy(Deployments!RunnerStep))
    /\ WF_allVars(RunDeploy(Deployments!HandlerStep("h1")))

OuterFairness ==
    /\ WF_allVars(RunCanary(Canary!Tick)) /\ WF_allVars(RunCanary(Canary!BatchStep))
    /\ WF_allVars(RunCanary(Canary!CollectorRaises))
    /\ WF_allVars(RunAlerts(Inbox!Begin("worker")))
    /\ \A p \in {"worker", "reader"} :
         WF_allVars(RunAlerts(Inbox!Tell(p))) /\ WF_allVars(RunAlerts(Inbox!EndPoll(p)))
    /\ WF_allVars(RunBriefing(Briefing!Announce("n1"))) /\ WF_allVars(RunBriefing(Briefing!Work))
    /\ WF_allVars(RunBriefing(Briefing!GrowOld /\ paperAge = "new"))
    /\ \A w \in {"w1", "w2"} : WF_allVars(RunWebhooks(Webhooks!WorkerStep(w)))
    /\ \A p \in {"p1", "p2"} :
         WF_allVars(RunWebhooks(Webhooks!Check(p) \/ Webhooks!Start(p)))
    /\ WF_allVars(RunBans(Bans!Ticking("worker")))
    /\ \A a \in {"a1", "a2"} : WF_allVars(RunBans(Bans!CoolOff(Bans!Kick("b1", a))))
    /\ WF_allVars(RunSales(Sales!Scanning)) /\ WF_allVars(RunSales(Sales!Claiming("service")))

ProgressSpec ==
    /\ ProgressInit /\ [][ProgressNext]_allVars
    /\ StrongFairness /\ PanelFairness /\ OuterFairness

-----------------------------------------------------------------------------
(* What somebody waits for: with i, two of each kind where there are two.   *)
Waiting(i) ==
    CASE part = "events" -> Automation!IsDue(<<"once", "daily">>[i])
      [] part = "restarts" -> jobs["j1"].status = "executing"
      [] part = "backups" -> Backups!Due /\ Backups!NextSet <= 2
      [] part = "farm" ->
           IF i = 1 THEN farmLock # None ELSE restore.pc \notin {"idle", "ended"}
      [] part = "deploy" -> deployment.pc # "none"
      [] part = "canary" ->
           LET t == <<"community", "publicIp">>[i]
           IN  Canary!Stale(t) /\ ~(batch # None /\ Canary!Current = t)
      [] part = "webhooks" -> <<"e1", "e2">>[i] \in Webhooks!Range(queue)
      [] part = "bans" ->
           LET a == <<"a1", "a2">>[i]
           IN  a \in online /\ Bans!InForce("b1", a) /\ recent[Bans!Kick("b1", a)] = 0
      [] part = "sales" -> Sales!Sold # {}
      [] OTHER -> FALSE

(* A due event is run, an execution, a deployment and a restore end and give *)
(* back their lock, a due backup is taken or deferred, a stale proof is run  *)
(* again, an event queued for the webhooks is taken, a banned player is      *)
(* kicked and a seller paid: whatever fails, dies or restarts on the way.    *)
NothingWaitsForEver == \A i \in {1, 2} : []<> ~Waiting(i)

(* Once the sources are at rest the inbox and the briefing come to show what *)
(* they show, and keep showing it.                                           *)
ComesToTheTruth ==
    <>[] /\ part = "alerts" => Inbox!Current
         /\ part = "briefing" => /\ paper # None /\ paper.cat = truth.cat
                                 /\ Briefing!ShownCurrent
=============================================================================
