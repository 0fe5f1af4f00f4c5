# A TLA+ development of DASH, the Dune Awakening self-host panel

DASH runs and administers a self-hosted Dune: Awakening server: a Python admin
panel (`src/admin`), operator scripts and watchdogs (`src/scripts`) and the
containers they drive. This directory holds TLA+ models of the parts of it
whose correctness depends on order, concurrency and failure, TLC runs that
check them on small instances, and theorems checked by TLAPS.

All file references are relative to the repository; line numbers in comments and
in `PROJECT.json` refer to the commit that is modelled.

## 1. Inventory

### How the program runs

The panel (`src/admin/admin_panel.py`) is one process: a threading HTTP server
whose handler threads run `do_GET`/`do_POST`, and a dozen daemon worker threads
(announcements and restarts, events, autoscaler, memory balancer, backups,
community rewards, webhooks, canaries, briefing). State is kept in SQLite
databases (one class `Store` per database, one short transaction per method),
in JSON files that are loaded, changed and replaced, and in module globals that
do not survive a restart. The panel is restarted by its own supervisor, by
`SystemExit(75)` when its code changes, and by deployments. Other processes
read or write the same files: backup scripts, watchdogs, the artificial buyer.

### Components

| Component | State it keeps | Operations | Interacts with | Correct when |
|---|---|---|---|---|
| Change approvals (`change_approvals.py`) | requests, event ledger | create, approve, reject, cancel, consume, get/list, expiry inside each | dispatcher, audit | only four-eyed executions, once, in time; ledger replays to the rows |
| Audit ledger (`audit_ledger.py`, `snapshot-audit-ledger.py`) | hash chain, separate anchor, cached verification | append, verify, request state, snapshot by another process | every audited route | acknowledged means sealed; fails closed; snapshots consistent |
| Change contracts (`change_contracts.py`) | secret and replay guard in memory | issue, verify, consume | dispatcher | one attempt, for what was reviewed |
| Flight recorder (`do_POST`, `audit_event`, `reconcile_privileged_request`) | events in the ledger | admit, complete, reconcile | ledger, all mutations | nothing runs unrecorded; each request's story is told once |
| Dispatch gates (`do_POST`) | the request in hand | contract, admission, approval, route | the four above | whatever runs passed all gates; no approval lost off the record |
| Community rewards (`community_rewards.py`, delivery tick) | wallets, ledger, offers, purchases, deliveries, webhooks, tracks, playtime, engagement | credit, purchase, claim, deliver, refund, reconcile, observe | game database, worker, operators | money, stock and items agree; nothing is paid or credited twice |
| Outbound webhooks (`outbound_webhooks.py`) | bounded queue, worker that ends when idle | enqueue, deliver, retry | audit events | events go out in order, within the attempts, by one worker |
| Moderation (`moderation.py`, `moderation_tick`) | bans, allowlist, sessions, kicks | ban, unban, tick, presence | game, broker | a ban is enforced until it ends, a kick has its cooldown, a session is a visit |
| Artificial exchange (`artificial-exchange-bot.py`) | spending of the day in a file, orders in the database | scan, buy, tell, claim | game database, claim command | money is conserved, nothing bought above the price seen |
| Restart scheduler and announcements | job files, checkpoint of the host | schedule, cancel, execute, defer, resume | maintenance, host | every job ends; one at a time; cancelled stays cancelled |
| Maintenance (restart phases, backups, restore, staged builds) | packages, backup sets, operation lock | restart, capture, restore, apply | database, files, Docker | updates are covered by a verified backup; torn data can be recovered |
| Backup schedule | schedule, retained sets | tick, configure, retain | maintenance | due backups are made; only expired sets are removed |
| Event automation (`event_automation`) | events, runs | save, run, cancel | announcements, warm maps, restarts | runs once per due time, within its limit; a cancel is final |
| Alert inbox (`alert_inbox.py`) | alert rows, telling log | poll, acknowledge, notify | Prometheus rules, operators | every change is told once, in order |
| Operations briefing | fingerprint, receipt, wake event | notify, check, build, present | backups, alerts | the briefing shown is current |
| Canary autopilot | plan with back-off | poll, run, record | canaries | no canary before its time |
| Deployment assurance | windows, signed receipts | start, finish, cancel, recover | deploy runner | what is called a success is proved |
| Map autoscaler | idle windows, demand, cooldowns, drain marker | tick, start, stop | maps, deploys | no map stopped within its window |
| Memory balancer | captured limits | tick, enable, set, unset | Docker | limits that were captured come back |
| Swap-warm daemon | squeezed and restored times in its memory | cycle, squeeze, restore | Docker, its switch | held maps stay, calm before squeeze |
| Map watchdog (`watch-maps.sh`) | counters, graces, pause marker | pass, recover | Docker, autoscaler | recoveries on evidence, none during a grace |
| Observability stores, access control, federated login, drills, desired state, chat commands, public directory | samples, roles, sessions, own small stores | report, authorize, answer | all | per-request decisions |
| Base, vehicle and character operations | receipts | preview, apply, restore | game database | what was previewed is what is applied |

Left aside: the `ue4ss`, loader and reverse-engineering tools (most of the
repository's lines), vendored `pika`, item catalogues, the public site and packaging.

### What is hard

* **Interleaving.** Store methods are atomic, the panel's work is not: it reads
  a store, calls something slow and writes a store again, in several threads.
* **Clocks.** Methods read the clock before they hold a lock, so a transaction can
  run with an old reading; two calls for one decision read the clock twice.
* **Crashes.** Effects that span two files (event and anchor), two stores
  (approval and route) or two systems (item and delivery row) can be cut in half.
* **Cached answers.** The ledger's verification is cached; ticks decide with what
  they read before calls that take minutes.
* **Repetition.** Clients, providers and workers repeat requests.

`PROJECT.json` lists each hazard with its line and the property that watches it.

## 2. The modules

```
DualControl  <--implements-- ChangeApprovals <-- ChangeApprovals_proofs
SealedLog    <--implements-- AuditLedger
FlightRecorder (over SealedLog)              <-- FlightRecorder_proofs

AdminDispatch = ChangeContracts + FlightRecorder (over SealedLog) + DualControl
                                             <-- AdminDispatch_proofs

OutboundWebhooks, SwapWarm: each <-- X_proofs

Ledgers = AuditLedger | CommunityRewards | Playtime | Engagement (with Sums)
                                             <-- Ledgers_proofs
Watch   = AlertInbox | OperationsBriefing    <-- Watch_proofs
Work    = EventAutomation | RestartJobs | BackupSchedule
                                             <-- Work_proofs

MCLedgers     Ledgers
MCContracts   AdminDispatch
MCWork        Work + RestartJobs with other settings + Maintenance
MCWatch       Watch + CanaryAutopilot + AssuredDeploy
MCOutside     OutboundWebhooks + Moderation + ArtificialExchange
MCMapServices SwapWarm + Autoscaler + MemoryBalancer + MapWatchdog
MCProgress    everything that must go on by itself
```

**The MC modules** give model values and instances. `AdminDispatch` *composes* its
parts: they share variables. `Ledgers`, `Watch` and `Work` (written with `|` above) and the other MC modules put models side by side that share none, so a
behaviour of all of them is an interleaving of one behaviour of each and a property of
one is decided by its own steps. A variable `part`, which never changes, says which one
runs while the others rest in an initial state: TLC explores the sum of the state spaces
and not their product. A property there is the conjunction of the properties of its
parts. Strong fairness of a step of one part and strong fairness of a step of another
are strong fairness of their disjunction, because only one of the two can ever be enabled.

Operators whose comment begins with **Fault** are not part of any specification.
Each is a wrong variant of the definition below it, the kind of slip a change to
the code could make; putting it in place of the definition breaks the property
that `PROJECT.json` names with it, which shows that the property depends on
that part of the code.

### DualControl and ChangeApprovals

`DualControl` is four-eyes control without clocks or locks: somebody asks for one
exact mutation, somebody else agrees, and it may then be run once.

`ChangeApprovals` is the SQLite store. A method is three steps: `Call` reads the
clock, one of `Create`/`Approve`/`Reject`/`Cancel`/`Consume` is the transaction
(`begin immediate` to commit, with `_expire` inside it, exactly as in the code),
and `Reread` + `Read` is the `get()` that every mutating method ends with, a
second transaction that expires again. `Refuse` is any failed check: the
exception rolls back, so expiries made by that transaction are undone.
`Locked` is SQLite's busy timeout. A thread whose `consume` has returned is
recorded in `granted`: this is the point at which the dispatcher goes on.
`rows[i]` and `events[i]` are the two tables; ids are used once. The body HMAC
is represented by the body it stands for. `TwoPersonRule` is the promise of the component
over races, expiry and restarts; `LedgerTellsTheStory` says that the events replay to the
row and that reading the clock before the lock costs at most the lock wait.

### SealedLog and AuditLedger

`SealedLog` is an append-only log with a seal: an event is acknowledged only
when it is sealed, and nothing follows an unsealed event.

`AuditLedger` is `append()` in its four observable steps (lock and cache lookup,
transaction, anchor, remembering the verification) with an exception possible
at each, `verify()`, the cached verification with its artifact signature and age,
`snapshot-audit-ledger.py` as a second process that copies the anchor and later
the database, process restarts, and damage to the artifacts. The HMAC chain is
abstracted to what its verification would say: `damage` is whether an artifact was
changed behind the store's back, while no call was in the store (`quiet`) or
while one was (`racing`, when the lock is held).

### ChangeContracts, FlightRecorder, AdminDispatch

`ChangeContracts`: `Issue`, `Verify`, `ReadGuardClock` and `Consume`/`RefuseReplay`; the
two clock readings are separate steps because the code makes them separately, the second
one before it waits for the guard's lock. `process` numbers the panel's processes
and stands for the secret drawn at start.

`FlightRecorder`: a task is a POST from admission to completion; its `pc` says which append
it is making or whether it stands before its route. Appends hold the ledger's lock over
`SealedLog`'s `Commit` and `Seal` and may fail at each step; a failed admission
refuses the request, a failed completion is swallowed, a failed reconciliation is
answered with an error. Reconciliation is itself a privileged request, whose
route holds `AUDIT_RECONCILIATION_LOCK`. Best-effort events of other kinds are left
out: they do not carry the lifecycle of a request.

`AdminDispatch`: the gates of `do_POST` in their order, over the real actions of
`ChangeContracts` and `FlightRecorder` and the abstract `DualControl` and `SealedLog`
in place of the stores that implement them. The body is parsed once and kept, so a
request is one operator and one target throughout. An approval id comes with the
request, in a header or in the body. `DispatchIsGated` relates the three stores at the
moment a route has run, and says that an approval is never used up by a request of
which the sealed ledger knows nothing.

### CommunityRewards, Playtime, Engagement

`CommunityRewards` is one offer, its purchases and their deliveries; each store method is one
action, because it is one `begin immediate` transaction. `community_delivery_tick` is several:
`Claim`, then `Release` (player online), `FailDefinitively` or `Preflight`, then `Grant`
once per item, written into the game's database, then `Complete`; `GrantRaises` is an exception
in a grant, with or without the item written; `Abandon` one that nothing catches below the
worker's loop. `game[i]` is what the player really received. `ShopBooksBalance`: conservation
of money, stock neither oversold nor leaked, items and money agree, the two rows of an order
agree, a repeated request does not buy twice.

`Playtime` is `observe_playtime`, the tracks' progress and the level claims, with samples that
commit late; `Engagement` is active seconds, days and weeks with grace, gaps and tiers that
repeat. `PlaytimeIsReal` and `EngagementIsEarned` relate what was credited to what happened. The
configured values of the engagement rewards are one record, `policy`, chosen initially. With two
ticking threads an older sample of playtime that commits late sets the row back, and the time is
counted again: the finding `RepeatGrantsNothing` of section 4. The histories `late` and `back` count
such observations and the seconds they set back, and `PlaytimeIsReal` says that this is all that is
counted too much (`SecondsAreKept`, `DowntimeIsBounded`), and that there is none of it while one
thread ticks (`OneThreadIsInTime`).

`Ledgers` puts the three beside the audit ledger, with every constant left open, and states
what is checked of the composition; `MCLedgers` only gives values. Sums over orders, entries of the
ledger and days are `Total` of the module `Sums`, which counts units: a sum is then the
cardinality of a set, and the theorems about finite sets apply to it.

### RestartJobs, Maintenance, BackupSchedule, EventAutomation

`RestartJobs` is the announcement worker with its job and notice files, requests that
schedule and cancel between its reads and writes, the checkpoint and the resume service of the
host, panel deaths and reboots. `Maintenance` is what a restart job runs: preflight, disconnect,
stop, dump, archive, verify, update, start; beside full captures, restores, staged builds and
the operation lock. The data has two versions, of database and files; a set is the pair that was taken. A
command that its caller gave up on may take effect later (`strays`), with the data that caller had taken.
`stirred` remembers whose stopped world somebody else has started or restored since: only then,
or when the update itself came late, may a build change under data that no verified set holds
(`UpdateIsCovered`), and only then may a restore replace what was not captured (`TornHasRecovery`). `BackupSchedule` is `backup_schedule_tick` with retries and retention.
`EventAutomation` is the event worker and the handlers: load, perform each primitive, record;
`EVENT_LOCK` is held over a run and a cancel waits for it. `EventsKeepTheirPlan` counts what
was performed: `faults` are deaths of the panel during a run, each of which can repeat it once, and
the history `byHand` tells what an operator ran since the worker's list from what the worker did early.

### AlertInbox, OperationsBriefing, CanaryAutopilot, AssuredDeploy

`AlertInbox`: a poll holds `ALERT_INBOX_POLL_LOCK` while it fetches, merges the answer in one
transaction and tells what the transaction recorded, one transition at a time; operators acknowledge
meanwhile. `InboxIsTrue` relates the rows, the transitions and what was told. `OperationsBriefing`: invalidations, forced refreshes and a worker that
collects, builds and publishes while they arrive. `CanaryAutopilot`: polls of targets with
receipts, back-off and leads (all times relative). `AssuredDeploy`: the runner script,
lost answers, writes that fail and deaths on both sides of the window's requests.

### OutboundWebhooks, Moderation, ArtificialExchange

`OutboundWebhooks`: producers that enqueue, a bounded queue, workers that end when idle and
may die of an exception, attempts per endpoint, and endpoints (`Plain`) whose http address is not allowed:
those are recorded as failed without an attempt. An event whose worker dies is over for the endpoints
that were left: `InOrder` says that none is sent late, not that each is sent to all.

`Moderation`: ticks of several threads that read the players, judge each by ban and then by allowlist,
kick and record in separate steps, any of which a death of the panel or an error of the record can cut
off; bans that expire or are revoked. What several threads make of a cooldown, a revoked
ban or a session is not what one would: `KicksAreFew`, `RevokedBansEnd` and `SessionsEndForCause` say how
far they can go beyond it, by the threads and by the records lost.

`ArtificialExchange`: a scan in one transaction beside sellers, repricing, the claim command, midnights and
deaths. The history `slips` counts, by day, what was bought and is missing from the file:
by a death between commit and file, by a claim command that writes back the spending it had read, by a torn file,
by a purchase in part, or by one that commits after midnight. `OnlySlipsExceed`: a day's purchases exceed
its cap by no more than that.

### SwapWarm, Autoscaler, MemoryBalancer, MapWatchdog

Loops that decide with what they have read and then act on Docker for a long time; their
memory is lost with the process where the code keeps it in variables.

`SwapWarm` follows the daemon's switch, its unanswered status calls and the fleet's script as well. The
histories `calm` and `missed` tell how long no cycle has met the map in use, but one that could not look;
`free` and `restorer` how long a restored map has been resident and who restored it. `HoldKept` and
`CalmBeforeSqueeze` name what the code keeps in each case. In `Autoscaler` a start or a stop may be answered
with a failure, or raise and end the reconciliation at any point (`CutShort`), so that nothing it saw
is written: `stale` marks the idle windows that should have ended, `lost` the travel requests it had read.
`WindowsAreKept` says that no other window is cut and no other request is forgotten.

## 3. The runs

| Run | Instance | Shows |
|---|---|---|
| `approvals` | 2 threads, 2 operators, 1 request, 2 bodies, lifetime 2, lock wait 1, clock to 3 | four eyes, one use, in time; events tell the rows' story; refines DualControl |
| `ledgers` | ledger: 2 threads, 3 events (two with one id), cache age 1, clock to 3; shop: 2 tickers, 1 buyer, 2 orders, prices 0 and 1, stock 2 or unlimited, 2 versions; tracks: 2 tickers, 1 account, clock to 3; engagement: 2 tickers, 4 days, 2 policies | the ledger is sound, closes and notices damage; no purchase is paid or delivered twice, nothing is earned but what was played, or what lateness costs; refines SealedLog |
| `contracts` | 2 threads, 2 operators, 2 targets of which one is under four eyes, 1 contract of lifetime 1, 1 approval, 2 requests, clock to 1, 1 restart | contracts are honoured as reviewed, once while alive; a route has passed all gates |
| `recorder` | 2 threads, 3 requests | no unsealed run, one story per request, every request returns |
| `services` | one map for the daemon, with 1 death, stop, failure and unanswered call each, its switch flipped and the fleet disabled at any time; autoscaler: one map, worker and requests, starts by hand, reconciliations that raise, and `pair`, two maps and the worker alone; balancer: two maps, with and without failing updates; watchdog: two maps, and one that the autoscaler stops | holds, idle windows, captured limits and graces are kept |
| `services_live` | the same under fairness, without faults of the daemon and reconciliations that raise | warm maps follow use; travel is served, limits settle, crashed maps come back |
| `work` | 2 events, 2 jobs, 2 sets of the schedule, panel deaths and a reboot; maintenance in five parts: `upkeep` (job and capture; 2 builds, 1 edit, 2 jobs, 1 death), `restored` (capture and restore; 2 edits, 1 death), `beside` (job, restore and late commands; 2 builds, 2 edits, 1 death), `late` (late commands with Steam updates; 3 builds, 1 edit, 2 jobs, 1 death), `outside` (game-apply besides; 3 builds, 1 edit, 1 death) | events keep their plan, a cancel is final, restarts are orderly, the schedule is honest, data is covered |
| `watch` | 1 alert with 2 firings and 2 operators; 2 categories; 1 and 2 canaries; 2 deploy runs, deaths and failing writes | told in order and truly, briefing fresh, canaries wait, deployments proved |
| `outside` | 3 events, 3 producers, 2 workers, 3 endpoints of which one is not allowed, queue of 2; 2 players or an allowlist with one ticking thread, and `threads`: two of them with 2 deaths or lost records; exchange: `market` (3 orders, cap 2, a repricing, a death), `overnight` (3 orders, cap 1, a midnight, a death), `claims` (claim commands beside the service), `fills` (purchases in part) | events in order and within attempts, bans enforced, books balance |
| `progress` | the smallest instance of eleven activities; the bans without faults, which `outside` has | nothing waits for ever, the two views come to the truth |
| `contracts_replay`, `rewards_stuck` | as above or smaller | the findings of section 4 |

**Why these bounds are enough to be interesting.** Two threads are what every race of
these components needs (approve against consume, two consumers, a completion
against a reconciliation, a tick against a request). One approval id suffices because rows
do not interact except through expiry, which treats them alike. Clocks run to the end of every
lifetime, and for approvals a step beyond lifetime plus lock wait, so that on-time, late and too-late all occur. The ledger
needs a second event for order, and a second payload for an id collision.
Two orders with a stock of 2 give overselling, partial grants, and refunds into a newer version.
A queue of 2 with three producers is full while a worker dies. A restart or death of the
process may happen at any step where the code has one; it is counted.

**Bounds in the models.** Every constant whose name begins with `Max` is a bound of the model
and not of the program, except `MaxGap`, `MaxHours`, `MaxAge`, `MaxBackoff` and EventAutomation's `MaxRuns`,
which are the code's own settings; ids are finite sets and are used once, as random ids are. Deadlines
are relative (time left, age) where the code compares differences only, and need no bound.

**Deadlock** is checked in `approvals`, `recorder`, `services` and `services_live`. Elsewhere
clocks, ids and counted failures run out, so that the last states have no successor; the
program would go on with fresh ids.

**Symmetry** is used for safety runs only, over threads, operators, requests and
accounts that the specifications treat alike; never in a run with a liveness property.

**Fairness**, and why the code justifies it:

| Module | Assumed | Because |
|---|---|---|
| FlightRecorder | WF of each thread's steps | the interpreter schedules every runnable thread; SQLite and file calls return or raise. Ids are finite, so nobody waiting for a lock is overtaken for ever |
| CommunityRewards | WF of each thread's ticks | the worker's loop catches every exception |
| EventAutomation | WF of a run's steps, SF of the three steps that take up due events | the worker wakes every 5 s and waiters of `EVENT_LOCK` get it in the end |
| RestartJobs | WF of worker, begun requests, resume service and a reboot under way; SF of the worker's lock | the worker is supervised, requests return, the resume unit runs at boot |
| BackupSchedule | WF of a tick's steps, SF of writing its record | calls have timeouts; the disk does not fail for ever |
| Maintenance | WF of each phase of job, capture and restore | every call has a timeout and a failure path |
| OutboundWebhooks | WF of the workers' steps and of begun `enqueue` calls | HTTP timeouts, `queue.get` waits at most 1 s; for `EventsAreTaken` also that audited requests go on |
| AssuredDeploy | WF of runner and handlers, SF of giving up | the runner's deadlines run while it retries |
| CanaryAutopilot | WF of time, the batch and inputs that come back; SF of the worker's start of a poll | polls have an interval and share one lock with requests |
| Autoscaler | SF of scanning, of a due reconciliation and its reads, and of actions that succeed; WF of writes, release | the loop catches exceptions; a lock or a marker is released again and again, and Docker does not refuse for ever |
| MemoryBalancer | SF of the worker's tick, WF of Docker updates and records | as above |
| Moderation | WF of ticks and cooldowns, SF of publishing each kick | the broker does not refuse for ever |
| AlertInbox | WF of polls and their end, SF of fetching, merging | the rules' API does not fail for ever |
| OperationsBriefing | WF of announcements, work and aging, SF of recording | a build does not fail for ever |
| ArtificialExchange, MapWatchdog | WF of the loop's steps, for the watchdog SF of a look at each map | systemd `Restart=always`, probe timeouts |
| SwapWarm | WF of the cycle, of its start and of time | one poll interval after the other |

Nothing is assumed of operators, players, sellers, deaths or restarts.

## 4. Where the code and its documentation differ

Two differences are runs that must find the violation:

1. **`contracts_replay`**: the replay guard prunes with a later clock reading than
   the one that verified the contract (`src/admin/change_contracts.py:420-425`). Two
   threads that verified in the contract's last moment both pass, against
   `docs/change-contracts.md:43`. `OnceWhileAlive` is what holds.
2. **`rewards_stuck`**: a tick that ends between claim and settlement leaves its
   delivery in `processing`, from which neither the worker nor an operator can take it
   (`src/admin/admin_panel.py:12301`, `src/admin/community_rewards.py:625` and `:660`),
   against the state diagram at `docs/community-rewards.md:254`.

The others are defined in their modules, each under a comment that quotes what it
contradicts, and can be shown with a cfg of that module alone that allows
the event in the last column.

| Module | Definition | Code | What happens |
|---|---|---|---|
| AuditLedger | `AdmissionScansChain` | `admin/audit_ledger.py:306` | an admission accepts a cached verification (`docs/audit-ledger.md:55` promises a scan) |
| FlightRecorder | `ReconcileRejectsTerminal` | `admin/admin_panel.py:790` | a completion is sealed between the check and the append of a reconciliation |
| AdminDispatch | `SpentApprovalIsNamed` | `admin/admin_panel.py:13521` | an approval id in the body is honoured but not named in the admission |
| RestartJobs | `AwaitingHasAnEnd` | `admin/admin_panel.py:3451` | a panel death after `awaiting_reboot`, before the checkpoint, leaves a job nobody can end |
| RestartJobs | `NoRepeatAfterCheckpoint` | `admin/admin_panel.py:3458` | a reboot reported as failed after its checkpoint lets the job run again (`MaxBoots` 1) |
| RestartJobs | `FinalNoticeFirst` | `admin/admin_panel.py:3032` | a job is due before its announcement is scheduled (`Announcing` TRUE) |
| BackupSchedule | `OneBackupPerDueTime` | `admin/admin_panel.py:8796` | a panel death during a backup makes it twice for one due time |
| BackupSchedule | `FirstRunStands` | `admin/admin_panel.py:8796` | a first run configured during a tick is overwritten by it |
| AssuredDeploy | `OneReceiptPerWindow` | `admin/deployment_assurance.py:463` | a death between receipt and window gives a window two receipts |
| AssuredDeploy | `PreChangeIsReferenced` | `scripts/assured-control-plane-deploy.sh:329` | a resumed window carries the earlier run's pre-change backup (`MaxRuns` 2) |
| AssuredDeploy | `PostChangeIsReferenced` | `scripts/assured-control-plane-deploy.sh:254` | a forgotten finish closes a resumed window over the earlier backup (`MaxRuns` 2) |
| Autoscaler | `IdleWindowIsWhole` | `admin/admin_panel.py:4627` | a map started by hand keeps its old idle window (`ByHand`) |
| Autoscaler | `IdleWindowIsWhole` | `admin/admin_panel.py:4681` | a visit seen by a reconciliation that raises is forgotten (`CutShort`) |
| Autoscaler | `DemandIsRemembered` | `admin/admin_panel.py:4491` | a demand read by a reconciliation that raises is not read again (`CutShort`) |
| Autoscaler | `NobodyIsCutOff` | `admin/admin_panel.py:4572` | players that come after the count are cut off by the stop |
| Autoscaler | `DrainedIsQuiet` | `admin/admin_panel.py:4545` | a tick between marker and `running` is invisible to a deploy |
| OperationsBriefing | `DetailIsCurrent` | `admin/admin_panel.py:6112` | a completion between comparison and clearing loses its forced refresh |
| OperationsBriefing | `NotShownAgain` | `admin/admin_panel.py:6076` | a build that began before an invalidation is shown as current again |
| CanaryAutopilot | `NotEveryPoll` | `admin/canary_autopilot.py:208` | a lead not shorter than the lifetime runs the canary at every poll (`Lead` > `MaxAge`) |
| CanaryAutopilot | `NotEveryPoll` | `admin/canary_autopilot.py:200` | one retained receipt that does not verify runs it at every poll (`slow`) |
| CanaryAutopilot | `OthersStaySchedulable` | `admin/admin_panel.py:5756` | an error of any collector, even a disabled target's, ends the poll |
| Engagement | `NothingFromNowhere` | `admin/community_rewards.py:867` | an observation without a place, within the grace, adds active time |
| EventAutomation | `EveryRunIsRecorded` | `admin/admin_panel.py:7477` | a death between primitives and record repeats them (`MaxFaults` 1) |
| EventAutomation | `KeepsItsTime` | `admin/admin_panel.py:7457` | after an outage longer than a period the event keeps a new phase |
| EventAutomation | `LeavesMaintenance` | `admin/admin_panel.py:3031` | a recurring restart supersedes the operator's maintenance |
| ArtificialExchange | `CapsHold` | `scripts/artificial-exchange-bot.py:2794` | a death between commit and file buys up to the caps again (`MaxDeaths` 1) |
| ArtificialExchange | `CapsHold` | `scripts/artificial-exchange-bot.py:2672` | a claim command writes back the spending it had read (`MaxCommands` 1) |
| ArtificialExchange | `ToldIsSold` | `scripts/artificial-exchange-bot.py:2786` | a seller is told of a purchase that is rolled back |
| ArtificialExchange | `RemainderIsRejected` | `scripts/artificial-exchange-bot.py:2780` | a partial purchase is committed and not counted (`PartialFills`) |
| ArtificialExchange | `ComesBack` | `scripts/artificial-exchange-bot.py:212` | a file torn by a death is never read again (`TornWrites`, FairSpec) |
| Maintenance | `CertifiedBuildOnly` | `scripts/restart-target.sh:245` | a job activates a build staged after its preflight (`MaxBuild` 3) |
| Maintenance | `UpdatesWhatIsSaved` | `admin/admin_panel.py:3122` | an update that its caller gave up on changes a build after the world was started again (`Actors` stray, `MaxEdits` 1) |
| Maintenance | `ApplyActivates` | `admin/admin_panel.py:6696` | an apply restarts without loading the candidate (`Actors` apply) |
| Maintenance | `RecoveryViewIsStable` | `admin/admin_panel.py:10678` | a backup dumps a half-restored database |
| Maintenance | `RestoreIsQuiet` | `admin/admin_panel.py:10674` | a restart starts the world under a restore (`MaxJobs` 1) |
| MemoryBalancer | `DisablingRestores` | `admin/admin_panel.py:4144` | a repeated enable captures moved limits (`Again`) |
| MemoryBalancer | `DisablingRestores` | `admin/admin_panel.py:4123` | a limit raised by a tick that raises is captured as the baseline (`Fails`) |
| MemoryBalancer | `DisablingRestores` | `admin/admin_panel.py:4170` | a disable between Docker and the record (two requests) is undone |
| MemoryBalancer | `DisablingRestores` | `admin/admin_panel.py:4177` | a tick in flight limits the map that an unset freed |
| Moderation | `CooldownHolds` | `admin/admin_panel.py:12457` | two ticks kick within one cooldown (2 tickers), or one whose record was lost (`MaxFaults` 1) |
| Moderation | `UnbanStops` | `admin/admin_panel.py:12473` | a ban revoked during a kick still ejects |
| Moderation | `SessionsAreVisits` | `admin/admin_panel.py:12430` | an older sample closes a session (2 tickers) |
| Playtime | `RepeatGrantsNothing` | `admin/community_rewards.py:742` | a late, older observation counts time again (2 tickers) |
| Playtime | `XpPerInterval` | `admin/admin_panel.py:12286` | one account's progress marker takes the interval of all (2 accounts) |
| MapWatchdog | `ConsecutiveEvidence` | `scripts/watch-maps.sh:524` | degraded observations need not follow each other |
| MapWatchdog | `PauseIsHonoured` | `scripts/watch-maps.sh:556` | a pass goes on recovering after the pause marker (`Pauses`) |
| MapWatchdog | `StoppedStays` | `scripts/watch-maps.sh:517` | a container being stopped is recovered (`Autoscales`) |
| MapWatchdog | `StartsAlone` | `scripts/watch-maps.sh:129` | a one-shot pass recovers what the service recovers (`MaxOnce` 1) |
| SwapWarm | `HotIsRestored` | `scripts/swap-warm-daemon.sh:99` | squeezed maps of a dead daemon stay squeezed (`MaxDeaths` 1) |
| SwapWarm | `PauseRestores` | `scripts/swap-warm-daemon.sh:171` | a failed restore counts as done (`MaxFails` 1) |
| SwapWarm | `IdleIsSqueezed` | `scripts/swap-warm-daemon.sh:178` | a restarted container counts as squeezed (`MaxStops` 1) |
| SwapWarm | `HeldForAll` | `scripts/swap-warm-daemon.sh:129` | a restore by the switch sets no hold (`Flips`), and a dead daemon's hold is forgotten (`MaxDeaths` 1) |
| SwapWarm | `CalmForAll` | `scripts/swap-warm-daemon.sh:176` | use while the switch is off or the status unanswered does not count (`Flips`, `MaxBlind` 1) |
| SwapWarm | `ModeIsMinded` | `scripts/swap-warm-daemon.sh:178` | the daemon reads no mode (`Disables`) |
| OutboundWebhooks | `EventsAreTaken` | `admin/outbound_webhooks.py:185` | a dead worker with a full queue is never replaced (`Uncaught`) |

## 5. What is proved

Each `X_proofs` module EXTENDS the component `X`, or the composition `X` of several, and proves, for every set of
threads, ids and values and every value of the bounds that the module's own named
assumption allows, what the runs check on small instances. TLC evaluates those assumptions
in the runs.

| Module | Theorem | States |
|---|---|---|
| ChangeApprovals_proofs | `TypeCorrect` | `Spec => []TypeOK` |
| ChangeApprovals_proofs | `FourEyed` | `Spec => []TwoPersonRule` |
| ChangeApprovals_proofs | `ConsumedOnTime` | `Spec => ConsumedInTime` |
| ChangeApprovals_proofs | `RefinesDualControl` | `Spec => ImplementsDualControl` |
| ChangeApprovals_proofs | `StoryIsTold` | `Spec => []LedgerTellsTheStory` |
| Ledgers_proofs | `TypeCorrect` | `Spec => []TypeOK` |
| Ledgers_proofs | `AnchorLags` | `Spec => []AnchorLagsByAtMostOne` |
| Ledgers_proofs | `AcknowledgedIsSealed` | `Spec => []AckedIsSealed` |
| Ledgers_proofs | `CopyIsConsistent` | `Spec => []SnapshotIsConsistent` |
| Ledgers_proofs | `RefinesSealedLog` | `Spec => ImplementsSealedLog` |
| Ledgers_proofs | `UnsealedHeadCloses` | `Spec => UnsealedHeadClosesLedger` |
| Ledgers_proofs | `QuietDamageCaught` | `Spec => QuietDamageIsCaught` |
| Ledgers_proofs | `LedgerSound` | `Spec => []LedgerIsSound` |
| Ledgers_proofs | `LedgersBalanceTheShop` | `LedgersSpec => []ShopBooksBalance` |
| Ledgers_proofs | `LedgersKeepPlaytime` | `LedgersSpec => []PlaytimeIsReal` |
| Ledgers_proofs | `LedgersKeepEngagement` | `LedgersSpec => []EngagementIsEarned` |
| FlightRecorder_proofs | `TypeCorrect` | `Spec => []TypeOK` |
| FlightRecorder_proofs | `SealedBeforeRun` | `Spec => []RunIsSealed` |
| FlightRecorder_proofs | `ToldOnce` | `Spec => []OneStoryPerRequest` |
| AdminDispatch_proofs | `EveryGateIsPassed` | `Spec => []DispatchIsGated` |
| AdminDispatch_proofs | `OnlyAsReviewed` | `Spec => []AcceptedAsReviewed` |
| AdminDispatch_proofs | `AcceptedOnceWhileAlive` | `Spec => []OnceWhileAlive` |
| AdminDispatch_proofs | `ContractsAreSound` | `CC!Spec => [](CC!TypeOK /\ CC!AcceptedAsReviewed /\ CC!OnceWhileAlive)` |
| AdminDispatch_proofs | `PartsAreUsedAsSpecified` | `Spec => CC!Spec /\ FR!Spec /\ DC!Spec` |
| AdminDispatch_proofs | `RecorderKeepsItsWord` | `Spec => [](FR!RunIsSealed /\ FR!OneStoryPerRequest)` |
| Watch_proofs | `TypeCorrect` | `Spec => []TypeOK` |
| Watch_proofs | `NoGenerationOfItsOwn` | `Spec => []GenerationsAreReal` |
| Watch_proofs | `OrderlyTelling` | `Spec => []ToldInOrder` |
| Watch_proofs | `InboxTrue` | `Spec => []InboxIsTrue` |
| Watch_proofs | `BriefingFresh` | `Briefing!Spec => []BriefingIsFresh` |
| Work_proofs | `TypeCorrect` | `Spec => []TypeOK` |
| Work_proofs | `CancelledForGood` | `Spec => CancelIsFinal` |
| Work_proofs | `PlanIsKept` | `Spec => []EventsKeepTheirPlan` |
| Work_proofs | `ScheduleHonest` | `Backups!Spec => ScheduleIsHonest` |
| Work_proofs | `RestartsOrderly` | `Restarts!Spec => RestartsAreOrderly` |
| OutboundWebhooks_proofs | `TypeCorrect` | `Spec => []TypeOK` |
| OutboundWebhooks_proofs | `OneWorkerOnly` | `Spec => []OneWorker` |
| OutboundWebhooks_proofs | `SentInOrder` | `Spec => []InOrder` |
| OutboundWebhooks_proofs | `DeliveriesTrue` | `Spec => []DeliveriesAreTrue` |
| SwapWarm_proofs | `TypeCorrect` | `Spec => []TypeOK` |
| SwapWarm_proofs | `CalmFirst` | `Spec => CalmBeforeSqueeze` |
| SwapWarm_proofs | `HoldIsKept` | `Spec => HoldKept` |

The statements name the properties the runs check: a run shows the property on its small
instance, the theorem for every instance. Most properties are not inductive; what each
proof adds, and why it needs it:

* **ChangeApprovals.** `Inv` = types, `GrantsInv`, and the two halves of `TwoPersonRule`.
  `GrantsInv`: a `consume` that has committed and not yet returned holds a row that is consumed, approved by
  somebody else than its requester, for the mutation in hand and not yet `granted`; and no two
  calls hold one row. `ConsumedOnTime` needs no more, because `_expire` runs inside the
  consuming transaction. `LedgerTellsTheStory` needs `StoryInv`: besides types, no call
  and no event carries a clock reading of the future (`PastCalls`, `PastEvents`), from which the
  bound on disorder in the ledger follows as the lock wait. `RefinesDualControl` maps each
  transaction to a step of the abstract store; expiry, refusals and re-reads stutter.
* **Ledgers: the audit ledger.** `IInv` adds to the types: whoever is past the lock holds it (`InTheLock`), the
  event that waits for its anchor or was just anchored is that of the call in the lock (`HeadIsTheCalls`),
  acknowledged events lie below the anchor (`AckedSealed`), ids differ, and a snapshot's
  copies are prefixes taken anchor first (`CopyIsPrefix`). `QuietDamageCaught` adds `NothingVerified`:
  after quiet damage no cached verification is current.
* **Ledgers: the shop.** `ShopBooksBalance` is about sums, and a step of a thread moves one order.
  The invariant therefore first ties each order to its delivery, its items, its entries in the wallet's
  ledger and the thread that holds the claim, one order at a time; the
  wallet and the stock are then the same sum before and after, up to one term. Lemmas on `Total` say how
  a sum moves when a term appears, vanishes or changes.
* **Ledgers: playtime.** For any number of ticking threads. The row's time was observed (`RowIsSeen`), and what
  is counted is what the row has passed since the first observation and what it was set back (`CountedIsPassed`). A
  gap is counted at most once from each time the account was found online at and once for each late observation: `Gaps` splits
  the counted seconds accordingly, and `Regroup` is the arithmetic. That nothing is late
  while one thread ticks needs that its tick has read no earlier clock than the row's (`RowIsLatest`).
* **Ledgers: engagement.** Active seconds of a day and a week fit between the first and the last
  observation; a day has a streak only if the days before it carry the ones below, and a claim exists
  exactly for what days, weeks and the session's hours have reached. `DaysAfter` touches the
  day of the observation alone, and days go forward, which keeps past streaks.
* **FlightRecorder.** A request's story is in one order because its thread alone tells it
  (`OwnRequest`), nothing precedes its admission (`AdmittedFirst`), no event is twice in the log
  (`Distinct`), and what a thread has told so far is what its `pc` says. This gives
  `OneStoryPerRequest` and `RunIsSealed` with failing appends, reconciliations and restarts.
* **AdminDispatch.** The invariant has three parts. `ContractsInv`: contracts come from a
  process that has run, every request past `verify()` carries a contract for its own
  operator and target, and the guard remembers a contract it let through until it expires, in
  the one process that can still verify it (`GuardRemembers`); that is why a restart, which
  empties the guard, does no harm. `RecorderInv`: a governed request stands before,
  at or behind its route, and from the route on its admission is sealed. `GatesInv`: an approval in
  hand is agreed, the request's own, in one hand only and not executed; two requests
  that ran used two approvals. `PartsAreUsedAsSpecified` is the composition: each step of
  `do_POST` is a step or a stutter of `ChangeContracts`, `FlightRecorder` and `DualControl`, so
  what is proved of these holds inside the dispatcher; `RecorderKeepsItsWord` draws that conclusion for
  the FlightRecorder theorems, and `RefinesDualControl` and `RefinesSealedLog` let the abstract stores stand for the real ones.
* **Watch: the alert inbox.** `Ahead`: Prometheus has seen at least the generation of the row and of the answer
  a poll holds, so a row never invents one. `TodoIsLater`: what a poll has still to tell is
  later than anything told of that alert, and there is one of each, which makes telling ordered.
  `AllStories` folds the transitions of each alert into its row, `AllInPlace` puts each
  transition in exactly one place (to tell, on an operator's duty, or told) while the panel lives.
* **Watch: the briefing.** `BriefingInv` counts. `MarksAreChanges`: marks and announcements under
  way never outnumber the changes, although a mark computes its count from a stale one. `RunIsCurrent`: what a
  run has found out is the truth, or somebody stirs, that is, has not yet woken the worker.
  `ReceiptsAreOwed`: receipts made and receipts that may still be made for what has happened are at most
  `1 + 2 * changes + refreshes`; `Owed` counts the missing first receipt, an old one, a category that
  differs, a pending force, and every announcement that has not marked or not forced yet. A
  change owes two, and every step that makes a receipt pays one.
* **Work: events.** `Counted` relates what was performed to what is on file, the run in hand
  and the deaths of the worker; `AllInLimit` is the limit by scheduled or not. `OnTime` needs `ListIsDue`:
  the worker's list was read before the lock, and an entry is still due when its turn comes unless
  a handler ran the event meanwhile. Both rest on `RunIsHeld` (`EVENT_LOCK` is held over a run).
* **Work: the backup schedule.** `SetInHand`: the set a tick is working on or has to record is the
  schedule's own, still there, and on no record yet. `RunsAreReal` ties every recorded
  run to a set of the schedule of that time, verified if the record says so, and no two to one set;
  `RemovedIsOver` ties every removed set to a verified one past some retention an operator chose.
  `FailuresAreReal` counts: the failures on record, with the one that has still to be recorded, never exceed the
  backups that failed, nor the sets that were made.
* **Work: restart jobs.** `IdsAreTaken` and `AnnouncedOnce` make a new job and its notice new.
  `JobsInOrder` holds until a reboot with a job handed over (`Alone`), which is where the second writer
  without the lock appears: what the holder of `RESTART_LOCK` read is what the file says; of all jobs one is
  active, and of all with the key of a morning one is active or has run (`JobsSound`); and what the worker has in
  hand is in the file with the status its `pc` implies (`WorkerSound`), which no request changes. That a
  second morning job cannot follow an ended one needs the clock: a daily job is due no earlier than its
  hour, one that ran shows that the hour has come, and a request for an hour that has come is refused.
* **OutboundWebhooks.** `Exclusive` and `OneThread`: a second worker starts only when
  the first is dead. `InOrder` and `AllFaithful` then describe one delivery in hand: the endpoints
  done, those to come, and the attempts made on the one between, against what the receivers answered.
* **SwapWarm.** No premise: flips of the switch, the fleet's script, deaths, stops, failures and unanswered calls
  are allowed in any number. `Watched` bounds the daemon's idle time by the truth: while it counts the map as idle
  for some time, no cycle that looked has met it in use for that time, or one that could not look did (`missed`). `Holding` does the same
  for the hold: as long as the daemon remembers restoring the map it has been resident no shorter than it
  believes; once that is forgotten, the idle time it had to count anew bounds it. `OnlySqueeze` reduces both
  action properties to the one action that lowers the limit.

**Assumptions.** Each is a named `ASSUME` of its module: bounds are natural
numbers, lifetimes and capacities positive, and `None` is none of the ids. Beyond that:
`WebhookAssumption` takes the endpoints to have different ids
(`src/admin/outbound_webhooks.py:75` refuses a configuration otherwise); `EventAssumption` takes
the events to be finitely many with non-empty plans; ChangeApprovals takes "system" not to be an
operator's name and mutations that agree in path, body, capability and risk to be one; AdminDispatch takes the
targets under dual control to be among the targets; the announcing threads of the briefing are
finitely many, and a week is a whole number of days.

**Only model-checked**, and why:

* Liveness: `EveryRequestReturns`, `WarmFollowsUse`, `MapsAreServed`, `NothingWaitsForEver`,
  `ComesToTheTruth`. They rest on fairness, and the prover has no ENABLED.
* `BooksBalance` sums over sequences of purchases and notices with the recursive operators of the
  sequence library: an induction over them is out of the prover's reach.
* `DataIsCovered`, `CanariesWaitTheirTurn`, `DeploymentsAreProved`,
  `BansAreEnforced`, `WindowsAreKept`, `LimitsAreRestored` and
  `RecoveriesAreSound`: one statement joins several modules or instances of a module with different
  settings, or lists cases that have not been worked through; no theorem is claimed for them.

## 6. What is not modelled

* Cryptography: HMACs and digests are what they authenticate; damage is an event.
* The routes behind the gates: one action. Confirmation phrases, feature flags and
  domain checks refuse a request after its admission, which is `FlightRecorder!Refuse`.
* Configurations with a gate switched off: `AdminDispatch` has all of them on.
* Several offers; links of game accounts; what a settled order looks like in the game.
* The components without a module in `PROJECT.json`, with the reason there.

## 7. Plan

Everything the inventory calls hard is modelled and checked. What is left is proof:

1. Autoscaler (`StopsAreDue`, `ScannedIsKept`): the windows and requests of any number of maps.
2. Moderation (`KicksAreFew`, `RevokedBansEnd`) and Maintenance (`UpdateIsCovered`): invariants within one module each, to be
   proved of the specification `INSTANCE`d in a composition, as `RestartsOrderly` is.
3. ArtificialExchange (`MoneyIsConserved`), once its sums are counts as those of `Ledgers` are.

## 8. Running

```
tlasany M.tla                           # parse
tlc -workers 2 -config X.cfg MCx.tla    # model-check
tlapm X_proofs.tla                      # check the proofs
```
