--------------------------- MODULE BackupSchedule ---------------------------
(***************************************************************************)
(* The automatic full backups of the admin panel: backup-schedule.json,    *)
(* the worker that takes a due backup, the requests that configure the     *)
(* schedule, and retention.                                                *)
(*                                                                         *)
(* The worker holds BACKUP_SCHEDULE_LOCK while it reads the schedule and   *)
(* again while it records the outcome, and not in between: the backup is   *)
(* taken under the operation lock alone. Each locked section is one step.  *)
(* A backup set is a number, in the order of creation. Creation, coverage  *)
(* and verification end in one of two outcomes; what a set holds is the    *)
(* matter of module Maintenance.                                           *)
(***************************************************************************)
EXTENDS Integers, FiniteSets

CONSTANTS
    Interval,       \* intervalHours
    Retry,          \* retryMinutes
    Retentions,     \* the values of retentionDays an operator chooses; 0 keeps all
    Day,            \* the longest wait for the next "HH:MM"
    MaxClock,       \* bound: time
    MaxSets,        \* bound: backup sets
    MaxCrashes      \* bound: restarts of the panel

BackupScheduleAssumption ==
    /\ {Interval, Retry, Day, MaxClock, MaxSets} \subseteq Nat \ {0}
    /\ Retentions \subseteq Nat /\ Retentions # {}
    /\ MaxCrashes \in Nat

Never == -1

VARIABLES
    schedule,   \* backup-schedule.json
    sets,       \* the backup sets made so far
    lock,       \* the holder of operation.lock
    tick,       \* the worker's locals in backup_schedule_tick
    slots,      \* history: the values of nextRun at which a backup was begun
    failed,     \* history: attempts that failed since the last recorded success
    clock, crashes

vars == <<schedule, sets, lock, tick, slots, failed, clock, crashes>>

Sets == 1..Cardinality(DOMAIN sets)
NextSet == Cardinality(DOMAIN sets) + 1
IdleTick == [pc |-> "idle", now |-> 0, due |-> 0, set |-> 0, ok |-> FALSE]

Init ==
    /\ schedule = [enabled |-> FALSE, retention |-> 0, next |-> Never, lastOk |-> "none",
                   failures |-> 0, deferrals |-> 0, runs |-> {}]
    /\ sets = [s \in {} |-> {}]
    /\ lock = "free"
    /\ tick = IdleTick
    /\ slots = {} /\ failed = 0
    /\ clock = 1 /\ crashes = 0

-----------------------------------------------------------------------------
(* configure_backup_schedule: the first run is the next "HH:MM".           *)
FirstRun(wait) == clock + wait

Configure(enabled, wait, retention) ==
    /\ schedule' = [schedule EXCEPT !.enabled = enabled, !.retention = retention,
                                    !.next = IF enabled THEN FirstRun(wait) ELSE Never]
    /\ UNCHANGED <<sets, lock, tick, slots, failed, clock, crashes>>

-----------------------------------------------------------------------------
(* backup_schedule_tick, up to the point where BACKUP_SCHEDULE_LOCK is     *)
(* released for the first time.                                            *)
Due == schedule.enabled /\ schedule.next # Never /\ clock >= schedule.next

TickReads ==
    /\ tick.pc = "idle" /\ Due
    /\ tick' = [IdleTick EXCEPT !.pc = "lock", !.now = clock, !.due = schedule.next]
    /\ UNCHANGED <<schedule, sets, lock, slots, failed, clock, crashes>>

(* create_full_backup takes the operation lock without waiting.            *)
With(new) == [s \in Sets \cup {NextSet} |-> IF s = NextSet THEN new ELSE sets[s]]

TickBegins ==
    /\ tick.pc = "lock" /\ lock = "free" /\ NextSet <= MaxSets
    /\ lock' = "worker"
    /\ sets' = With([by |-> "schedule", at |-> tick.now, ok |-> FALSE, place |-> "here"])
    /\ tick' = [tick EXCEPT !.pc = "work", !.set = NextSet]
    /\ slots' = slots \cup {<<tick.due, NextSet>>}
    /\ UNCHANGED <<schedule, failed, clock, crashes>>

(* BackupOperationBusy: a deferral, and no word about the last result.     *)
(* Fault: a deferral leaves the next run where it was. *)
Deferred_Stays == [schedule EXCEPT !.deferrals = 1]
Deferred == [schedule EXCEPT !.next = tick.now + Retry, !.deferrals = 1]

TickDefers ==
    /\ tick.pc = "lock" /\ lock # "free"
    /\ schedule' = Deferred
    /\ tick' = IdleTick
    /\ UNCHANGED <<sets, lock, slots, failed, clock, crashes>>

BackupEnds(verified) ==
    /\ tick.pc = "work"
    /\ lock' = "free"
    /\ sets' = [sets EXCEPT ![tick.set].ok = verified]
    /\ tick' = [tick EXCEPT !.pc = "record", !.ok = verified]
    /\ failed' = IF verified THEN failed ELSE failed + 1
    /\ UNCHANGED <<schedule, slots, clock, crashes>>

(* prune_scheduled_backups: successful runs of this schedule, past the     *)
(* retention in force now, whose set is still at its place.                *)
Here(s) == sets[s].place = "here"

Expired(runs) == {r \in runs : /\ schedule.retention > 0
                               /\ r.ok
                               /\ r.at < tick.now - schedule.retention
                               /\ Here(r.set)}

RecordedRuns == schedule.runs \cup {[set |-> tick.set, ok |-> tick.ok, at |-> tick.now]}

(* Fault: a failed run waits for the whole interval. *)
Recorded_Interval ==
    [schedule EXCEPT !.lastOk = IF tick.ok THEN "ok" ELSE "failed",
                     !.next = tick.now + Interval,
                     !.failures = IF tick.ok THEN 0 ELSE @ + 1,
                     !.runs = RecordedRuns \ Expired(RecordedRuns)]
Recorded ==
    [schedule EXCEPT !.lastOk = IF tick.ok THEN "ok" ELSE "failed",
                     !.next = tick.now + (IF tick.ok THEN Interval ELSE Retry),
                     !.failures = IF tick.ok THEN 0 ELSE @ + 1,
                     !.runs = RecordedRuns \ Expired(RecordedRuns)]

Removing(gone) == [s \in Sets |-> IF s \in gone THEN [sets[s] EXCEPT !.place = "removed"] ELSE sets[s]]

TickRecords ==
    /\ tick.pc = "record"
    /\ sets' = Removing({r.set : r \in Expired(RecordedRuns)})
    /\ schedule' = Recorded
    /\ tick' = IdleTick
    /\ failed' = IF tick.ok THEN 0 ELSE failed
    /\ UNCHANGED <<lock, slots, clock, crashes>>

(* shutil.rmtree raises: what was removed before stays removed, the record *)
(* of the run is not written, and the worker notes the exception.          *)
RemovalFails ==
    /\ tick.pc = "record" /\ Expired(RecordedRuns) # {}
    /\ \E gone \in SUBSET {r.set : r \in Expired(RecordedRuns)} : sets' = Removing(gone)
    /\ schedule' = [schedule EXCEPT !.lastOk = "failed"]
    /\ tick' = IdleTick
    /\ failed' = failed + 1
    /\ UNCHANGED <<lock, slots, clock, crashes>>

-----------------------------------------------------------------------------
(* The other users of the operation lock: a backup made by hand, browser   *)
(* maintenance, a host script. A backup by hand leaves a set beside those  *)
(* of the schedule.                                                        *)
OtherTakesLock ==
    /\ lock = "free" /\ lock' = "other"
    /\ UNCHANGED <<schedule, sets, tick, slots, failed, clock, crashes>>

OtherMakesSet ==
    /\ lock = "other" /\ NextSet <= MaxSets
    /\ sets' = With([by |-> "hand", at |-> clock, ok |-> TRUE, place |-> "here"])
    /\ lock' = "free"
    /\ UNCHANGED <<schedule, tick, slots, failed, clock, crashes>>

OtherLeavesLock ==
    /\ lock = "other" /\ lock' = "free"
    /\ UNCHANGED <<schedule, sets, tick, slots, failed, clock, crashes>>

(* delete_backup_set moves a set to the quarantine.                        *)
Delete(s) ==
    /\ Here(s)
    /\ ~(tick.pc = "work" /\ tick.set = s)      \* bound: not the set being made
    /\ sets' = [sets EXCEPT ![s].place = "moved"]
    /\ UNCHANGED <<schedule, lock, tick, slots, failed, clock, crashes>>

(* The panel dies: its locks go with it, the files stay.                   *)
LockAfterDeath == IF lock = "worker" THEN "free" ELSE lock

Restart ==
    /\ crashes < MaxCrashes /\ crashes' = crashes + 1
    /\ tick' = IdleTick
    /\ lock' = LockAfterDeath
    /\ UNCHANGED <<schedule, sets, slots, failed, clock>>

Advance ==
    /\ clock < MaxClock /\ clock' = clock + 1
    /\ UNCHANGED <<schedule, sets, lock, tick, slots, failed, crashes>>

Work == TickReads \/ TickBegins \/ TickDefers \/ \E v \in BOOLEAN : BackupEnds(v)

Next ==
    \/ \E e \in BOOLEAN, w \in 1..Day, r \in Retentions : Configure(e, w, r)
    \/ Work \/ TickRecords \/ RemovalFails
    \/ OtherTakesLock \/ OtherMakesSet \/ OtherLeavesLock
    \/ \E s \in Sets : Delete(s)
    \/ Restart \/ Advance

Spec == Init /\ [][Next]_vars

(* The worker goes on; a directory that cannot be removed is not so for    *)
(* ever.                                                                   *)
Fairness == WF_vars(Work) /\ SF_vars(TickRecords)
FairSpec == Spec /\ Fairness

-----------------------------------------------------------------------------
TypeOK ==
    /\ schedule \in [enabled : BOOLEAN, retention : Retentions \cup {0},
                     next : {Never} \cup 1..(MaxClock + Interval + Retry + Day),
                     lastOk : {"none", "ok", "failed"}, failures : 0..MaxSets, deferrals : {0, 1},
                     runs : SUBSET [set : Sets, ok : BOOLEAN, at : 1..MaxClock]]
    /\ sets \in [Sets -> [by : {"schedule", "hand"}, at : 1..MaxClock,
                          ok : BOOLEAN, place : {"here", "removed", "moved"}]]
    /\ lock \in {"free", "worker", "other"}
    /\ (lock = "worker") = (tick.pc = "work")
    /\ tick.pc \in {"idle", "lock", "work", "record"}
    /\ clock \in 1..MaxClock /\ crashes \in 0..MaxCrashes

(* Retention removes a set only if this schedule made it, it passed its    *)
(* verification, and its run fell due longer ago than a retention chosen:  *)
(* no set made by hand, no fresh set and no failed set is lost to it, also *)
(* when the removal stops half way, the panel dies before the record is    *)
(* written or the retention is changed while a backup runs                 *)
(* (prune_scheduled_backups; docs/automatic-backups.md, "Retention days"). *)
RemovedWasExpired ==
    \A s \in Sets : sets[s].place = "removed" =>
        /\ sets[s].by = "schedule" /\ sets[s].ok
        /\ \E r \in Retentions \ {0} : clock - sets[s].at > r

(* What the schedule says of a run is true: a run recorded as good names a *)
(* set that this schedule made and that passed, wherever it went since.    *)
(* Two runs never share a set (backup_schedule_tick, runs).                *)
GoodRunsAreReal ==
    \A r \in schedule.runs :
        /\ sets[r.set].by = "schedule"
        /\ r.ok => sets[r.set].ok
        /\ \A q \in schedule.runs : q.set = r.set => q = r

(* A collision on the operation lock is no failure: the failures on show   *)
(* are at most the attempts that really failed since the last success, so  *)
(* the alarm on them is never raised by a busy lock (TickDefers; "does not *)
(* count the collision as a failed backup").                               *)
CollisionIsNoFailure ==
    /\ schedule.failures <= failed
    /\ schedule.lastOk = "failed" => failed > 0

(* After a failed attempt the schedule does not wait longer than the retry *)
(* before it is due again, unless an operator moved or disabled it: the    *)
(* time of the next run never lies further in the future than the retry    *)
(* while failures are counted (backup_schedule_tick, nextRun).             *)
FailureIsRetriedSoon ==
    [][(schedule.failures < schedule'.failures) => schedule'.next <= tick.now + Retry]_vars

(* A due run is taken, deferred or given up by the operator: nextRun moves *)
(* on, however often other operations hold the lock, whatever the outcome  *)
(* of the backup and also after a restart of the panel. (Where the bound   *)
(* on backup sets is reached no backup can begin.)                         *)
DueRunMovesOn == Due ~> (~Due \/ NextSet > MaxSets)

-----------------------------------------------------------------------------
(* docs/infrastructure-console.md: "The worker checks every 30 seconds and *)
(* advances nextRun before work begins to prevent duplicates": one due     *)
(* time starts at most one backup.                                         *)
OneBackupPerDueTime == \A p, q \in slots : p[1] = q[1] => p = q

(* docs/automatic-backups.md, "First run local time: Initial local         *)
(* wall-clock run": the first run an operator asked for stays due until    *)
(* the schedule reaches it or the operator changes it. It does not: a tick *)
(* that was under way writes its own next run over it.                     *)
FirstRunStands ==
    [][schedule.enabled /\ (TickRecords \/ TickDefers) => schedule.next = tick.due]_vars
=============================================================================
