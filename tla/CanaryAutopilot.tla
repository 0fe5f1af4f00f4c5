-------------------------- MODULE CanaryAutopilot ---------------------------
(***************************************************************************)
(* The worker that keeps the signed receipts of the isolated canaries      *)
(* current: a poll verifies the retained receipts of every target, plans   *)
(* the targets that are due and not backing off, runs their canaries one   *)
(* after the other and records every result in the state file.  Operators  *)
(* start the same batch by hand, or one canary beside it.                  *)
(*                                                                         *)
(* Times are what is left or what has passed, in ticks, so nothing counts  *)
(* up for ever.  Not here: counters and history of the state file (they    *)
(* decide nothing) and the contents of a canary.                           *)
(***************************************************************************)
EXTENDS Naturals, Sequences, SequencesExt

CONSTANTS
    Targets,    \* TARGETS, in that order
    Enabled,    \* targets whose feature is enabled
    Retention,  \* receipts a store retains
    MaxAge,     \* maxAgeSeconds of a receipt
    Lead,       \* refresh_before_seconds
    Poll,       \* CANARY_AUTOPILOT_POLL_SECONDS
    Base,       \* CANARY_AUTOPILOT_FAILURE_BACKOFF_SECONDS
    MaxBackoff, \* CANARY_AUTOPILOT_MAX_BACKOFF_SECONDS
    Outcomes,   \* how a canary may end: "ready", "failed", "slow", "raised"
    MaxStreak,  \* bound: failures in a row that are told apart
    Faults,     \* bound: lost inputs and crashes
    None

TargetIds == Range(Targets)

CanaryAssumption ==
    /\ Enabled \subseteq TargetIds
    /\ {Retention, MaxAge, Lead, Poll, Base, MaxBackoff, MaxStreak} \subseteq Nat \ {0}
    /\ Base <= MaxBackoff /\ Base * (2 ^ (MaxStreak - 1)) >= MaxBackoff
    /\ Faults \in Nat
    /\ Outcomes \subseteq {"ready", "failed", "slow", "raised"}

VARIABLES
    inputs,     \* target -> the files its receipt is bound to can be read
    receipts,   \* target -> its retained receipts, newest first
    age,        \* target -> age of the newest receipt
    row,        \* target -> [streak, wait]: consecutiveFailures, time to nextAttemptAt
    sleep,      \* time to the worker's next poll
    batch,      \* the batch that holds CANARY_AUTOPILOT_RUN_LOCK, or None
    last,       \* history, target -> its last attempt: failures in a row, time
                \* since, and whether nothing has spoilt its success
    faults

vars == <<inputs, receipts, age, row, sleep, batch, last, faults>>

Least(a, b) == IF a < b THEN a ELSE b
Down(n) == IF n = 0 THEN 0 ELSE n - 1

AgeCap == MaxAge + 1
ElapsedCap == MaxAge + MaxBackoff

Init ==
    /\ inputs = [t \in TargetIds |-> TRUE]
    /\ receipts = [t \in TargetIds |-> <<>>] /\ age = [t \in TargetIds |-> 0]
    /\ row = [t \in TargetIds |-> [streak |-> 0, wait |-> 0]]
    /\ sleep = 0 /\ batch = None /\ faults = 0
    /\ last = [t \in TargetIds |-> [fails |-> 0, elapsed |-> ElapsedCap, calm |-> FALSE]]

-----------------------------------------------------------------------------
(* The plan of a batch.                                                    *)
(* Fault: the lead is compared with the age. *)
Expiring_Age(t) == age[t] >= Least(MaxAge, Lead)
(* `remaining <= min(max_age, max(60, refresh_before_seconds))` *)
Expiring(t) == MaxAge - age[t] <= Least(MaxAge, Lead)

(* target_status; `ok` of the evidence speaks of every retained receipt. *)
Due(t) ==
    \/ receipts[t] = <<>>
    \/ "invalid" \in Range(receipts[t])
    \/ Head(receipts[t]) # "ready"
    \/ age[t] > MaxAge \/ Expiring(t)

Runnable(t) == Due(t) /\ row[t].wait = 0

(* Due and Runnable as a poll sees them when nothing raised. *)
Plan(force) == SelectSeq(Targets, LAMBDA t : t \in Enabled /\ (force \/ Runnable(t)))

Asleep(force) == IF force THEN sleep ELSE Poll

Begin(force) ==
    /\ batch = None /\ (~force => sleep = 0)
    /\ \A t \in TargetIds : inputs[t]
    /\ batch' = IF Plan(force) = <<>> THEN None
                ELSE [force |-> force, todo |-> Plan(force), pc |-> "start", drift |-> FALSE, ready |-> FALSE]
    /\ sleep' = IF Plan(force) = <<>> THEN Asleep(force) ELSE sleep
    /\ UNCHANGED <<inputs, receipts, age, row, last, faults>>

(* canary_autopilot_evidence: one collector that raises ends the poll. *)
CollectorRaises ==
    /\ batch = None /\ sleep = 0
    /\ \E t \in TargetIds : ~inputs[t]
    /\ sleep' = Poll
    /\ UNCHANGED <<inputs, receipts, age, row, batch, last, faults>>

(* "another isolated canary run is already in progress" *)
Busy ==
    /\ batch # None /\ batch.force /\ sleep = 0
    /\ sleep' = Poll
    /\ UNCHANGED <<inputs, receipts, age, row, batch, last, faults>>

-----------------------------------------------------------------------------
(* One target: the canary reads its inputs, runs, writes its receipt; the  *)
(* result is recorded.                                                     *)
Current == Head(batch.todo)

ReadInputs ==
    /\ batch # None /\ batch.pc = "start"
    /\ batch' = [batch EXCEPT !.pc = IF inputs[Current] THEN "run" ELSE "record",
                              !.drift = FALSE, !.ready = FALSE]
    /\ UNCHANGED <<inputs, receipts, age, row, sleep, last, faults>>

(* Store.record of a canary: newest first, no more than are retained.  A   *)
(* run of more than 300 seconds gives a receipt that never verifies.       *)
ReceiptOf(outcome, drift) ==
    CASE outcome = "slow" -> "invalid"
      [] outcome = "failed" -> "failed"
      [] outcome = "ready" -> IF drift THEN "drifted" ELSE "ready"
Kept(t, receipt) == SubSeq(<<receipt>> \o receipts[t], 1, Least(Retention, Len(receipts[t]) + 1))
Written(t, outcome, drift) ==
    IF outcome = "raised" THEN UNCHANGED <<receipts, age>>
    ELSE /\ receipts' = [receipts EXCEPT ![t] = Kept(t, ReceiptOf(outcome, drift))]
         /\ age' = [age EXCEPT ![t] = 0]

RunCanary ==
    /\ batch # None /\ batch.pc = "run"
    /\ \E outcome \in Outcomes :
          /\ Written(Current, outcome, batch.drift)
          /\ batch' = [batch EXCEPT !.pc = "record", !.ready = (outcome = "ready")]
    /\ UNCHANGED <<inputs, row, sleep, last, faults>>

(* min(max, base * 2 ** min(streak - 1, 20)) *)
Delay(streak) == Least(MaxBackoff, Base * (2 ^ (streak - 1)))

Recorded(r, ready) ==
    IF ready THEN [streak |-> 0, wait |-> 0]
    ELSE LET streak == Least(r.streak + 1, MaxStreak) IN [streak |-> streak, wait |-> Delay(streak)]

(* Store.record and the step to the next target, or the end of the batch. *)
Record ==
    /\ batch # None /\ batch.pc = "record"
    /\ row' = [row EXCEPT ![Current] = Recorded(@, batch.ready)]
    /\ last' = [last EXCEPT ![Current] =
                  [fails |-> IF batch.ready THEN 0 ELSE Least(@.fails + 1, MaxStreak),
                   elapsed |-> 0, calm |-> batch.ready /\ ~batch.drift]]
    /\ batch' = IF Len(batch.todo) = 1 THEN None
                ELSE [batch EXCEPT !.todo = Tail(@), !.pc = "start"]
    /\ sleep' = IF Len(batch.todo) = 1 THEN Asleep(batch.force) ELSE sleep
    /\ UNCHANGED <<inputs, receipts, age, faults>>

-----------------------------------------------------------------------------
(* Around the batches.                                                     *)
(* An operator runs one canary beside them: no lock is shared.  (`drift`   *)
(* says of a batch at "record" that its receipt no longer stands.)         *)
RunBeside(t) ==
    /\ inputs[t] /\ t \in Enabled
    /\ \E outcome \in Outcomes \ {"raised"} :
          /\ Written(t, outcome, FALSE)
          /\ last' = [last EXCEPT ![t].calm = @ /\ outcome = "ready"]
          /\ batch' = IF outcome # "ready" /\ batch # None /\ batch.pc = "record" /\ Current = t
                      THEN [batch EXCEPT !.drift = TRUE] ELSE batch
    /\ UNCHANGED <<inputs, row, sleep, faults>>

Drifted(s) == [i \in DOMAIN s |-> IF s[i] = "ready" THEN "drifted" ELSE s[i]]

InputsChange(t) ==
    /\ receipts' = [receipts EXCEPT ![t] = Drifted(@)]
    /\ batch' = IF batch # None /\ batch.pc # "start" /\ Current = t
                THEN [batch EXCEPT !.drift = TRUE] ELSE batch
    /\ last' = [last EXCEPT ![t].calm = FALSE]
    /\ UNCHANGED <<inputs, age, row, sleep, faults>>

InputsLost(t) ==
    /\ faults < Faults /\ inputs[t]
    /\ inputs' = [inputs EXCEPT ![t] = FALSE] /\ faults' = faults + 1
    /\ UNCHANGED <<receipts, age, row, sleep, batch, last>>

InputsBack(t) ==
    /\ ~inputs[t]
    /\ inputs' = [inputs EXCEPT ![t] = TRUE]
    /\ UNCHANGED <<receipts, age, row, sleep, batch, last, faults>>

(* A restarted worker polls at once; a result that was not recorded is not *)
(* known, though its receipt is there.                                     *)
Crash ==
    /\ faults < Faults
    /\ faults' = faults + 1 /\ batch' = None /\ sleep' = 0
    /\ last' = [t \in TargetIds |->
                  IF batch # None /\ Current = t THEN [last[t] EXCEPT !.calm = FALSE] ELSE last[t]]
    /\ UNCHANGED <<inputs, receipts, age, row>>

(* The end of a canary and its record have the same time, `completed`. *)
Tick ==
    /\ batch # None => batch.pc # "record"
    /\ age' = [t \in TargetIds |-> Least(age[t] + 1, AgeCap)]
    /\ row' = [t \in TargetIds |-> [row[t] EXCEPT !.wait = Down(@)]]
    /\ sleep' = Down(sleep)
    /\ last' = [t \in TargetIds |-> [last[t] EXCEPT !.elapsed = Least(@ + 1, ElapsedCap)]]
    /\ UNCHANGED <<inputs, receipts, batch, faults>>

BatchStep == ReadInputs \/ RunCanary \/ Record
Environment ==
    \/ \E t \in TargetIds : RunBeside(t) \/ InputsChange(t) \/ InputsLost(t) \/ InputsBack(t)
    \/ Crash \/ Tick

Next == (\E force \in BOOLEAN : Begin(force)) \/ CollectorRaises \/ Busy \/ BatchStep \/ Environment

Spec == Init /\ [][Next]_vars

(* The worker is a thread of its own, canaries have timeouts, and files    *)
(* that cannot be read are put back.                                       *)
FairSpec ==
    /\ Spec
    /\ WF_vars(Tick) /\ WF_vars(BatchStep) /\ WF_vars(CollectorRaises)
    /\ SF_vars(Begin(FALSE))
    /\ \A t \in TargetIds : WF_vars(InputsBack(t))

-----------------------------------------------------------------------------
(* Properties.                                                             *)
Planned == IF batch = None \/ batch.force THEN {} ELSE Range(batch.todo)

(* The variables stay in their sets; a batch has targets left to run.      *)
TypeOK ==
    /\ inputs \in [TargetIds -> BOOLEAN]
    /\ \A t \in TargetIds :
          /\ receipts[t] \in Seq({"ready", "drifted", "failed", "invalid"}) /\ Len(receipts[t]) <= Retention
          /\ age[t] \in 0..AgeCap
          /\ row[t].streak \in 0..MaxStreak /\ row[t].wait \in 0..MaxBackoff
    /\ sleep \in 0..Poll
    /\ batch = None \/ (batch.pc \in {"start", "run", "record"} /\ batch.todo # <<>> /\ Range(batch.todo) \subseteq Enabled)

(* What a target still has to wait is what its failures in a row and the   *)
(* time since the last one leave, also across batches by hand, runs beside *)
(* and crashes; no automatic batch runs it sooner (Store.record,           *)
(* target_status).                                                         *)
BackoffHolds ==
    \A t \in TargetIds :
        LET owed == IF last[t].fails = 0 THEN 0 ELSE Delay(last[t].fails)
        IN  /\ row[t].wait = IF owed > last[t].elapsed THEN owed - last[t].elapsed ELSE 0
            /\ t \in Planned => last[t].elapsed >= owed

(* A success that nothing has spoilt is left alone until its refresh is    *)
(* due, when every retained receipt verifies (target_status).              *)
LeftAlone ==
    Begin(FALSE) => \A t \in Planned' :
        (last[t].calm /\ "invalid" \notin Range(receipts[t])) => last[t].elapsed >= MaxAge - Least(MaxAge, Lead)
ProofsAreLeftAlone == [][LeftAlone]_vars

(* docs/canary-autopilot.md: the worker polls every five minutes and "does *)
(* not execute a canary every five minutes".                               *)
NotEveryPoll == \A t \in Planned : last[t].calm => last[t].elapsed > Poll

(* docs/canary-autopilot.md: while one target is in trouble, "Other        *)
(* targets remain independently schedulable".                              *)
OthersStaySchedulable ==
    [][CollectorRaises => \A t \in Enabled : ~(inputs[t] /\ Runnable(t))]_vars

(* A target whose proof is missing, failed, bound to older inputs or       *)
(* expired is run, or its proof is good again (canary_autopilot_worker).   *)
Stale(t) == receipts[t] = <<>> \/ Head(receipts[t]) # "ready" \/ age[t] > MaxAge
StaleIsRun ==
    \A t \in Enabled : Stale(t) ~> (~Stale(t) \/ (batch # None /\ Current = t))
=============================================================================
