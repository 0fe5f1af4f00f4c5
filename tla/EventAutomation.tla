-------------------------- MODULE EventAutomation --------------------------
(***************************************************************************)
(* Recurring events of admin/admin_panel.py: create_event, cancel_event,   *)
(* execute_event and event_scheduler_worker.                               *)
(*                                                                         *)
(* events.json is read and replaced under EVENT_LOCK only.  A run holds    *)
(* the lock from the moment it reads the event until it has written the    *)
(* outcome; in between it calls the announcement, restart and autoscaler   *)
(* code, whose effects last whether or not the outcome is written.  The    *)
(* worker lists the due events under the lock, gives it up, and takes it   *)
(* again for each of them.                                                 *)
(***************************************************************************)
EXTENDS Integers, Sequences, SequencesExt, FiniteSets, FiniteSetsExt

CONSTANTS
    Events,      \* event ids
    Plan,        \* id -> sequence of "announcement", "restart", "map-prewarm"
    Repeat,      \* id -> repeatSeconds, 0 for a one-time event
    MaxRuns,     \* id -> maxRuns, 0 for no limit
    RunAts,      \* the times an event may be created for
    Handlers,    \* handler threads that run events by hand
    Worker,      \* the scheduler thread
    MaxClock,    \* bound on the clock
    MaxFaults,   \* bound on panel deaths and failed writes
    Refusals,    \* TRUE if a primitive may refuse its part of a run
    None

Runners == Handlers \cup {Worker}
Kinds == {"announcement", "restart", "map-prewarm"}

EventType ==
    [status : {"scheduled", "cancelled", "failed", "executed"},
     runAt : Nat \cup {None}, next : Nat \cup {None}, runs : Nat]

ASSUME EventAssumption ==
    /\ IsFiniteSet(Events)
    /\ Plan \in [Events -> Seq(Kinds)] /\ \A e \in Events : Plan[e] # << >>
    /\ Repeat \in [Events -> Nat] /\ MaxRuns \in [Events -> Nat]
    /\ RunAts \subseteq Nat /\ MaxClock \in Nat /\ MaxFaults \in Nat
    /\ Refusals \in BOOLEAN
    /\ Worker \notin Handlers /\ None \notin Runners \cup Events \cup Nat \cup EventType

VARIABLES
    clock,        \* time.time()
    event,        \* events.json: id -> event, None before it is created
    lock,         \* holder of EVENT_LOCK
    due,          \* the due ids the worker still has to go through
    run,          \* by thread, the run it has in hand
    maintenance,  \* the operator's executing restart job
    performed,    \* history: by event, the runs that had an effect
    byHand,       \* history: events run by hand since the worker made its list
    early,        \* history: other events that the worker ran before their time
    faults        \* faults so far

vars == <<clock, event, lock, due, run, maintenance, performed, byHand, early, faults>>

NoRun == [event |-> None, at |-> 0, left |-> << >>, failed |-> FALSE, acted |-> FALSE]

Init ==
    /\ clock = 0
    /\ event = [e \in Events |-> None]
    /\ lock = None /\ due = << >>
    /\ run = [p \in Runners |-> NoRun]
    /\ maintenance = "none"
    /\ performed = [e \in Events |-> 0] /\ byHand = {} /\ early = {} /\ faults = 0

Scheduled(e) == event[e] # None /\ event[e].status = "scheduled"

-----------------------------------------------------------------------------
(* create_event; without runAt the event is for "run now" only. *)
Create(e) ==
    /\ lock = None /\ event[e] = None
    /\ \E at \in RunAts \cup {None} :
         event' = [event EXCEPT ![e] =
                     [status |-> "scheduled", runAt |-> at, next |-> at, runs |-> 0]]
    /\ UNCHANGED <<clock, lock, due, run, maintenance, performed, byHand, early, faults>>

(* Fault: the state file is changed without the lock. *)
Cancel_NoLock(e) ==
    /\ Scheduled(e)
    /\ event' = [event EXCEPT ![e].status = "cancelled"]
    /\ UNCHANGED <<clock, lock, due, run, maintenance, performed, byHand, early, faults>>

Cancel(e) ==
    /\ lock = None /\ Scheduled(e)
    /\ event' = [event EXCEPT ![e].status = "cancelled"]
    /\ UNCHANGED <<clock, lock, due, run, maintenance, performed, byHand, early, faults>>

IsDue(e) == Scheduled(e) /\ event[e].next # None /\ event[e].next <= clock

(* due_event_ids, in the order of the file: any order. *)
ListDue ==
    /\ lock = None /\ due = << >> /\ run[Worker] = NoRun
    /\ \E s \in SetToSeqs({e \in Events : IsDue(e)}) : s # << >> /\ due' = s
    /\ byHand' = {}
    /\ UNCHANGED <<clock, event, lock, run, maintenance, performed, early, faults>>

(* execute_event takes the lock and reads the event. *)
Take(p, e) ==
    /\ lock = None /\ run[p] = NoRun
    /\ lock' = p
    /\ run' = [run EXCEPT ![p] =
                [event |-> e, at |-> clock, left |-> Plan[e], failed |-> FALSE, acted |-> FALSE]]

(* The worker runs the next event of its list if it is still scheduled;
   the time is not looked at again. *)
RunDue ==
    /\ due # << >>
    /\ Scheduled(Head(due))
    /\ Take(Worker, Head(due))
    /\ due' = Tail(due)
    /\ early' = IF event[Head(due)].next <= clock \/ Head(due) \in byHand
                THEN early ELSE early \cup {Head(due)}
    /\ UNCHANGED <<clock, event, maintenance, performed, byHand, faults>>

(* "event is not scheduled" ends the round for the rest of the list too. *)
RefuseDue ==
    /\ lock = None /\ due # << >> /\ ~ Scheduled(Head(due))
    /\ due' = << >>
    /\ UNCHANGED <<clock, event, lock, run, maintenance, performed, byHand, early, faults>>

(* POST /api/events/run. *)
RunNow(h, e) ==
    /\ Scheduled(e)
    /\ Take(h, e)
    /\ byHand' = byHand \cup {e}
    /\ UNCHANGED <<clock, event, due, maintenance, performed, early, faults>>

-----------------------------------------------------------------------------
(* A run holds the lock until its outcome is written. *)
InHand(p) == lock = p /\ run[p].event # None

(* One primitive of the plan.  schedule_restart is called with execute=false:
   it refuses while a job executes, and supersedes the scheduled ones. *)
Primitive(p) ==
    LET kind == Head(run[p].left)
        e == run[p].event IN
    /\ InHand(p) /\ run[p].left # << >>
    /\ \E ok \in BOOLEAN :
         /\ ok => ~ (kind = "restart" /\ maintenance = "executing")
         /\ ~ ok => Refusals \/ (kind = "restart" /\ maintenance = "executing")
         /\ run' = [run EXCEPT ![p].left = Tail(@), ![p].failed = @ \/ ~ ok,
                               ![p].acted = @ \/ ok]
         /\ performed' = IF ok /\ ~ run[p].acted
                         THEN [performed EXCEPT ![e] = @ + 1] ELSE performed
         /\ maintenance' = IF ok /\ kind = "restart" /\ maintenance = "scheduled"
                           THEN "superseded" ELSE maintenance
    /\ UNCHANGED <<clock, event, lock, due, byHand, early, faults>>

(* Fault: the limit is compared before this run is counted. *)
RepeatsLeft_BeforeCount(e, runs) ==
    Repeat[e] # 0 /\ (MaxRuns[e] = 0 \/ runs - 1 < MaxRuns[e])

RepeatsLeft(e, runs) ==
    Repeat[e] # 0 /\ (MaxRuns[e] = 0 \/ runs < MaxRuns[e])

(* From the time it was due, never earlier than the next second. *)
NextRun(e, at) ==
    LET base == IF event[e].next = None THEN at ELSE event[e].next
    IN  Max({base + Repeat[e], clock + 1})

(* The outcome: a repeating event that had no failure is scheduled again. *)
Outcome(e, at, failed) ==
    LET runs == event[e].runs + 1 IN
    IF ~ failed /\ RepeatsLeft(e, runs)
    THEN [event[e] EXCEPT !.runs = runs, !.next = NextRun(e, at)]
    ELSE [event[e] EXCEPT !.runs = runs, !.next = None,
                          !.status = IF failed THEN "failed" ELSE "executed"]

Finish(p) ==
    LET e == run[p].event IN
    /\ InHand(p) /\ run[p].left = << >>
    /\ event' = [event EXCEPT ![e] = Outcome(e, run[p].at, run[p].failed)]
    /\ lock' = None
    /\ run' = [run EXCEPT ![p] = NoRun]
    /\ UNCHANGED <<clock, due, maintenance, performed, byHand, early, faults>>

(* write_event_state raises: the run is over, nothing is on file, and the
   worker's round ends. *)
FinishFails(p) ==
    /\ InHand(p) /\ run[p].left = << >> /\ faults < MaxFaults
    /\ lock' = None
    /\ run' = [run EXCEPT ![p] = NoRun]
    /\ due' = IF p = Worker THEN << >> ELSE due
    /\ faults' = faults + 1
    /\ UNCHANGED <<clock, event, maintenance, performed, byHand, early>>

(* The panel dies and comes back. *)
Crash ==
    /\ faults < MaxFaults
    /\ lock' = None /\ due' = << >>
    /\ run' = [p \in Runners |-> NoRun]
    /\ faults' = faults + 1
    /\ UNCHANGED <<clock, event, maintenance, performed, byHand, early>>

-----------------------------------------------------------------------------
(* The operator's executing restart job, in the restart schedule. *)
Maintain ==
    /\ \/ maintenance = "none" /\ maintenance' = "scheduled"
       \/ maintenance = "scheduled" /\ maintenance' = "executing"
       \/ maintenance \in {"executing", "superseded"} /\ maintenance' = "none"
    /\ UNCHANGED <<clock, event, lock, due, run, performed, byHand, early, faults>>

Tick ==
    /\ clock < MaxClock
    /\ clock' = clock + 1
    /\ UNCHANGED <<event, lock, due, run, maintenance, performed, byHand, early, faults>>

Work(p) == Primitive(p) \/ Finish(p)

Next ==
    \/ \E e \in Events : Create(e) \/ Cancel(e)
    \/ ListDue \/ RunDue \/ RefuseDue
    \/ \E h \in Handlers, e \in Events : RunNow(h, e)
    \/ \E p \in Runners : Primitive(p) \/ Finish(p) \/ FinishFails(p)
    \/ Crash \/ Maintain \/ Tick

Spec == Init /\ [][Next]_vars

(* The worker wakes every five seconds, primitives return, and a thread that
   waits for EVENT_LOCK again and again gets it. *)
FairSpec ==
    /\ Spec
    /\ SF_vars(ListDue) /\ SF_vars(RunDue) /\ SF_vars(RefuseDue)
    /\ \A p \in Runners : WF_vars(Work(p))

-----------------------------------------------------------------------------
(* Properties. *)

(* Type invariant: events and runs keep their shape, and a run is in the
   hands of the thread that holds EVENT_LOCK. *)
TypeOK ==
    /\ clock \in 0..MaxClock /\ faults \in 0..MaxFaults
    /\ event \in [Events -> EventType \cup {None}]
    /\ lock \in Runners \cup {None} /\ due \in Seq(Events)
    /\ \A p \in Runners :
         /\ run[p].event \in Events \cup {None} /\ run[p].left \in Seq(Kinds)
         /\ run[p].event # None <=> lock = p
    /\ maintenance \in {"none", "scheduled", "executing", "superseded"}
    /\ performed \in [Events -> Nat] /\ byHand \subseteq Events /\ early \subseteq Events

(* However manual runs, the worker's list and cancellations interleave, a
   one-time event has effects once and a repeating one maxRuns times; only a
   death or a failed write that takes the record of a run away adds one
   (execute_event, lines 7399-7404 and 7450-7462). *)
RunsWithinLimit ==
    \A e \in Events :
      /\ Repeat[e] = 0 => performed[e] <= 1 + faults
      /\ MaxRuns[e] > 0 => performed[e] <= MaxRuns[e] + faults

(* Once cancel_event has answered, the event has no effect any more, even if
   the worker had already listed it (lines 7366-7376 and 7399-7404). *)
CancelIsFinal ==
    [][\A e \in Events :
         event[e] # None /\ event[e].status = "cancelled" => performed'[e] = performed[e]]_vars

(* The worker does not look at the time again when it comes to an event of
   its list, and still runs none before it is due, after deaths and failed
   writes too, unless somebody ran the event by hand in between
   (due_event_ids, 7482-7492). *)
NeverEarly == early = {}

(* An event takes effect as often as its limit allows and never before its
   time. *)
EventsKeepTheirPlan == TypeOK /\ RunsWithinLimit /\ NeverEarly

(* A due event is run, or an operator has cancelled it: neither another
   event's refusal nor a panel death loses it (lines 7685-7692). *)
DueIsServed == \A e \in Events : IsDue(e) ~> ~ IsDue(e)

(* docs/event-automation.md: "The ledger records event ID/name, trigger
   ..., ordinal run number, primitive results": every run that had an effect
   is counted, once it is over. *)
EveryRunIsRecorded ==
    \A e \in Events :
      event[e] # None => performed[e] <= event[e].runs + (IF lock # None THEN 1 ELSE 0)

(* docs/event-automation.md: a daily event with runAt 18:00 is a "Daily
   player notice": it stays at its time of day. *)
KeepsItsTime ==
    \A e \in Events :
      event[e] # None /\ event[e].runAt # None /\ event[e].next # None =>
        event[e].next = event[e].runAt
          \/ (Repeat[e] > 0 /\ (event[e].next - event[e].runAt) % Repeat[e] = 0)

(* docs/event-automation.md: "This separates schedule automation from
   host/game-map restart authority": a run leaves the operator's executing
   maintenance in place. *)
LeavesMaintenance == maintenance # "superseded"

=============================================================================
