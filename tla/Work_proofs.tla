---------------------------- MODULE Work_proofs ----------------------------
(***************************************************************************)
(* Theorems about what the panel does on a schedule, for all values of the *)
(* constants and any number of faults: recurring events, the backup        *)
(* schedule, and the restart jobs with their notices.                      *)
(***************************************************************************)
EXTENDS Work, FiniteSetTheorems, TLAPS

-----------------------------------------------------------------------------
(* Recurring events. *)

Plans == Seq(Kinds)
Lists == Seq(Events)
RunType ==
    [event : Events \cup {None}, at : Nat, left : Plans, failed : BOOLEAN, acted : BOOLEAN]

Typed ==
    /\ clock \in 0..MaxClock /\ faults \in 0..MaxFaults
    /\ event \in [Events -> EventType \cup {None}]
    /\ lock \in Runners \cup {None} /\ due \in Lists
    /\ run \in [Runners -> RunType]
    /\ maintenance \in {"none", "scheduled", "executing", "superseded"}
    /\ performed \in [Events -> Nat] /\ byHand \subseteq Events /\ early \subseteq Events

(* A run is in the hands of the thread that holds EVENT_LOCK, and what it   *)
(* found scheduled stays scheduled until it writes the outcome.             *)
RunIsHeld ==
    \A p \in Runners :
      /\ run[p].event # None <=> lock = p
      /\ run[p].event # None => Scheduled(run[p].event)

IInv == Typed /\ RunIsHeld

-----------------------------------------------------------------------------

LEMMA MaxOfTwo ==
    ASSUME NEW a \in Nat, NEW b \in Nat
    PROVE  Max({a, b}) \in Nat
<1>1. CASE a >= b
  <2>1. \A y \in {a, b} : a >= y
    BY <1>1
  <2> QED BY <2>1 DEF Max
<1>2. CASE b >= a
  <2>1. \A y \in {a, b} : b >= y
    BY <1>2
  <2> QED BY <2>1 DEF Max
<1> QED BY <1>1, <1>2

LEMMA NothingType == NoRun \in RunType /\ NoRun.event = None
  BY DEF NoRun, RunType, Plans

LEMMA Constants ==
    /\ Plan \in [Events -> Plans] /\ \A e \in Events : Plan[e] # << >>
    /\ Repeat \in [Events -> Nat] /\ MaxRuns \in [Events -> Nat]
    /\ RunAts \subseteq Nat /\ MaxClock \in Nat /\ MaxFaults \in Nat
    /\ IsFiniteSet(Events) /\ Worker \in Runners
    /\ None \notin Runners /\ None \notin Events /\ None \notin Nat /\ None \notin EventType
  BY EventAssumption DEF Plans, Runners

(* Any order of a set of events is a list of events. *)
LEMMA OrderIsList ==
    ASSUME NEW S \in SUBSET Events, NEW s \in SetToSeqs(S)
    PROVE  s \in Lists
<1>1. IsFiniteSet(S)
  BY Constants, FS_Subset
<1>2. Cardinality(S) \in Nat
  BY <1>1, FS_CardinalityType
<1>3. s \in [1..Cardinality(S) -> S]
  BY DEF SetToSeqs
<1> QED BY <1>2, <1>3 DEF Lists

LEMMA InitIInv == Init => IInv
  BY Constants, NothingType DEF Init, IInv, Typed, RunIsHeld, Lists

(* execute_event takes the lock for a scheduled event. *)
LEMMA TakeStep ==
    ASSUME IInv, NEW p \in Runners, NEW e \in Events, Take(p, e), Scheduled(e),
           UNCHANGED <<clock, event, maintenance, performed, faults>>,
           due' \in Lists, early' \subseteq Events, byHand' \subseteq Events
    PROVE  IInv'
<1> DEFINE r == [event |-> e, at |-> clock, left |-> Plan[e], failed |-> FALSE, acted |-> FALSE]
<1>1. r \in RunType /\ r.event = e
  <2>1. Plan[e] \in Plans /\ clock \in Nat
    BY Constants DEF IInv, Typed
  <2> QED BY <2>1 DEF RunType
<1>2. run' = [run EXCEPT ![p] = r] /\ lock' = p /\ lock = None
  BY DEF Take
<1> HIDE DEF r
<1>3. Typed'
  BY <1>1, <1>2 DEF IInv, Typed
<1>4. RunIsHeld'
  BY Constants, <1>1, <1>2 DEF IInv, Typed, RunIsHeld, Scheduled
<1> QED BY <1>3, <1>4 DEF IInv

(* A run is over: the lock is free. *)
LEMMA ReleaseStep ==
    ASSUME IInv, NEW p \in Runners, InHand(p),
           lock' = None, run' = [run EXCEPT ![p] = NoRun],
           UNCHANGED <<clock, maintenance, performed, byHand, early>>,
           event' \in [Events -> EventType \cup {None}],
           due' \in Lists, faults' \in 0..MaxFaults
    PROVE  IInv'
<1>1. Typed'
  BY NothingType DEF IInv, Typed
<1>2. \A q \in Runners : run'[q].event = None
  BY NothingType DEF IInv, Typed, RunIsHeld, InHand
<1> QED BY Constants, <1>1, <1>2 DEF IInv, RunIsHeld

LEMMA PrimitiveStep ==
    ASSUME IInv, NEW p \in Runners, Primitive(p)
    PROVE  /\ IInv'
           /\ \A e \in Events : performed'[e] = performed[e] \/ Scheduled(e)
<1>1. /\ InHand(p) /\ run[p].left # << >> /\ run[p] \in RunType
      /\ run[p].event \in Events /\ Scheduled(run[p].event)
  BY DEF Primitive, InHand, IInv, Typed, RunIsHeld, RunType
<1>2. PICK ok \in BOOLEAN :
        /\ run' = [run EXCEPT ![p].left = Tail(@), ![p].failed = @ \/ ~ ok, ![p].acted = @ \/ ok]
        /\ performed' = IF ok /\ ~ run[p].acted
                        THEN [performed EXCEPT ![run[p].event] = @ + 1] ELSE performed
        /\ maintenance' = IF ok /\ Head(run[p].left) = "restart" /\ maintenance = "scheduled"
                          THEN "superseded" ELSE maintenance
  BY DEF Primitive
<1>3. UNCHANGED <<clock, event, lock, due, byHand, early, faults>>
  BY DEF Primitive
<1>4. Tail(run[p].left) \in Plans
  BY <1>1 DEF RunType, Plans
<1>5. run' \in [Runners -> RunType] /\ \A q \in Runners : run'[q].event = run[q].event
  BY <1>1, <1>2, <1>4 DEF IInv, Typed, RunType
<1>6. performed' \in [Events -> Nat]
        /\ \A e \in Events : performed'[e] = performed[e] \/ e = run[p].event
  BY <1>1, <1>2 DEF IInv, Typed
<1>7. maintenance' \in {"none", "scheduled", "executing", "superseded"}
  BY <1>2 DEF IInv, Typed
<1>8. Typed'
  BY <1>3, <1>5, <1>6, <1>7 DEF IInv, Typed
<1>9. RunIsHeld'
  BY <1>3, <1>5 DEF IInv, RunIsHeld, Scheduled
<1> QED BY <1>1, <1>6, <1>8, <1>9 DEF IInv

(* The outcome of a run is an event again. *)
LEMMA OutcomeType ==
    ASSUME IInv, NEW e \in Events, Scheduled(e), NEW at \in Nat, NEW torn \in BOOLEAN
    PROVE  Outcome(e, at, torn) \in EventType
<1>1. event[e] \in EventType
  BY DEF IInv, Typed, Scheduled
<1>2. NextRun(e, at) \in Nat
  <2> DEFINE base == IF event[e].next = None THEN at ELSE event[e].next
  <2>1. base + Repeat[e] \in Nat /\ clock + 1 \in Nat
    BY Constants, <1>1 DEF EventType, IInv, Typed
  <2> QED BY <2>1, MaxOfTwo DEF NextRun
<1>3. event[e].runs + 1 \in Nat
  BY <1>1 DEF EventType
<1> QED BY <1>1, <1>2, <1>3 DEF Outcome, EventType

LEMMA NextIInv == IInv /\ [Next]_vars => IInv'
<1> SUFFICES ASSUME IInv, [Next]_vars PROVE IInv'
  OBVIOUS
<1>1. ASSUME NEW e \in Events, Create(e) PROVE IInv'
  <2>1. PICK at \in RunAts \cup {None} :
          event' = [event EXCEPT ![e] = [status |-> "scheduled", runAt |-> at, next |-> at, runs |-> 0]]
    BY <1>1 DEF Create
  <2>2. [status |-> "scheduled", runAt |-> at, next |-> at, runs |-> 0] \in EventType
    BY Constants DEF EventType
  <2>3. event[e] = None /\ lock = None /\ UNCHANGED <<clock, lock, due, run, maintenance, performed, byHand, early, faults>>
    BY <1>1 DEF Create
  <2>4. Typed'
    BY <2>1, <2>2, <2>3 DEF IInv, Typed
  <2>5. \A p \in Runners : run[p].event = None
    BY Constants, <2>3 DEF IInv, RunIsHeld
  <2> QED BY <2>3, <2>4, <2>5 DEF IInv, RunIsHeld
<1>2. ASSUME NEW e \in Events, Cancel(e) PROVE IInv'
  <2>1. /\ lock = None /\ event[e] \in EventType /\ event' = [event EXCEPT ![e].status = "cancelled"]
        /\ UNCHANGED <<clock, lock, due, run, maintenance, performed, byHand, early, faults>>
    BY <1>2 DEF Cancel, Scheduled, IInv, Typed
  <2>2. [event[e] EXCEPT !.status = "cancelled"] \in EventType
    BY <2>1 DEF EventType
  <2>3. Typed'
    BY <2>1, <2>2 DEF IInv, Typed
  <2>4. \A p \in Runners : run[p].event = None
    BY Constants, <2>1 DEF IInv, RunIsHeld
  <2> QED BY <2>1, <2>3, <2>4 DEF IInv, RunIsHeld
<1>3. CASE ListDue
  <2>1. /\ due' \in Lists /\ byHand' = {}
        /\ UNCHANGED <<clock, event, lock, run, maintenance, performed, early, faults>>
    <3>1. PICK s \in SetToSeqs({e \in Events : IsDue(e)}) : due' = s
      BY <1>3 DEF ListDue
    <3> QED BY <1>3, <3>1, OrderIsList DEF ListDue
  <2> QED BY <2>1 DEF IInv, Typed, RunIsHeld, Scheduled
<1>4. CASE RunDue
  <2>1. Head(due) \in Events /\ Tail(due) \in Lists
    BY <1>4 DEF RunDue, IInv, Typed, Lists
  <2>2. early' \subseteq Events /\ due' = Tail(due) /\ byHand' \subseteq Events
    BY <1>4, <2>1 DEF RunDue, IInv, Typed
  <2> QED BY <1>4, <2>1, <2>2, Constants, TakeStep DEF RunDue
<1>5. CASE RefuseDue
  BY <1>5 DEF RefuseDue, IInv, Typed, RunIsHeld, Scheduled, Lists
<1>6. ASSUME NEW h \in Handlers, NEW e \in Events, RunNow(h, e) PROVE IInv'
  <2>1. h \in Runners /\ due' \in Lists /\ early' \subseteq Events /\ byHand' \subseteq Events
    BY <1>6 DEF Runners, RunNow, IInv, Typed
  <2> QED BY <1>6, <2>1, TakeStep DEF RunNow
<1>7. ASSUME NEW p \in Runners, Primitive(p) PROVE IInv'
  BY <1>7, PrimitiveStep
<1>8. ASSUME NEW p \in Runners, Finish(p) PROVE IInv'
  <2>1. /\ InHand(p) /\ run[p].event \in Events /\ Scheduled(run[p].event)
        /\ run[p].at \in Nat /\ run[p].failed \in BOOLEAN
    BY <1>8 DEF Finish, InHand, IInv, Typed, RunIsHeld, RunType
  <2>2. Outcome(run[p].event, run[p].at, run[p].failed) \in EventType
    BY <2>1, OutcomeType
  <2>3. event' \in [Events -> EventType \cup {None}]
    BY <1>8, <2>2 DEF Finish, IInv, Typed
  <2> QED BY <1>8, <2>1, <2>3, ReleaseStep DEF Finish, IInv, Typed
<1>9. ASSUME NEW p \in Runners, FinishFails(p) PROVE IInv'
  <2>1. due' \in Lists /\ faults' \in 0..MaxFaults /\ event' \in [Events -> EventType \cup {None}]
    BY <1>9, Constants DEF FinishFails, IInv, Typed, Lists
  <2> QED BY <1>9, <2>1, ReleaseStep DEF FinishFails
<1>10. CASE Crash
  <2>1. Typed'
    BY <1>10, Constants, NothingType DEF Crash, IInv, Typed, Lists
  <2>2. \A p \in Runners : run'[p].event = None
    BY <1>10, NothingType DEF Crash
  <2>3. lock' = None
    BY <1>10 DEF Crash
  <2> QED BY <2>1, <2>2, <2>3, Constants DEF IInv, RunIsHeld
<1>11. CASE Maintain
  BY <1>11 DEF Maintain, IInv, Typed, RunIsHeld, Scheduled
<1>12. CASE Tick
  BY <1>12, Constants DEF Tick, IInv, Typed, RunIsHeld, Scheduled
<1>13. CASE UNCHANGED vars
  BY <1>13 DEF vars, IInv, Typed, RunIsHeld, Scheduled
<1> QED BY <1>1, <1>2, <1>3, <1>4, <1>5, <1>6, <1>7, <1>8, <1>9, <1>10, <1>11, <1>12, <1>13 DEF Next

LEMMA Invariant == Spec => []IInv
  BY InitIInv, NextIInv, PTL DEF Spec

-----------------------------------------------------------------------------
(* What runs have done, and what of it is on file: the run in hand may have *)
(* acted, and each fault may have taken a record away.                      *)
Acted(e) == \E p \in Runners : run[p].event = e /\ run[p].acted

Counted ==
    \A e \in Events :
      IF event[e] = None THEN performed[e] = 0
      ELSE performed[e] <= event[e].runs + faults + (IF Acted(e) THEN 1 ELSE 0)

(* An event that is still scheduled has a run left.                         *)
InLimit(e) ==
    /\ Repeat[e] = 0 => event[e].runs <= (IF Scheduled(e) THEN 0 ELSE 1)
    /\ MaxRuns[e] > 0 => event[e].runs <= (IF Scheduled(e) THEN MaxRuns[e] - 1 ELSE MaxRuns[e])

AllInLimit == \A e \in Events : event[e] # None => InLimit(e)

Limits == Counted /\ AllInLimit

(* The numbers that Limits compares. *)
LEMMA Numbers ==
    ASSUME IInv, NEW e \in Events
    PROVE  /\ performed[e] \in Nat /\ faults \in Nat /\ Repeat[e] \in Nat /\ MaxRuns[e] \in Nat
           /\ event[e] # None => event[e] \in EventType /\ event[e].runs \in Nat
  BY Constants DEF IInv, Typed, EventType

LEMMA OutcomeRuns ==
    ASSUME IInv, NEW e \in Events, Scheduled(e), NEW at \in Nat, NEW torn \in BOOLEAN
    PROVE  LET o == Outcome(e, at, torn)
           IN  /\ o \in EventType /\ o.runs = event[e].runs + 1
               /\ o.status = "scheduled" => RepeatsLeft(e, o.runs) /\ o.next \in Nat
<1>1. event[e] \in EventType
  BY DEF IInv, Typed, Scheduled
<1>2. Outcome(e, at, torn) \in EventType
  BY OutcomeType
<1>3. NextRun(e, at) \in Nat
  <2> DEFINE base == IF event[e].next = None THEN at ELSE event[e].next
  <2>1. base + Repeat[e] \in Nat /\ clock + 1 \in Nat
    BY Constants, <1>1 DEF EventType, IInv, Typed
  <2> QED BY <2>1, MaxOfTwo DEF NextRun
<1>4. CASE ~ torn /\ RepeatsLeft(e, event[e].runs + 1)
  <2>1. Outcome(e, at, torn) = [event[e] EXCEPT !.runs = event[e].runs + 1, !.next = NextRun(e, at)]
    BY <1>4 DEF Outcome
  <2> QED BY <1>1, <1>2, <1>3, <1>4, <2>1 DEF EventType
<1>5. CASE ~ (~ torn /\ RepeatsLeft(e, event[e].runs + 1))
  <2>1. Outcome(e, at, torn) = [event[e] EXCEPT !.runs = event[e].runs + 1, !.next = None,
                                                  !.status = IF torn THEN "failed" ELSE "executed"]
    BY <1>5 DEF Outcome
  <2> QED BY <1>1, <1>2, <2>1 DEF EventType
<1> QED BY <1>4, <1>5

(* A run that is over, its outcome on file or lost.                         *)
LEMMA OverLimits ==
    ASSUME IInv, Counted, NEW p \in Runners, InHand(p),
           run' = [run EXCEPT ![p] = NoRun], performed' = performed,
           \/ /\ event' = [event EXCEPT ![run[p].event] = Outcome(run[p].event, run[p].at, run[p].failed)]
              /\ faults' = faults
           \/ event' = event /\ faults' = faults + 1
    PROVE  Counted'
<1> SUFFICES ASSUME NEW e \in Events
             PROVE  IF event'[e] = None THEN performed'[e] = 0
                    ELSE performed'[e] <= event'[e].runs + faults' + (IF Acted(e)' THEN 1 ELSE 0)
  BY DEF Counted
<1>1. run[p].event \in Events /\ Scheduled(run[p].event) /\ run[p].at \in Nat /\ run[p].failed \in BOOLEAN
  BY DEF InHand, IInv, Typed, RunIsHeld, RunType
<1>2. \A q \in Runners \ {p} : run[q].event # e
  BY Constants DEF InHand, IInv, RunIsHeld, Typed
<1>3. ~ Acted(e)'
  BY <1>2, NothingType, Constants DEF Acted, IInv, Typed
<1>4. IF event[e] = None THEN performed[e] = 0
      ELSE performed[e] <= event[e].runs + faults + (IF Acted(e) THEN 1 ELSE 0)
  BY DEF Counted
<1>5. Acted(e) => e = run[p].event
  BY <1>2 DEF Acted
<1>6. CASE event' = event /\ faults' = faults + 1
  BY <1>3, <1>4, <1>6, Numbers
<1>7. CASE event' = [event EXCEPT ![run[p].event] = Outcome(run[p].event, run[p].at, run[p].failed)]
           /\ faults' = faults
  <2>1. CASE e # run[p].event
    <3>1. event'[e] = event[e] /\ ~ Acted(e)
      BY <1>5, <1>7, <2>1
    <3> QED BY <1>3, <1>4, <1>7, <3>1, Numbers
  <2>2. CASE e = run[p].event
    <3>1. event[e] # None /\ event'[e] \in EventType /\ event'[e].runs = event[e].runs + 1
      BY <1>1, <1>7, <2>2, OutcomeRuns DEF IInv, Typed, Scheduled
    <3>2. event'[e] # None
      BY <3>1, Constants
    <3> QED BY <1>3, <1>4, <1>7, <3>1, <3>2, Numbers
  <2> QED BY <2>1, <2>2
<1> QED BY <1>6, <1>7

LEMMA LimitsStep == IInv /\ Limits /\ [Next]_vars => Limits'
<1> SUFFICES ASSUME IInv, Counted, AllInLimit, [Next]_vars PROVE Counted' /\ AllInLimit'
  BY DEF Limits
<1>1. ASSUME UNCHANGED <<event, run, performed, faults>> PROVE Counted' /\ AllInLimit'
  BY <1>1 DEF Counted, Acted, AllInLimit, InLimit, Scheduled
<1>2. ASSUME NEW e \in Events, Create(e) PROVE Counted' /\ AllInLimit'
  <2>1. PICK at \in RunAts \cup {None} :
          event' = [event EXCEPT ![e] = [status |-> "scheduled", runAt |-> at, next |-> at, runs |-> 0]]
    BY <1>2 DEF Create
  <2>2. event[e] = None /\ UNCHANGED <<run, performed, faults>>
    BY <1>2 DEF Create
  <2> DEFINE new == [status |-> "scheduled", runAt |-> at, next |-> at, runs |-> 0]
  <2>3. new.runs = 0 /\ new.status = "scheduled"
    OBVIOUS
  <2> HIDE DEF new
  <2>4. event'[e] = new /\ (\A d \in Events \ {e} : event'[d] = event[d])
    BY <2>1 DEF IInv, Typed, new
  <2>5. Counted'
    <3> SUFFICES ASSUME NEW d \in Events
                 PROVE  IF event'[d] = None THEN performed'[d] = 0
                        ELSE performed'[d] <= event'[d].runs + faults' + (IF Acted(d)' THEN 1 ELSE 0)
      BY DEF Counted
    <3>1. CASE d = e
      BY <2>2, <2>3, <2>4, <3>1, Numbers DEF Counted, Acted
    <3>2. CASE d # e
      BY <2>2, <2>4, <3>2 DEF Counted, Acted
    <3> QED BY <3>1, <3>2
  <2>6. AllInLimit'
    <3> SUFFICES ASSUME NEW d \in Events, event'[d] # None PROVE InLimit(d)'
      BY DEF AllInLimit
    <3>1. CASE d = e
      BY <2>3, <2>4, <3>1, Numbers DEF InLimit
    <3>2. CASE d # e
      BY <2>4, <3>2 DEF AllInLimit, InLimit, Scheduled
    <3> QED BY <3>1, <3>2
  <2> QED BY <2>5, <2>6
<1>3. ASSUME NEW e \in Events, Cancel(e) PROVE Counted' /\ AllInLimit'
  <2>1. Scheduled(e) /\ UNCHANGED <<run, performed, faults>> /\ event' = [event EXCEPT ![e].status = "cancelled"]
    BY <1>3 DEF Cancel
  <2>2. event[e] \in EventType /\ event[e] # None /\ event[e].runs \in Nat
    BY <2>1 DEF Scheduled, IInv, Typed, EventType
  <2>3. event'[e] = [event[e] EXCEPT !.status = "cancelled"] /\ \A d \in Events \ {e} : event'[d] = event[d]
    BY <2>1 DEF IInv, Typed
  <2>4. event'[e].runs = event[e].runs
    BY <2>2, <2>3 DEF EventType
  <2>5. Counted'
    <3> SUFFICES ASSUME NEW d \in Events
                 PROVE  IF event'[d] = None THEN performed'[d] = 0
                        ELSE performed'[d] <= event'[d].runs + faults' + (IF Acted(d)' THEN 1 ELSE 0)
      BY DEF Counted
    <3>1. CASE d = e
      <4>1. [event[e] EXCEPT !.status = "cancelled"] \in EventType
        BY <2>2 DEF EventType
      <4>2. event'[d] # None
        BY <2>3, <3>1, <4>1, Constants
      <4>3. Acted(d)' = Acted(d)
        BY <2>1 DEF Acted
      <4> QED BY <2>1, <2>2, <2>4, <3>1, <4>2, <4>3 DEF Counted
    <3>2. CASE d # e
      BY <2>1, <2>3, <3>2 DEF Counted, Acted
    <3> QED BY <3>1, <3>2
  <2>6. AllInLimit'
    <3> SUFFICES ASSUME NEW d \in Events, event'[d] # None PROVE InLimit(d)'
      BY DEF AllInLimit
    <3>1. CASE d = e
      <4>1. InLimit(e) /\ Repeat[e] \in Nat /\ MaxRuns[e] \in Nat
        BY <2>2, Numbers DEF AllInLimit
      <4> QED BY <2>1, <2>2, <2>4, <3>1, <4>1 DEF InLimit
    <3>2. CASE d # e
      BY <2>3, <3>2 DEF AllInLimit, InLimit, Scheduled
    <3> QED BY <3>1, <3>2
  <2> QED BY <2>5, <2>6
<1>4. ASSUME NEW p \in Runners, NEW e \in Events, Take(p, e), UNCHANGED <<event, performed, faults>>
      PROVE  Counted' /\ AllInLimit'
  <2>1. lock = None /\ \A q \in Runners : run[q].event = None
    BY <1>4, Constants DEF Take, IInv, RunIsHeld
  <2>2. \A d \in Events : ~ Acted(d)
    BY <2>1, Constants DEF Acted
  <2>3. Counted'
    <3> SUFFICES ASSUME NEW d \in Events
                 PROVE  IF event'[d] = None THEN performed'[d] = 0
                        ELSE performed'[d] <= event'[d].runs + faults' + (IF Acted(d)' THEN 1 ELSE 0)
      BY DEF Counted
    <3> QED BY <1>4, <2>2, Numbers DEF Counted
  <2>4. AllInLimit'
    BY <1>4 DEF AllInLimit, InLimit, Scheduled
  <2> QED BY <2>3, <2>4
<1>5. CASE RunDue
  <2>1. Head(due) \in Events
    BY <1>5 DEF RunDue, IInv, Typed, Lists
  <2> QED BY <1>4, <1>5, <2>1, Constants DEF RunDue
<1>6. ASSUME NEW h \in Handlers, NEW e \in Events, RunNow(h, e) PROVE Counted' /\ AllInLimit'
  BY <1>4, <1>6 DEF RunNow, Runners
<1>7. ASSUME NEW p \in Runners, Primitive(p) PROVE Counted' /\ AllInLimit'
  <2>1. /\ InHand(p) /\ run[p] \in RunType /\ run[p].event \in Events /\ Scheduled(run[p].event)
        /\ UNCHANGED <<event, faults>>
    BY <1>7 DEF Primitive, InHand, IInv, Typed, RunIsHeld, RunType
  <2>2. PICK ok \in BOOLEAN :
          /\ run' = [run EXCEPT ![p].left = Tail(@), ![p].failed = @ \/ ~ ok, ![p].acted = @ \/ ok]
          /\ performed' = IF ok /\ ~ run[p].acted
                          THEN [performed EXCEPT ![run[p].event] = @ + 1] ELSE performed
    BY <1>7 DEF Primitive
  <2>3. /\ \A q \in Runners : run'[q].event = run[q].event
        /\ \A q \in Runners \ {p} : run'[q].acted = run[q].acted
        /\ run'[p].acted <=> (run[p].acted \/ ok)
    BY <2>1, <2>2 DEF IInv, Typed, RunType
  <2>4. \A d \in Events : Acted(d) => Acted(d)'
    BY <2>3 DEF Acted
  <2>5. \A d \in Events \ {run[p].event} : performed'[d] = performed[d]
    BY <2>1, <2>2 DEF IInv, Typed
  <2>6. Acted(run[p].event) <=> run[p].acted
    BY <2>1 DEF Acted, InHand, IInv, RunIsHeld, Typed
  <2>7. Counted'
    <3> SUFFICES ASSUME NEW d \in Events
                 PROVE  IF event'[d] = None THEN performed'[d] = 0
                        ELSE performed'[d] <= event'[d].runs + faults' + (IF Acted(d)' THEN 1 ELSE 0)
      BY DEF Counted
    <3>0. IF event[d] = None THEN performed[d] = 0
          ELSE performed[d] <= event[d].runs + faults + (IF Acted(d) THEN 1 ELSE 0)
      BY DEF Counted
    <3>1. CASE d # run[p].event
      BY <2>1, <2>4, <2>5, <3>0, <3>1, Numbers
    <3>2. CASE d = run[p].event
      <4>1. event[d] # None
        BY <2>1, <3>2 DEF Scheduled
      <4>2. CASE ok /\ ~ run[p].acted
        <5>1. performed'[d] = performed[d] + 1 /\ ~ Acted(d) /\ Acted(d)'
          BY <2>1, <2>2, <2>3, <2>6, <3>2, <4>2 DEF IInv, Typed, Acted
        <5> QED BY <2>1, <3>0, <4>1, <5>1, Numbers
      <4>3. CASE ~ (ok /\ ~ run[p].acted)
        BY <2>1, <2>2, <2>4, <3>0, <4>1, <4>3, Numbers
      <4> QED BY <4>2, <4>3
    <3> QED BY <3>1, <3>2
  <2>8. AllInLimit'
    BY <2>1 DEF AllInLimit, InLimit, Scheduled
  <2> QED BY <2>7, <2>8
<1>8. ASSUME NEW p \in Runners, Finish(p) PROVE Counted' /\ AllInLimit'
  <2> DEFINE e == run[p].event
  <2>1. InHand(p) /\ e \in Events /\ Scheduled(e) /\ run[p].at \in Nat /\ run[p].failed \in BOOLEAN
    BY <1>8 DEF Finish, InHand, IInv, Typed, RunIsHeld, RunType
  <2>2. /\ event' = [event EXCEPT ![e] = Outcome(e, run[p].at, run[p].failed)]
        /\ run' = [run EXCEPT ![p] = NoRun] /\ UNCHANGED <<performed, faults>>
    BY <1>8 DEF Finish
  <2>3. Counted'
    BY <2>1, <2>2, OverLimits
  <2> HIDE DEF e
  <2>4. /\ event'[e].runs = event[e].runs + 1
        /\ event'[e].status = "scheduled" => RepeatsLeft(e, event'[e].runs)
        /\ \A d \in Events \ {e} : event'[d] = event[d]
    BY <2>1, <2>2, OutcomeRuns DEF IInv, Typed
  <2>5. AllInLimit'
    <3> SUFFICES ASSUME NEW d \in Events, event'[d] # None PROVE InLimit(d)'
      BY DEF AllInLimit
    <3>1. CASE d = e
      <4>1. InLimit(e) /\ event[e].runs \in Nat /\ Repeat[e] \in Nat /\ MaxRuns[e] \in Nat
        BY <2>1, Numbers DEF AllInLimit, Scheduled
      <4> QED BY <2>1, <2>4, <3>1, <4>1 DEF InLimit, RepeatsLeft, Scheduled
    <3>2. CASE d # e
      BY <2>4, <3>2 DEF AllInLimit, InLimit, Scheduled
    <3> QED BY <3>1, <3>2
  <2> QED BY <2>3, <2>5
<1>9. ASSUME NEW p \in Runners, FinishFails(p) PROVE Counted' /\ AllInLimit'
  <2>1. Counted'
    BY <1>9, OverLimits DEF FinishFails
  <2>2. AllInLimit'
    BY <1>9 DEF FinishFails, AllInLimit, InLimit, Scheduled
  <2> QED BY <2>1, <2>2
<1>10. CASE Crash
  <2>1. event' = event /\ performed' = performed /\ faults' = faults + 1
    BY <1>10 DEF Crash
  <2>2. Counted'
    <3> SUFFICES ASSUME NEW d \in Events
                 PROVE  IF event'[d] = None THEN performed'[d] = 0
                        ELSE performed'[d] <= event'[d].runs + faults' + (IF Acted(d)' THEN 1 ELSE 0)
      BY DEF Counted
    <3>1. IF event[d] = None THEN performed[d] = 0
          ELSE performed[d] <= event[d].runs + faults + (IF Acted(d) THEN 1 ELSE 0)
      BY DEF Counted
    <3> QED BY <2>1, <3>1, Numbers
  <2>3. AllInLimit'
    BY <2>1 DEF AllInLimit, InLimit, Scheduled
  <2> QED BY <2>2, <2>3
<1>11. CASE ListDue \/ RefuseDue \/ Maintain \/ Tick
  BY <1>1, <1>11 DEF ListDue, RefuseDue, Maintain, Tick
<1>12. CASE UNCHANGED vars
  BY <1>1, <1>12 DEF vars
<1> QED BY <1>2, <1>3, <1>5, <1>6, <1>7, <1>8, <1>9, <1>10, <1>11, <1>12 DEF Next

-----------------------------------------------------------------------------
(* What is on the worker's list is there once, and is still due unless it   *)
(* was run by hand or is not scheduled any more; so is no run in hand.      *)
StillDue(e) == Scheduled(e) => event[e].next \in Nat /\ event[e].next <= clock

ListIsDue ==
    /\ \A i, j \in 1..Len(due) : due[i] = due[j] => i = j
    /\ \A i \in 1..Len(due) : due[i] \notin byHand =>
          /\ StillDue(due[i]) /\ event[due[i]] # None
          /\ \A p \in Runners : run[p].event # due[i]

OnTime == early = {} /\ ListIsDue

LEMMA Listed ==
    ASSUME NEW S \in SUBSET Events, NEW s \in SetToSeqs(S)
    PROVE  /\ \A i, j \in 1..Len(s) : s[i] = s[j] => i = j
           /\ \A i \in 1..Len(s) : s[i] \in S
<1>1. Cardinality(S) \in Nat
  BY Constants, FS_Subset, FS_CardinalityType
<1>2. /\ s \in [1..Cardinality(S) -> S]
      /\ \A i, j \in 1..Cardinality(S) : i # j => s[i] # s[j]
  BY DEF SetToSeqs
<1>3. Len(s) = Cardinality(S) /\ DOMAIN s = 1..Len(s)
  BY <1>1, <1>2, OrderIsList DEF Lists
<1> QED BY <1>2, <1>3

LEMMA HeadOfList ==
    ASSUME NEW s \in Lists, s # << >>
    PROVE  /\ Head(s) = s[1] /\ 1 \in 1..Len(s) /\ Head(s) \in Events
           /\ Tail(s) \in Lists /\ Len(Tail(s)) = Len(s) - 1
           /\ \A i \in 1..Len(Tail(s)) : i + 1 \in 1..Len(s) /\ Tail(s)[i] = s[i + 1]
  BY DEF Lists

(* Steps that leave the list, or take its first event off, or clear it.     *)
LEMMA ListKept ==
    ASSUME IInv, ListIsDue, due' = due, byHand \subseteq byHand',
           \A i \in 1..Len(due) : due[i] \notin byHand' =>
              /\ StillDue(due[i])' /\ event'[due[i]] # None
              /\ \A p \in Runners : run'[p].event # due[i]
    PROVE  ListIsDue'
  BY DEF ListIsDue

LEMMA OnTimeStep == IInv /\ OnTime /\ [Next]_vars => OnTime'
<1> SUFFICES ASSUME IInv, early = {}, ListIsDue, [Next]_vars PROVE early' = {} /\ ListIsDue'
  BY DEF OnTime
<1> USE DEF OnTime
<1>0. due \in Lists /\ \A i \in 1..Len(due) : due[i] \in Events
  BY DEF IInv, Typed, Lists
<1>1. ASSUME UNCHANGED <<event, due, byHand, early>>, clock' \in Nat, clock <= clock',
             \A p \in Runners : run'[p].event = run[p].event \/ run'[p].event = None
      PROVE  early' = {} /\ ListIsDue'
  <2>1. ASSUME NEW i \in 1..Len(due), due[i] \notin byHand
        PROVE  /\ StillDue(due[i])' /\ event'[due[i]] # None
               /\ \A p \in Runners : run'[p].event # due[i]
    <3>1. StillDue(due[i]) /\ event[due[i]] # None /\ due[i] \in Events /\ clock \in Nat
      BY <1>0, <2>1 DEF ListIsDue, IInv, Typed
    <3>2. StillDue(due[i])'
      BY <1>1, <3>1 DEF StillDue, Scheduled
    <3> QED BY <1>1, <2>1, <3>1, <3>2, Constants DEF ListIsDue
  <2> QED BY <1>1, <2>1, ListKept
<1>2. ASSUME NEW e \in Events, Create(e) \/ Cancel(e) PROVE early' = {} /\ ListIsDue'
  <2>1. UNCHANGED <<clock, due, run, byHand, early>>
    BY <1>2 DEF Create, Cancel
  <2>2. ASSUME NEW i \in 1..Len(due), due[i] \notin byHand
        PROVE  StillDue(due[i])' /\ event'[due[i]] # None
    <3>1. StillDue(due[i]) /\ event[due[i]] # None /\ due[i] \in Events
      BY <1>0, <2>2 DEF ListIsDue
    <3>2. CASE Create(e)
      <4>1. due[i] # e /\ event'[due[i]] = event[due[i]]
        BY <3>1, <3>2 DEF Create, IInv, Typed
      <4> QED BY <2>1, <3>1, <4>1 DEF StillDue, Scheduled
    <3>3. CASE Cancel(e)
      <4>1. CASE due[i] # e
        <5>1. event'[due[i]] = event[due[i]]
          BY <3>1, <3>3, <4>1 DEF Cancel, IInv, Typed
        <5> QED BY <2>1, <3>1, <5>1 DEF StillDue, Scheduled
      <4>2. CASE due[i] = e
        <5>1. event'[e] = [event[e] EXCEPT !.status = "cancelled"] /\ event[e] \in EventType
          BY <3>1, <3>3, <4>2 DEF Cancel, IInv, Typed
        <5>2. event'[e] \in EventType /\ event'[e].status = "cancelled"
          BY <5>1 DEF EventType
        <5>3. ~ Scheduled(due[i])'
          BY <2>1, <4>2, <5>2 DEF Scheduled
        <5> QED BY <4>2, <5>2, <5>3, Constants DEF StillDue
      <4> QED BY <4>1, <4>2
    <3> QED BY <1>2, <3>2, <3>3
  <2>3. \A i \in 1..Len(due) : due[i] \notin byHand' =>
              /\ StillDue(due[i])' /\ event'[due[i]] # None
              /\ \A p \in Runners : run'[p].event # due[i]
    BY <2>1, <2>2 DEF ListIsDue
  <2> QED BY <2>1, <2>3, ListKept
<1>3. CASE ListDue
  <2>1. PICK s \in SetToSeqs({e \in Events : IsDue(e)}) : due' = s
    BY <1>3 DEF ListDue
  <2>2. /\ \A i, j \in 1..Len(s) : s[i] = s[j] => i = j
        /\ \A i \in 1..Len(s) : s[i] \in Events /\ IsDue(s[i])
    BY Listed
  <2>3. lock = None /\ UNCHANGED <<clock, event, run, early>>
    BY <1>3 DEF ListDue
  <2>4. \A p \in Runners : run'[p].event = None
    BY <2>3, Constants DEF IInv, RunIsHeld
  <2>5. \A e \in Events : IsDue(e) => StillDue(e)' /\ event'[e] # None
    <3> SUFFICES ASSUME NEW e \in Events, IsDue(e) PROVE StillDue(e)' /\ event'[e] # None
      OBVIOUS
    <3>1. event[e] \in EventType
      BY DEF IsDue, Scheduled, IInv, Typed
    <3> QED BY <2>3, <3>1 DEF IsDue, StillDue, Scheduled, EventType
  <2>6. \A i \in 1..Len(s) : StillDue(s[i])' /\ event'[s[i]] # None /\ \A p \in Runners : run'[p].event # s[i]
    BY <2>2, <2>4, <2>5, Constants
  <2> QED BY <2>1, <2>2, <2>3, <2>6 DEF ListIsDue
<1>4. CASE RunDue
  <2>1. /\ due # << >> /\ due' = Tail(due) /\ Scheduled(Head(due)) /\ Take(Worker, Head(due))
        /\ UNCHANGED <<clock, event, byHand>>
        /\ early' = IF event[Head(due)].next <= clock \/ Head(due) \in byHand
                    THEN early ELSE early \cup {Head(due)}
    BY <1>4 DEF RunDue
  <2>2. /\ Head(due) = due[1] /\ 1 \in 1..Len(due) /\ Head(due) \in Events
        /\ \A i \in 1..Len(Tail(due)) : i + 1 \in 1..Len(due) /\ Tail(due)[i] = due[i + 1]
        /\ Len(Tail(due)) = Len(due) - 1 /\ Len(due) \in Nat
    BY <1>0, <2>1, HeadOfList DEF Lists
  <2>3. early' = {}
    BY <2>1, <2>2 DEF ListIsDue, StillDue
  <2>4. \A p \in Runners : run'[p].event = run[p].event \/ run'[p].event = Head(due)
    BY <2>1 DEF Take, IInv, Typed
  <2>5. \A i, j \in 1..Len(due') : due'[i] = due'[j] => i = j
    BY <2>1, <2>2 DEF ListIsDue
  <2>6. ASSUME NEW i \in 1..Len(due'), due'[i] \notin byHand'
        PROVE  StillDue(due[i])' /\ event'[due'[i]] # None /\ \A p \in Runners : run'[p].event # due'[i]
    <3>1. due'[i] = due[i + 1] /\ i + 1 \in 1..Len(due) /\ i + 1 # 1 /\ due[i + 1] # due[1]
      BY <2>1, <2>2 DEF ListIsDue
    <3>2. /\ StillDue(due[i + 1]) /\ event[due[i + 1]] # None
          /\ \A p \in Runners : run[p].event # due[i + 1]
      BY <2>1, <2>6, <3>1 DEF ListIsDue
    <3>3. StillDue(due[i])'
      BY <2>1, <3>1, <3>2 DEF StillDue, Scheduled
    <3> QED BY <2>1, <2>2, <2>4, <3>1, <3>2, <3>3
  <2> QED BY <2>3, <2>5, <2>6 DEF ListIsDue
<1>5. ASSUME due' = << >>, early' = early PROVE early' = {} /\ ListIsDue'
  BY <1>5 DEF ListIsDue
<1>6. ASSUME NEW h \in Handlers, NEW e \in Events, RunNow(h, e) PROVE early' = {} /\ ListIsDue'
  <2>1. /\ Take(h, e) /\ byHand' = byHand \cup {e} /\ UNCHANGED <<clock, event, due, early>>
    BY <1>6 DEF RunNow
  <2>2. \A p \in Runners : run'[p].event = run[p].event \/ run'[p].event = e
    BY <2>1 DEF Take, IInv, Typed
  <2>3. \A i \in 1..Len(due) : due[i] \notin byHand' =>
              /\ StillDue(due[i])' /\ event'[due[i]] # None
              /\ \A p \in Runners : run'[p].event # due[i]
    BY <2>1, <2>2 DEF ListIsDue, StillDue, Scheduled
  <2> QED BY <2>1, <2>3, ListKept
<1>7. ASSUME NEW p \in Runners, Primitive(p) PROVE early' = {} /\ ListIsDue'
  <2>1. UNCHANGED <<clock, event, due, byHand, early>> /\ clock \in Nat
    BY <1>7, Constants DEF Primitive, IInv, Typed
  <2>2. \A q \in Runners : run'[q].event = run[q].event
    <3>1. PICK ok \in BOOLEAN :
            run' = [run EXCEPT ![p].left = Tail(@), ![p].failed = @ \/ ~ ok, ![p].acted = @ \/ ok]
      BY <1>7 DEF Primitive
    <3> QED BY <3>1 DEF IInv, Typed, RunType
  <2> QED BY <1>1, <2>1, <2>2
<1>8. ASSUME NEW p \in Runners, Finish(p) PROVE early' = {} /\ ListIsDue'
  <2>1. /\ InHand(p) /\ run[p].event \in Events /\ UNCHANGED <<clock, due, byHand, early>>
        /\ event' = [event EXCEPT ![run[p].event] = Outcome(run[p].event, run[p].at, run[p].failed)]
        /\ run' = [run EXCEPT ![p] = NoRun]
    BY <1>8 DEF Finish, InHand, IInv, Typed, RunType
  <2>2. \A q \in Runners : run'[q].event = run[q].event \/ run'[q].event = None
    BY <2>1, NothingType DEF IInv, Typed
  <2>3. ASSUME NEW i \in 1..Len(due), due[i] \notin byHand
        PROVE  /\ StillDue(due[i])' /\ event'[due[i]] # None
               /\ \A q \in Runners : run'[q].event # due[i]
    <3>1. /\ StillDue(due[i]) /\ event[due[i]] # None /\ due[i] \in Events
          /\ \A q \in Runners : run[q].event # due[i]
      BY <1>0, <2>3 DEF ListIsDue
    <3>2. event'[due[i]] = event[due[i]]
      BY <2>1, <3>1 DEF IInv, Typed
    <3>3. StillDue(due[i])'
      BY <2>1, <3>1, <3>2 DEF StillDue, Scheduled
    <3> QED BY <2>2, <3>1, <3>2, <3>3, Constants
  <2> QED BY <2>1, <2>3, ListKept
<1>9. ASSUME NEW p \in Runners, FinishFails(p) PROVE early' = {} /\ ListIsDue'
  <2>1. /\ UNCHANGED <<clock, event, byHand, early>> /\ clock \in Nat
        /\ run' = [run EXCEPT ![p] = NoRun] /\ due' = IF p = Worker THEN << >> ELSE due
    BY <1>9, Constants DEF FinishFails, IInv, Typed
  <2>2. \A q \in Runners : run'[q].event = run[q].event \/ run'[q].event = None
    BY <2>1, NothingType DEF IInv, Typed
  <2> QED BY <1>1, <1>5, <2>1, <2>2
<1>10. CASE RefuseDue \/ Crash
  BY <1>5, <1>10 DEF RefuseDue, Crash
<1>11. CASE Maintain \/ Tick
  <2>1. clock \in Nat /\ clock' \in Nat /\ clock <= clock'
    BY <1>11, Constants DEF Maintain, Tick, IInv, Typed
  <2> QED BY <1>1, <1>11, <2>1 DEF Maintain, Tick
<1>12. CASE UNCHANGED vars
  <2>1. clock \in Nat
    BY Constants DEF IInv, Typed
  <2> QED BY <1>1, <1>12, <2>1 DEF vars
<1> QED BY <1>2, <1>3, <1>4, <1>6, <1>7, <1>8, <1>9, <1>10, <1>11, <1>12 DEF Next

-----------------------------------------------------------------------------
(* Events keep their shape, and only the holder of EVENT_LOCK has a run in  *)
(* hand.                                                                    *)
THEOREM TypeCorrect == Spec => []TypeOK
<1>1. IInv => TypeOK
  BY DEF IInv, Typed, RunIsHeld, TypeOK, RunType, Plans, Lists
<1> QED BY <1>1, Invariant, PTL

(* After cancel_event an event has no effect any more, although the worker  *)
(* may have it on its list, and although panels die and writes fail.        *)
THEOREM CancelledForGood == Spec => CancelIsFinal
<1> DEFINE Final == \A e \in Events : event[e] # None /\ event[e].status = "cancelled"
                                       => performed'[e] = performed[e]
<1>1. IInv /\ [Next]_vars => [Final]_vars
  <2> SUFFICES ASSUME IInv, Next PROVE Final
    OBVIOUS
  <2>1. ASSUME NEW p \in Runners, Primitive(p) PROVE Final
    BY <2>1, PrimitiveStep DEF Scheduled
  <2>2. CASE UNCHANGED performed
    BY <2>2
  <2>3. UNCHANGED performed \/ \E p \in Runners : Primitive(p)
    BY DEF Next, Create, Cancel, ListDue, RunDue, RefuseDue, RunNow, Finish, FinishFails, Crash,
       Maintain, Tick
  <2> QED BY <2>1, <2>2, <2>3
<1> QED BY <1>1, Invariant, PTL DEF Spec, CancelIsFinal

(* An event takes effect as often as its limit allows, plus once for each   *)
(* death or failed write that may have taken the record of a run away, and  *)
(* the worker runs none before its time although it looks at the time only  *)
(* when it makes its list (execute_event, due_event_ids).                   *)
THEOREM PlanIsKept == Spec => []EventsKeepTheirPlan
<1>1. Init => Limits
  BY Constants DEF Init, Limits, Counted, AllInLimit
<1>2. Init => OnTime
  BY DEF Init, OnTime, ListIsDue
<1>3. IInv => TypeOK
  BY DEF IInv, Typed, RunIsHeld, TypeOK, RunType, Plans, Lists
<1>4. IInv /\ Limits => RunsWithinLimit
  <2> SUFFICES ASSUME IInv, Counted, AllInLimit, NEW e \in Events
               PROVE  /\ Repeat[e] = 0 => performed[e] <= 1 + faults
                      /\ MaxRuns[e] > 0 => performed[e] <= MaxRuns[e] + faults
    BY DEF Limits, RunsWithinLimit
  <2>1. CASE event[e] = None
    BY <2>1, Numbers DEF Counted
  <2>2. CASE event[e] # None
    <3>1. Acted(e) => Scheduled(e)
      BY Constants DEF Acted, IInv, RunIsHeld, Typed
    <3>2. performed[e] <= event[e].runs + faults + (IF Acted(e) THEN 1 ELSE 0) /\ InLimit(e)
      BY <2>2 DEF Counted, AllInLimit
    <3> QED BY <2>2, <3>1, <3>2, Numbers DEF InLimit
  <2> QED BY <2>1, <2>2
<1>5. IInv /\ Limits /\ OnTime => EventsKeepTheirPlan
  BY <1>3, <1>4 DEF OnTime, NeverEarly, EventsKeepTheirPlan
<1> QED BY <1>1, <1>2, <1>5, Invariant, LimitsStep, OnTimeStep, PTL DEF Spec

-----------------------------------------------------------------------------
(* The backup schedule. *)

BackupTimes == {-1} \cup 1..(LastDay + Interval + Retry + Day)
BackupRuns == [set : Nat, ok : BOOLEAN, at : 1..LastDay]
BackupSchedules ==
    [enabled : BOOLEAN, retention : Retentions \cup {0}, next : BackupTimes,
     lastOk : {"none", "ok", "failed"}, failures : Nat, deferrals : {0, 1},
     runs : SUBSET BackupRuns]
BackupSets ==
    [by : {"schedule", "hand"}, at : 1..LastDay, ok : BOOLEAN,
     place : {"here", "removed", "moved"}]

BackupTicks ==
    [pc : {"idle", "lock", "work", "record"}, now : 0..LastDay, due : Int, set : Nat,
     ok : BOOLEAN]

BackupTyped ==
    /\ schedule \in BackupSchedules
    /\ \E n \in 0..MaxSets : DOMAIN backups = 1..n
    /\ backups \in [DOMAIN backups -> BackupSets]
    /\ backupLock \in {"free", "worker", "other"}
    /\ backupLock = "worker" <=> tick.pc = "work"
    /\ tick \in BackupTicks
    /\ tick.pc # "idle" => tick.now \in 1..backupClock
    /\ backupClock \in 1..LastDay /\ restarts \in 0..MaxRestarts
    /\ failed \in Nat

(* The set a tick has in hand is its own, and no run names it yet. *)
SetInHand ==
    tick.pc \in {"work", "record"} =>
        /\ tick.set \in DOMAIN backups
        /\ backups[tick.set].by = "schedule" /\ backups[tick.set].at = tick.now
        /\ backups[tick.set].place # "removed"
        /\ tick.pc = "record" => backups[tick.set].ok = tick.ok
        /\ \A r \in schedule.runs : r.set # tick.set

(* A run on record names a set of the schedule, made at the time of the run,
   and what it says of the set is true. *)
RunsAreReal ==
    \A r \in schedule.runs :
        /\ r.set \in DOMAIN backups
        /\ backups[r.set].by = "schedule" /\ backups[r.set].at = r.at
        /\ r.ok => backups[r.set].ok
        /\ \A q \in schedule.runs : q.set = r.set => q = r

(* A set is removed when it was good and its retention was over. *)
RemovedIsOver ==
    \A s \in DOMAIN backups : backups[s].place = "removed" =>
        /\ backups[s].by = "schedule" /\ backups[s].ok
        /\ \E r \in Retentions \ {0} : backupClock - backups[s].at > r

(* Each failure on show was a set, and an attempt that failed. *)
Untold == IF tick.pc \in {"work", "record"} THEN 1 ELSE 0
Unlisted == IF tick.pc = "record" /\ ~tick.ok THEN 1 ELSE 0

FailuresAreReal ==
    /\ \A n \in 0..MaxSets : DOMAIN backups = 1..n => schedule.failures + Untold <= n
    /\ schedule.failures + Unlisted <= failed
    /\ schedule.lastOk = "failed" => failed > 0

BackupInv == BackupTyped /\ SetInHand /\ RunsAreReal /\ RemovedIsOver /\ FailuresAreReal

BackupConstants ==
    /\ Interval \in Nat \ {0} /\ Retry \in Nat \ {0} /\ Day \in Nat \ {0}
    /\ LastDay \in Nat \ {0} /\ MaxSets \in Nat \ {0} /\ MaxRestarts \in Nat
    /\ Retentions \subseteq Nat

LEMMA BackupConstantsHold == BackupConstants
  BY WorkAssumption DEF Backups!BackupScheduleAssumption, BackupConstants

LEMMA BackupCardinality == ASSUME NEW S PROVE Backups!Cardinality(S) = Cardinality(S)
BY DEF Backups!Cardinality, Cardinality

LEMMA SetsOfBackups ==
    ASSUME NEW n \in Nat, DOMAIN backups = 1..n
    PROVE  Backups!Sets = 1..n /\ Backups!NextSet = n + 1
<1>1. Backups!Cardinality(1..n) = n
  BY FS_Interval, BackupCardinality
<1> QED  BY <1>1 DEF Backups!Sets, Backups!NextSet

LEMMA BackupInvInit == Backups!Init => BackupInv
<1> SUFFICES ASSUME Backups!Init PROVE BackupInv
  OBVIOUS
<1>1. /\ schedule = [enabled |-> FALSE, retention |-> 0, next |-> -1, lastOk |-> "none",
                     failures |-> 0, deferrals |-> 0, runs |-> {}]
      /\ backups = [s \in {} |-> {}]
      /\ backupLock = "free"
      /\ tick = [pc |-> "idle", now |-> 0, due |-> 0, set |-> 0, ok |-> FALSE]
      /\ failed = 0 /\ backupClock = 1 /\ restarts = 0
  BY DEF Backups!Init, Backups!Never, Backups!IdleTick
<1>2. BackupConstants
  BY BackupConstantsHold
<1>3. DOMAIN backups = {} /\ DOMAIN backups = 1..0
  BY <1>1
<1>4. schedule \in BackupSchedules
  BY <1>1 DEF BackupSchedules, BackupTimes
<1>5. BackupTyped
  <2>1. 0 \in 0..MaxSets
    BY <1>2 DEF BackupConstants
  <2>2. 0 \in 0..LastDay /\ 1 \in 1..LastDay /\ 0 \in 0..MaxRestarts
    BY <1>2 DEF BackupConstants
  <2>3. tick \in BackupTicks
    BY <1>1, <2>2 DEF BackupTicks
  <2> QED  BY <1>1, <1>3, <1>4, <2>1, <2>2, <2>3 DEF BackupTyped
<1>6. FailuresAreReal
  <2>1. Untold = 0 /\ Unlisted = 0 /\ schedule.failures = 0
    BY <1>1 DEF Untold, Unlisted
  <2> QED  BY <1>1, <2>1 DEF FailuresAreReal
<1> QED  BY <1>1, <1>3, <1>5, <1>6 DEF BackupInv, SetInHand, RunsAreReal, RemovedIsOver

(* Steps that make no set and settle none. *)
LEMMA BackupRest ==
    ASSUME BackupInv, UNCHANGED <<backups, failed>>,
           tick' \in BackupTicks,
           tick' = tick \/ tick'.pc \in {"idle", "lock"},
           tick'.pc # "idle" => tick'.now \in 1..backupClock,
           schedule' \in BackupSchedules,
           UNCHANGED <<schedule.lastOk, schedule.failures, schedule.runs>>,
           backupLock' \in {"free", "worker", "other"},
           backupLock' = "worker" <=> tick'.pc = "work",
           backupClock' \in backupClock..LastDay, restarts' \in 0..MaxRestarts
    PROVE  BackupInv'
<1>0. BackupTyped /\ SetInHand /\ RunsAreReal /\ RemovedIsOver /\ FailuresAreReal
  BY DEF BackupInv
<1>1. backupClock \in 1..LastDay /\ LastDay \in Nat
  BY <1>0, BackupConstantsHold DEF BackupTyped, BackupConstants
<1>2. backupClock' \in 1..LastDay /\ backupClock' >= backupClock
  BY <1>1
<1>3. BackupTyped'
  <2>1. tick'.pc # "idle" => tick'.now \in 1..backupClock'
    BY <1>1, <1>2
  <2> QED  BY <1>0, <1>2, <2>1 DEF BackupTyped
<1>4. SetInHand' /\ RunsAreReal'
  BY <1>0 DEF SetInHand, RunsAreReal
<1>5. RemovedIsOver'
  <2> SUFFICES ASSUME NEW s \in DOMAIN backups, backups[s].place = "removed"
               PROVE  \E r \in Retentions \ {0} : backupClock' - backups[s].at > r
    BY <1>0 DEF RemovedIsOver
  <2>1. PICK r \in Retentions \ {0} : backupClock - backups[s].at > r
    BY <1>0 DEF RemovedIsOver
  <2>2. backups[s].at \in 1..LastDay /\ r \in Nat
    BY <1>0, BackupConstantsHold DEF BackupTyped, BackupSets, BackupConstants
  <2>3. PICK a \in Nat : a = backups[s].at
    BY <1>1, <2>2
  <2>4. backupClock' - a > r
    BY <1>1, <1>2, <2>1, <2>2, <2>3
  <2> QED  BY <2>3, <2>4
<1>6. FailuresAreReal'
  <2>1. /\ schedule.failures \in Nat /\ failed \in Nat /\ {Untold, Unlisted} \subseteq {0, 1}
        /\ tick' = tick \/ (Untold' = 0 /\ Unlisted' = 0)
    BY <1>0 DEF BackupTyped, BackupSchedules, Untold, Unlisted
  <2>2. CASE tick' = tick
    BY <1>0, <2>2 DEF FailuresAreReal, Untold, Unlisted
  <2>3. CASE Untold' = 0 /\ Unlisted' = 0
    <3>1. ASSUME NEW n \in 0..MaxSets, DOMAIN backups = 1..n
          PROVE  schedule.failures + 0 <= n
      BY <1>0, <2>1, <3>1 DEF FailuresAreReal
    <3>2. schedule.failures + 0 <= failed
      BY <1>0, <2>1 DEF FailuresAreReal
    <3> QED  BY <1>0, <2>3, <3>1, <3>2 DEF FailuresAreReal
  <2> QED  BY <2>1, <2>2, <2>3
<1> QED  BY <1>3, <1>4, <1>5, <1>6 DEF BackupInv

LEMMA BackupConfigure ==
    ASSUME BackupInv, NEW e \in BOOLEAN, NEW w \in 1..Day, NEW r \in Retentions,
           Backups!Configure(e, w, r)
    PROVE  BackupInv'
<1>0. /\ schedule \in BackupSchedules /\ backupClock \in 1..LastDay
      /\ backupLock \in {"free", "worker", "other"} /\ restarts \in 0..MaxRestarts
  BY DEF BackupInv, BackupTyped
<1>1. /\ schedule' = [schedule EXCEPT !.enabled = e, !.retention = r,
                                      !.next = IF e THEN backupClock + w ELSE -1]
      /\ UNCHANGED <<backups, backupLock, tick, failed, backupClock, restarts>>
  BY DEF Backups!Configure, Backups!FirstRun, Backups!Never
<1>2. PICK t : t = IF e THEN backupClock + w ELSE -1
  OBVIOUS
<1>3. t \in BackupTimes
  <2>1. /\ w \in 1..Day /\ Day \in Nat /\ LastDay \in Nat /\ Interval \in Nat /\ Retry \in Nat
    BY BackupConstantsHold DEF BackupConstants
  <2>2. backupClock + w \in 1..(LastDay + Interval + Retry + Day)
    BY <1>0, <2>1
  <2> QED  BY <1>2, <2>2 DEF BackupTimes
<1>4. /\ schedule' \in BackupSchedules
      /\ UNCHANGED <<schedule.lastOk, schedule.failures, schedule.runs>>
  BY <1>0, <1>1, <1>2, <1>3 DEF BackupSchedules
<1>5. backupClock' \in backupClock..LastDay
  BY <1>0, <1>1, BackupConstantsHold DEF BackupConstants
<1>6. tick \in BackupTicks /\ (tick.pc # "idle" => tick.now \in 1..backupClock)
      /\ (backupLock = "worker" <=> tick.pc = "work")
  BY DEF BackupInv, BackupTyped
<1> QED  BY <1>0, <1>1, <1>4, <1>5, <1>6, BackupRest

LEMMA BackupSurroundings ==
    ASSUME BackupInv, Backups!OtherTakesLock \/ Backups!OtherLeavesLock \/ Backups!Advance
    PROVE  BackupInv'
<1>0. /\ schedule \in BackupSchedules /\ backupClock \in 1..LastDay
      /\ backupLock \in {"free", "worker", "other"} /\ restarts \in 0..MaxRestarts
  BY DEF BackupInv, BackupTyped
<1>1. /\ UNCHANGED <<schedule, backups, tick, failed, restarts>>
      /\ \/ backupLock = "free" /\ backupLock' = "other" /\ backupClock' = backupClock
         \/ backupLock = "other" /\ backupLock' = "free" /\ backupClock' = backupClock
         \/ /\ backupLock' = backupLock
            /\ backupClock < LastDay /\ backupClock' = backupClock + 1
  BY DEF Backups!OtherTakesLock, Backups!OtherLeavesLock, Backups!Advance
<1>2. backupClock' \in backupClock..LastDay
  BY <1>0, <1>1, BackupConstantsHold DEF BackupConstants
<1>6. tick \in BackupTicks /\ (tick.pc # "idle" => tick.now \in 1..backupClock)
      /\ (backupLock = "worker" <=> tick.pc = "work")
  BY DEF BackupInv, BackupTyped
<1> QED  BY <1>0, <1>1, <1>2, <1>6, BackupRest

LEMMA BackupTickReads == ASSUME BackupInv, Backups!TickReads PROVE BackupInv'
<1>0. /\ schedule \in BackupSchedules /\ backupClock \in 1..LastDay
      /\ backupLock \in {"free", "worker", "other"} /\ restarts \in 0..MaxRestarts
      /\ (backupLock = "worker" <=> tick.pc = "work") /\ LastDay \in Nat
  BY BackupConstantsHold DEF BackupInv, BackupTyped, BackupConstants
<1>1. /\ tick.pc = "idle"
      /\ tick' = [pc |-> "lock", now |-> backupClock, due |-> schedule.next, set |-> 0, ok |-> FALSE]
      /\ UNCHANGED <<schedule, backups, backupLock, failed, backupClock, restarts>>
  BY DEF Backups!TickReads, Backups!IdleTick
<1>2. schedule.next \in Int
  <2>1. schedule.next \in BackupTimes
    BY <1>0 DEF BackupSchedules
  <2> QED  BY <2>1 DEF BackupTimes
<1>3. backupClock \in 0..LastDay /\ backupClock \in 1..backupClock /\ backupClock \in backupClock..LastDay
  BY <1>0
<1>4. tick' \in BackupTicks /\ tick'.pc = "lock" /\ tick'.now = backupClock
  BY <1>1, <1>2, <1>3 DEF BackupTicks
<1> QED  BY <1>0, <1>1, <1>3, <1>4, BackupRest

LEMMA BackupTickDefers == ASSUME BackupInv, Backups!TickDefers PROVE BackupInv'
<1>0. /\ schedule \in BackupSchedules /\ backupClock \in 1..LastDay
      /\ backupLock \in {"free", "worker", "other"} /\ restarts \in 0..MaxRestarts
      /\ (backupLock = "worker" <=> tick.pc = "work")
      /\ (tick.pc # "idle" => tick.now \in 1..backupClock)
      /\ LastDay \in Nat \ {0} /\ Retry \in Nat \ {0} /\ Interval \in Nat /\ Day \in Nat
  BY BackupConstantsHold DEF BackupInv, BackupTyped, BackupConstants
<1>1. /\ tick.pc = "lock"
      /\ schedule' = [schedule EXCEPT !.next = tick.now + Retry, !.deferrals = 1]
      /\ tick' = [pc |-> "idle", now |-> 0, due |-> 0, set |-> 0, ok |-> FALSE]
      /\ UNCHANGED <<backups, backupLock, failed, backupClock, restarts>>
  BY DEF Backups!TickDefers, Backups!Deferred, Backups!IdleTick
<1>2. PICK now \in 1..backupClock : now = tick.now
  BY <1>0, <1>1
<1>3. now + Retry \in BackupTimes
  <2>1. now + Retry \in 1..(LastDay + Interval + Retry + Day)
    BY <1>0
  <2> QED  BY <2>1 DEF BackupTimes
<1>4. /\ schedule' \in BackupSchedules
      /\ UNCHANGED <<schedule.lastOk, schedule.failures, schedule.runs>>
  BY <1>0, <1>1, <1>2, <1>3 DEF BackupSchedules
<1>5. tick' \in BackupTicks /\ tick'.pc = "idle" /\ backupClock \in backupClock..LastDay
  BY <1>0, <1>1 DEF BackupTicks
<1> QED  BY <1>0, <1>1, <1>4, <1>5, BackupRest

LEMMA BackupRestart == ASSUME BackupInv, Backups!Restart PROVE BackupInv'
<1>0. /\ schedule \in BackupSchedules /\ backupClock \in 1..LastDay
      /\ backupLock \in {"free", "worker", "other"} /\ restarts \in 0..MaxRestarts
      /\ LastDay \in Nat /\ MaxRestarts \in Nat
  BY BackupConstantsHold DEF BackupInv, BackupTyped, BackupConstants
<1>1. /\ restarts < MaxRestarts /\ restarts' = restarts + 1
      /\ tick' = [pc |-> "idle", now |-> 0, due |-> 0, set |-> 0, ok |-> FALSE]
      /\ backupLock' = IF backupLock = "worker" THEN "free" ELSE backupLock
      /\ UNCHANGED <<schedule, backups, failed, backupClock>>
  BY DEF Backups!Restart, Backups!LockAfterDeath, Backups!IdleTick
<1>2. tick' \in BackupTicks /\ tick'.pc = "idle" /\ backupClock \in backupClock..LastDay
  BY <1>0, <1>1 DEF BackupTicks
<1>3. restarts' \in 0..MaxRestarts
  BY <1>0, <1>1
<1> QED  BY <1>0, <1>1, <1>2, <1>3, BackupRest

LEMMA OneLength == ASSUME NEW m \in Nat, NEW n \in Nat, 1..m = 1..n PROVE m = n
<1>1. \A k \in Nat : k \in 1..m <=> k \in 1..n
  OBVIOUS
<1>2. (m > 0 => m <= n) /\ (n > 0 => n <= m)
  BY <1>1
<1> QED  BY <1>2

(* A set more. *)
LEMMA BackupMade ==
    ASSUME NEW n \in Nat, DOMAIN backups = 1..n, NEW new, backups' = Backups!With(new)
    PROVE  /\ DOMAIN backups' = 1..(n + 1) /\ backups'[n + 1] = new
           /\ backups' = [s \in DOMAIN backups' |-> backups'[s]]
           /\ \A s \in DOMAIN backups : s \in DOMAIN backups' /\ s # n + 1 /\ backups'[s] = backups[s]
<1>1. Backups!Sets = 1..n /\ Backups!NextSet = n + 1
  BY SetsOfBackups
<1>2. PICK k \in Nat : k = n + 1
  OBVIOUS
<1>3. backups' = [s \in (1..n) \cup {k} |-> IF s = k THEN new ELSE backups[s]]
  BY <1>1, <1>2 DEF Backups!With
<1>4. (1..n) \cup {k} = 1..k /\ \A s \in 1..n : s # k /\ s \in 1..k
  BY <1>2
<1> QED  BY <1>2, <1>3, <1>4

LEMMA BackupMakes ==
    ASSUME BackupInv, NEW new \in BackupSets, new.place = "here",
           Backups!NextSet <= MaxSets, backups' = Backups!With(new),
           tick' \in BackupTicks, UNCHANGED <<schedule, failed, backupClock, restarts>>,
           tick'.pc # "idle" => tick'.now \in 1..backupClock,
           backupLock' \in {"free", "worker", "other"},
           backupLock' = "worker" <=> tick'.pc = "work",
           \/ tick' = tick
           \/ /\ tick'.pc = "work" /\ tick'.set = Backups!NextSet
              /\ new.by = "schedule" /\ new.at = tick'.now
              /\ tick.pc \notin {"work", "record"}
    PROVE  BackupInv'
<1>0. BackupTyped /\ SetInHand /\ RunsAreReal /\ RemovedIsOver /\ FailuresAreReal
  BY DEF BackupInv
<1>1. PICK n \in 0..MaxSets : DOMAIN backups = 1..n
  BY <1>0 DEF BackupTyped
<1>2. n \in Nat /\ MaxSets \in Nat
  BY <1>1, BackupConstantsHold DEF BackupConstants
<1>3. Backups!NextSet = n + 1
  BY <1>1, <1>2, SetsOfBackups
<1>4. n + 1 \in 0..MaxSets
  BY <1>2, <1>3
<1>5. /\ DOMAIN backups' = 1..(n + 1) /\ backups'[n + 1] = new
      /\ backups' = [s \in DOMAIN backups' |-> backups'[s]]
      /\ \A s \in DOMAIN backups : s \in DOMAIN backups' /\ s # n + 1 /\ backups'[s] = backups[s]
  BY <1>1, <1>2, BackupMade
<1>6. \A s \in DOMAIN backups' : s \in DOMAIN backups \/ s = n + 1
  BY <1>1, <1>2, <1>5
<1>7. n + 1 \in DOMAIN backups'
  BY <1>2, <1>5
<1>8. BackupTyped'
  <2>1. \A s \in DOMAIN backups' : backups'[s] \in BackupSets
    BY <1>0, <1>5, <1>6 DEF BackupTyped
  <2>2. \E k \in 0..MaxSets : DOMAIN backups' = 1..k
    BY <1>4, <1>5
  <2>3. backups' \in [DOMAIN backups' -> BackupSets]
    BY <1>5, <2>1
  <2> QED  BY <1>0, <2>2, <2>3 DEF BackupTyped
<1>9. RunsAreReal'
  BY <1>0, <1>5 DEF RunsAreReal
<1>10. RemovedIsOver'
  BY <1>0, <1>5, <1>6 DEF RemovedIsOver
<1>11. SetInHand'
  <2>1. CASE tick' = tick
    BY <1>0, <1>5, <2>1 DEF SetInHand
  <2>2. CASE /\ tick'.pc = "work" /\ tick'.set = Backups!NextSet
             /\ new.by = "schedule" /\ new.at = tick'.now
    <3>1. tick'.set = n + 1
      BY <1>3, <2>2
    <3>2. \A r \in schedule'.runs : r.set # n + 1
      BY <1>0, <1>5 DEF RunsAreReal
    <3> QED  BY <1>5, <1>7, <2>2, <3>1, <3>2 DEF SetInHand
  <2> QED  BY <2>1, <2>2
<1>12. FailuresAreReal'
  <2>1. /\ schedule.failures \in Nat /\ {Untold, Unlisted} \subseteq {0, 1}
    BY <1>0 DEF BackupTyped, BackupSchedules, Untold, Unlisted
  <2>2. /\ Unlisted' = Unlisted /\ (Untold' = Untold \/ (Untold = 0 /\ Untold' = 1))
    BY DEF Untold, Unlisted
  <2>3. schedule.failures + Untold <= n
    BY <1>0, <1>1 DEF FailuresAreReal
  <2>4. schedule.failures + Untold' <= n + 1
    BY <1>2, <2>1, <2>2, <2>3
  <2>5. ASSUME NEW k \in 0..MaxSets, DOMAIN backups' = 1..k PROVE k = n + 1
    BY <1>2, <1>5, <2>5, OneLength
  <2>6. \A k \in 0..MaxSets : DOMAIN backups' = 1..k => schedule'.failures + Untold' <= k
    BY <2>4, <2>5
  <2> QED  BY <1>0, <2>2, <2>6 DEF FailuresAreReal
<1> QED  BY <1>8, <1>9, <1>10, <1>11, <1>12 DEF BackupInv

LEMMA BackupTickBegins == ASSUME BackupInv, Backups!TickBegins PROVE BackupInv'
<1>0. /\ tick \in BackupTicks /\ (tick.pc # "idle" => tick.now \in 1..backupClock)
      /\ backupClock \in 1..LastDay /\ LastDay \in Nat
  BY BackupConstantsHold DEF BackupInv, BackupTyped, BackupConstants
<1>1. /\ tick.pc = "lock" /\ Backups!NextSet <= MaxSets /\ backupLock' = "worker"
      /\ backups' = Backups!With([by |-> "schedule", at |-> tick.now, ok |-> FALSE, place |-> "here"])
      /\ tick' = [tick EXCEPT !.pc = "work", !.set = Backups!NextSet]
      /\ UNCHANGED <<schedule, failed, backupClock, restarts>>
  BY DEF Backups!TickBegins
<1>2. Backups!NextSet \in Nat
  <2>1. PICK n \in 0..MaxSets : DOMAIN backups = 1..n
    BY DEF BackupInv, BackupTyped
  <2>2. n \in Nat
    BY BackupConstantsHold DEF BackupConstants
  <2> QED  BY <2>1, <2>2, SetsOfBackups
<1>3. tick.now \in 1..LastDay
  BY <1>0, <1>1
<1>4. PICK new : new = [by |-> "schedule", at |-> tick.now, ok |-> FALSE, place |-> "here"]
  OBVIOUS
<1>5. new \in BackupSets /\ new.place = "here" /\ new.by = "schedule" /\ new.at = tick.now
  BY <1>3, <1>4 DEF BackupSets
<1>6. /\ tick' \in BackupTicks /\ tick'.pc = "work" /\ tick'.set = Backups!NextSet
      /\ tick'.now = tick.now
  BY <1>0, <1>1, <1>2 DEF BackupTicks
<1>7. backups' = Backups!With(new)
  BY <1>1, <1>4
<1> QED  BY <1>0, <1>1, <1>5, <1>6, <1>7, BackupMakes

LEMMA BackupByHand == ASSUME BackupInv, Backups!OtherMakesSet PROVE BackupInv'
<1>0. /\ tick \in BackupTicks /\ (tick.pc # "idle" => tick.now \in 1..backupClock)
      /\ backupClock \in 1..LastDay /\ (backupLock = "worker" <=> tick.pc = "work")
  BY DEF BackupInv, BackupTyped
<1>1. /\ backupLock = "other" /\ Backups!NextSet <= MaxSets /\ backupLock' = "free"
      /\ backups' = Backups!With([by |-> "hand", at |-> backupClock, ok |-> TRUE, place |-> "here"])
      /\ UNCHANGED <<schedule, tick, failed, backupClock, restarts>>
  BY DEF Backups!OtherMakesSet
<1>2. PICK new : new = [by |-> "hand", at |-> backupClock, ok |-> TRUE, place |-> "here"]
  OBVIOUS
<1>3. new \in BackupSets /\ new.place = "here"
  BY <1>0, <1>2 DEF BackupSets
<1>4. backups' = Backups!With(new)
  BY <1>1, <1>2
<1> QED  BY <1>0, <1>1, <1>3, <1>4, BackupMakes

LEMMA BackupEnding ==
    ASSUME BackupInv, NEW v \in BOOLEAN, Backups!BackupEnds(v)
    PROVE  BackupInv'
<1>0. BackupTyped /\ SetInHand /\ RunsAreReal /\ RemovedIsOver /\ FailuresAreReal
  BY DEF BackupInv
<1>1. /\ tick.pc = "work" /\ backupLock' = "free"
      /\ backups' = [backups EXCEPT ![tick.set].ok = v]
      /\ tick' = [tick EXCEPT !.pc = "record", !.ok = v]
      /\ failed' = IF v THEN failed ELSE failed + 1
      /\ UNCHANGED <<schedule, backupClock, restarts>>
  BY DEF Backups!BackupEnds
<1>2. PICK t \in DOMAIN backups : t = tick.set
  BY <1>0, <1>1 DEF SetInHand
<1>3. backups[t] \in BackupSets
  BY <1>0 DEF BackupTyped
<1>4. /\ DOMAIN backups' = DOMAIN backups /\ backups' = [s \in DOMAIN backups' |-> backups'[s]]
      /\ \A s \in DOMAIN backups : /\ s # t => backups'[s] = backups[s]
                                   /\ backups'[s].by = backups[s].by
                                   /\ backups'[s].at = backups[s].at
                                   /\ backups'[s].place = backups[s].place
      /\ backups'[t].ok = v /\ backups'[t] \in BackupSets
  BY <1>1, <1>2, <1>3 DEF BackupSets
<1>5. /\ tick' \in BackupTicks /\ tick'.pc = "record" /\ tick'.ok = v /\ tick'.set = t
      /\ tick'.now = tick.now
  BY <1>0, <1>1, <1>2 DEF BackupTyped, BackupTicks
<1>6. BackupTyped'
  <2>1. failed' \in Nat
    BY <1>0, <1>1 DEF BackupTyped
  <2>2. tick.now \in 1..backupClock
    BY <1>0, <1>1 DEF BackupTyped
  <2>3. \A s \in DOMAIN backups' : backups'[s] \in BackupSets
    BY <1>0, <1>4 DEF BackupTyped
  <2> QED  BY <1>0, <1>1, <1>4, <1>5, <2>1, <2>2, <2>3 DEF BackupTyped
<1>7. \A r \in schedule.runs : r.set # t
  BY <1>0, <1>1, <1>2 DEF SetInHand
<1>u. UNCHANGED <<schedule, backupClock>>
  BY <1>1
<1>h. /\ backups[t].by = "schedule" /\ backups[t].at = tick.now
      /\ backups[t].place # "removed"
  BY <1>0, <1>1, <1>2 DEF SetInHand
<1>8a. SetInHand'
  BY <1>4, <1>5, <1>7, <1>h, <1>u DEF SetInHand
<1>8b. RunsAreReal'
  BY <1>0, <1>4, <1>7, <1>u DEF RunsAreReal
<1>10. RemovedIsOver'
  <2> SUFFICES ASSUME NEW s \in DOMAIN backups, backups'[s].place = "removed"
               PROVE  /\ backups'[s].by = "schedule" /\ backups'[s].ok
                      /\ \E r \in Retentions \ {0} : backupClock - backups'[s].at > r
    BY <1>4, <1>u DEF RemovedIsOver
  <2>1. s # t /\ backups'[s] = backups[s]
    BY <1>4, <1>h
  <2> QED  BY <1>0, <2>1 DEF RemovedIsOver
<1>11. FailuresAreReal'
  <2>1. schedule.failures \in Nat /\ failed \in Nat
    BY <1>0 DEF BackupTyped, BackupSchedules
  <2>2. Untold = 1 /\ Untold' = 1 /\ Unlisted = 0 /\ Unlisted' = IF v THEN 0 ELSE 1
    BY <1>1, <1>5 DEF Untold, Unlisted
  <2>3. schedule.failures + 0 <= failed
    BY <1>0, <2>2 DEF FailuresAreReal
  <2>4. schedule.failures + Unlisted' <= failed'
    BY <1>1, <2>1, <2>2, <2>3
  <2>5. failed > 0 => failed' > 0
    BY <1>1, <2>1
  <2>6. \A n \in 0..MaxSets : DOMAIN backups = 1..n => schedule.failures + 1 <= n
    BY <1>0, <2>2 DEF FailuresAreReal
  <2> QED  BY <1>0, <1>1, <1>4, <2>2, <2>4, <2>5, <2>6 DEF FailuresAreReal
<1> QED  BY <1>6, <1>8a, <1>8b, <1>10, <1>11 DEF BackupInv

(* Sets go away, and a tick comes to its end. *)
LEMMA BackupSettles ==
    ASSUME BackupInv, DOMAIN backups' = DOMAIN backups,
           backups' = [s \in DOMAIN backups' |-> backups'[s]],
           \A s \in DOMAIN backups :
              /\ backups'[s] \in BackupSets /\ backups'[s].by = backups[s].by
              /\ backups'[s].at = backups[s].at /\ backups'[s].ok = backups[s].ok
              /\ backups'[s].place = "removed" =>
                    \/ backups[s].place = "removed"
                    \/ /\ tick'.pc = "idle" /\ backups[s].by = "schedule" /\ backups[s].ok
                       /\ \E r \in Retentions \ {0} : backupClock - backups[s].at > r,
           schedule' \in BackupSchedules, RunsAreReal', FailuresAreReal', failed' \in Nat,
           UNCHANGED <<backupLock, backupClock, restarts>>,
           \/ tick' = tick /\ schedule' = schedule
           \/ tick' \in BackupTicks /\ tick'.pc = "idle" /\ tick.pc = "record"
    PROVE  BackupInv'
<1>0. BackupTyped /\ SetInHand /\ RunsAreReal /\ RemovedIsOver
  BY DEF BackupInv
<1>1. BackupTyped'
  BY <1>0 DEF BackupTyped
<1>2. SetInHand'
  <2>1. CASE tick' = tick /\ schedule' = schedule
    <3> SUFFICES ASSUME tick.pc \in {"work", "record"}
                 PROVE  /\ tick.set \in DOMAIN backups'
                        /\ backups'[tick.set].by = "schedule" /\ backups'[tick.set].at = tick.now
                        /\ backups'[tick.set].place # "removed"
                        /\ tick.pc = "record" => backups'[tick.set].ok = tick.ok
                        /\ \A r \in schedule.runs : r.set # tick.set
      BY <2>1 DEF SetInHand
    <3>1. /\ tick.set \in DOMAIN backups /\ backups[tick.set].place # "removed"
          /\ tick'.pc # "idle"
      BY <1>0, <2>1 DEF SetInHand
    <3>2. backups'[tick.set].place # "removed"
      BY <3>1
    <3> QED  BY <1>0, <3>1, <3>2 DEF SetInHand
  <2>2. CASE tick'.pc = "idle"
    BY <2>2 DEF SetInHand
  <2> QED  BY <2>1, <2>2
<1>3. RemovedIsOver'
  BY <1>0 DEF RemovedIsOver
<1> QED  BY <1>1, <1>2, <1>3 DEF BackupInv

LEMMA BackupDelete == ASSUME BackupInv, NEW s \in Backups!Sets, Backups!Delete(s) PROVE BackupInv'
<1>0. BackupTyped /\ RunsAreReal /\ FailuresAreReal
  BY DEF BackupInv
<1>1. /\ backups' = [backups EXCEPT ![s].place = "moved"]
      /\ UNCHANGED <<schedule, backupLock, tick, failed, backupClock, restarts>>
  BY DEF Backups!Delete
<1>2. s \in DOMAIN backups
  <2>1. PICK n \in 0..MaxSets : DOMAIN backups = 1..n
    BY <1>0 DEF BackupTyped
  <2>2. n \in Nat
    BY BackupConstantsHold DEF BackupConstants
  <2> QED  BY <2>1, <2>2, SetsOfBackups
<1>3. backups[s] \in BackupSets
  BY <1>0, <1>2 DEF BackupTyped
<1>4. /\ DOMAIN backups' = DOMAIN backups /\ backups' = [q \in DOMAIN backups' |-> backups'[q]]
      /\ \A q \in DOMAIN backups :
            /\ backups'[q] \in BackupSets /\ backups'[q].by = backups[q].by
            /\ backups'[q].at = backups[q].at /\ backups'[q].ok = backups[q].ok
            /\ backups'[q].place = "removed" => backups[q].place = "removed"
  <2>1. \A q \in DOMAIN backups : backups[q] \in BackupSets
    BY <1>0 DEF BackupTyped
  <2> QED  BY <1>1, <1>2, <1>3, <2>1 DEF BackupSets
<1>5. RunsAreReal'
  BY <1>0, <1>1, <1>4 DEF RunsAreReal
<1>6. FailuresAreReal'
  BY <1>0, <1>1, <1>4 DEF FailuresAreReal, Untold, Unlisted
<1> QED  BY <1>0, <1>1, <1>4, <1>5, <1>6, BackupSettles DEF BackupTyped

(* The runs on record, with the one that ends. *)
LEMMA BackupRecorded ==
    ASSUME BackupInv, tick.pc = "record"
    PROVE  \A r \in Backups!RecordedRuns :
              /\ r \in BackupRuns /\ r.set \in DOMAIN backups
              /\ backups[r.set].by = "schedule" /\ backups[r.set].at = r.at
              /\ r.ok => backups[r.set].ok
              /\ \A q \in Backups!RecordedRuns : q.set = r.set => q = r
<1>0. BackupTyped /\ SetInHand /\ RunsAreReal
  BY DEF BackupInv
<1>1. PICK new : new = [set |-> tick.set, ok |-> tick.ok, at |-> tick.now]
  OBVIOUS
<1>2. Backups!RecordedRuns = schedule.runs \cup {new}
  BY <1>1 DEF Backups!RecordedRuns
<1>3. new.set = tick.set /\ new.ok = tick.ok /\ new.at = tick.now
  BY <1>1
<1>4. new \in BackupRuns
  <2>1. tick.now \in 1..backupClock /\ backupClock \in 1..LastDay /\ LastDay \in Nat
    BY <1>0, BackupConstantsHold DEF BackupTyped, BackupConstants
  <2>2. tick.now \in 1..LastDay
    BY <2>1
  <2>3. tick.set \in Nat /\ tick.ok \in BOOLEAN
    BY <1>0 DEF BackupTyped, BackupTicks
  <2> QED  BY <1>1, <2>2, <2>3 DEF BackupRuns
<1>5. schedule.runs \subseteq BackupRuns
  BY <1>0 DEF BackupTyped, BackupSchedules
<1>6. /\ new.set \in DOMAIN backups
      /\ backups[new.set].by = "schedule" /\ backups[new.set].at = new.at
      /\ new.ok => backups[new.set].ok
      /\ \A r \in schedule.runs : r.set # new.set
  BY <1>0, <1>3 DEF SetInHand
<1> QED  BY <1>0, <1>2, <1>4, <1>5, <1>6 DEF RunsAreReal

LEMMA BackupExpired ==
    ASSUME BackupInv, tick.pc = "record",
           NEW gone \in SUBSET {r.set : r \in Backups!Expired(Backups!RecordedRuns)},
           backups' = Backups!Removing(gone)
    PROVE  /\ DOMAIN backups' = DOMAIN backups /\ backups' = [s \in DOMAIN backups' |-> backups'[s]]
           /\ \A s \in DOMAIN backups :
                 /\ backups'[s] \in BackupSets /\ backups'[s].by = backups[s].by
                 /\ backups'[s].at = backups[s].at /\ backups'[s].ok = backups[s].ok
                 /\ backups'[s].place = "removed" =>
                      \/ backups[s].place = "removed"
                      \/ /\ backups[s].by = "schedule" /\ backups[s].ok
                         /\ \E r \in Retentions \ {0} : backupClock - backups[s].at > r
<1>0. BackupTyped
  BY DEF BackupInv
<1>1. PICK n \in 0..MaxSets : DOMAIN backups = 1..n
  BY <1>0 DEF BackupTyped
<1>2. Backups!Sets = DOMAIN backups
  <2>1. n \in Nat
    BY <1>1, BackupConstantsHold DEF BackupConstants
  <2> QED  BY <1>1, <2>1, SetsOfBackups
<1>3. backups' = [s \in DOMAIN backups |->
                    IF s \in gone THEN [backups[s] EXCEPT !.place = "removed"] ELSE backups[s]]
  BY <1>2 DEF Backups!Removing
<1>4. ASSUME NEW s \in gone
      PROVE  /\ backups[s].by = "schedule" /\ backups[s].ok
             /\ \E r \in Retentions \ {0} : backupClock - backups[s].at > r
  <2>1. PICK r \in Backups!Expired(Backups!RecordedRuns) : s = r.set
    BY <1>4
  <2>2. /\ r \in Backups!RecordedRuns /\ schedule.retention > 0 /\ r.ok
        /\ r.at < tick.now - schedule.retention
    BY <2>1 DEF Backups!Expired
  <2>3. /\ r \in BackupRuns /\ backups[s].by = "schedule" /\ backups[s].at = r.at
        /\ backups[s].ok
    BY <2>1, <2>2, BackupRecorded
  <2>4. PICK keep \in Retentions \cup {0} : keep = schedule.retention
    BY <1>0 DEF BackupTyped, BackupSchedules
  <2>5. keep \in Nat /\ keep > 0
    BY <2>2, <2>4, BackupConstantsHold DEF BackupConstants
  <2>6. tick.now \in 1..backupClock /\ backupClock \in 1..LastDay /\ r.at \in 1..LastDay
    BY <1>0, <2>3 DEF BackupTyped, BackupRuns
  <2>7. LastDay \in Nat
    BY BackupConstantsHold DEF BackupConstants
  <2>8. PICK a \in Nat : a = r.at
    BY <2>6, <2>7
  <2>9. PICK now \in 1..backupClock : now = tick.now
    BY <2>6
  <2>10. a < now - keep
    BY <2>2, <2>4, <2>8, <2>9
  <2>11. backupClock - a > keep
    BY <2>5, <2>6, <2>7, <2>10
  <2>12. keep \in Retentions \ {0}
    BY <2>4, <2>5
  <2> QED  BY <2>3, <2>8, <2>11, <2>12
<1>5. ASSUME NEW s \in DOMAIN backups
      PROVE  /\ backups'[s] \in BackupSets /\ backups'[s].by = backups[s].by
             /\ backups'[s].at = backups[s].at /\ backups'[s].ok = backups[s].ok
             /\ backups'[s].place = "removed" => backups[s].place = "removed" \/ s \in gone
  <2>1. backups[s] \in BackupSets
    BY <1>0 DEF BackupTyped
  <2>2. CASE s \in gone
    <3>1. backups'[s] = [backups[s] EXCEPT !.place = "removed"]
      BY <1>3, <2>2
    <3> QED  BY <2>1, <2>2, <3>1 DEF BackupSets
  <2>3. CASE s \notin gone
    <3>1. backups'[s] = backups[s]
      BY <1>3, <2>3
    <3> QED  BY <2>1, <3>1
  <2> QED  BY <2>2, <2>3
<1> QED  BY <1>3, <1>4, <1>5

LEMMA BackupTickRecords == ASSUME BackupInv, Backups!TickRecords PROVE BackupInv'
<1>0. BackupTyped /\ FailuresAreReal
  BY DEF BackupInv
<1>1. /\ tick.pc = "record"
      /\ backups' = Backups!Removing({r.set : r \in Backups!Expired(Backups!RecordedRuns)})
      /\ schedule' = Backups!Recorded
      /\ tick' = [pc |-> "idle", now |-> 0, due |-> 0, set |-> 0, ok |-> FALSE]
      /\ failed' = IF tick.ok THEN 0 ELSE failed
      /\ UNCHANGED <<backupLock, backupClock, restarts>>
  BY DEF Backups!TickRecords, Backups!IdleTick
<1>2. PICK gone : gone = {r.set : r \in Backups!Expired(Backups!RecordedRuns)}
  OBVIOUS
<1>3. backups' = Backups!Removing(gone)
  BY <1>1, <1>2
<1>4. /\ DOMAIN backups' = DOMAIN backups /\ backups' = [s \in DOMAIN backups' |-> backups'[s]]
      /\ \A s \in DOMAIN backups :
            /\ backups'[s] \in BackupSets /\ backups'[s].by = backups[s].by
            /\ backups'[s].at = backups[s].at /\ backups'[s].ok = backups[s].ok
            /\ backups'[s].place = "removed" =>
                 \/ backups[s].place = "removed"
                 \/ /\ backups[s].by = "schedule" /\ backups[s].ok
                    /\ \E r \in Retentions \ {0} : backupClock - backups[s].at > r
  BY <1>1, <1>2, <1>3, BackupExpired
<1>5. PICK runs : runs = Backups!RecordedRuns \ Backups!Expired(Backups!RecordedRuns)
  OBVIOUS
<1>6. runs \subseteq Backups!RecordedRuns
  BY <1>5
<1>7. runs \in SUBSET BackupRuns
  BY <1>1, <1>6, BackupRecorded
<1>8. tick.ok \in BOOLEAN /\ tick.now \in 1..backupClock /\ backupClock \in 1..LastDay
  BY <1>0, <1>1 DEF BackupTyped, BackupTicks
<1>9. PICK t : t = tick.now + (IF tick.ok THEN Interval ELSE Retry)
  OBVIOUS
<1>10. t \in BackupTimes
  <2>1. /\ LastDay \in Nat \ {0} /\ Retry \in Nat \ {0} /\ Interval \in Nat \ {0} /\ Day \in Nat
    BY BackupConstantsHold DEF BackupConstants
  <2>2. PICK k \in Nat : k = IF tick.ok THEN Interval ELSE Retry
    BY <2>1
  <2>3. k <= Interval + Retry
    BY <2>1, <2>2
  <2>4. tick.now + k \in 1..(LastDay + Interval + Retry + Day)
    BY <1>8, <2>1, <2>3
  <2> QED  BY <1>9, <2>2, <2>4 DEF BackupTimes
<1>11. PICK f : f = IF tick.ok THEN 0 ELSE schedule.failures + 1
  OBVIOUS
<1>12. schedule \in BackupSchedules /\ f \in Nat
  BY <1>0, <1>8, <1>11 DEF BackupTyped, BackupSchedules
<1>13. schedule' = [schedule EXCEPT !.lastOk = IF tick.ok THEN "ok" ELSE "failed", !.next = t,
                                    !.failures = f, !.runs = runs]
  BY <1>1, <1>5, <1>9, <1>11 DEF Backups!Recorded
<1>14. /\ schedule' \in BackupSchedules /\ schedule'.runs = runs /\ schedule'.failures = f
       /\ schedule'.lastOk = IF tick.ok THEN "ok" ELSE "failed"
  BY <1>7, <1>8, <1>10, <1>12, <1>13 DEF BackupSchedules
<1>15. RunsAreReal'
  <2> SUFFICES ASSUME NEW r \in runs
               PROVE  /\ r.set \in DOMAIN backups'
                      /\ backups'[r.set].by = "schedule" /\ backups'[r.set].at = r.at
                      /\ r.ok => backups'[r.set].ok
                      /\ \A q \in runs : q.set = r.set => q = r
    BY <1>14 DEF RunsAreReal
  <2>1. /\ r.set \in DOMAIN backups
        /\ backups[r.set].by = "schedule" /\ backups[r.set].at = r.at
        /\ r.ok => backups[r.set].ok
        /\ \A q \in Backups!RecordedRuns : q.set = r.set => q = r
    BY <1>1, <1>6, BackupRecorded
  <2> QED  BY <1>4, <1>6, <2>1
<1>16. FailuresAreReal'
  <2>1. schedule.failures \in Nat /\ failed \in Nat
    BY <1>0 DEF BackupTyped, BackupSchedules
  <2>2. Untold = 1 /\ Untold' = 0 /\ Unlisted' = 0 /\ Unlisted = IF tick.ok THEN 0 ELSE 1
    BY <1>1 DEF Untold, Unlisted
  <2>3. schedule.failures + Unlisted <= failed
    BY <1>0 DEF FailuresAreReal
  <2>4. f + 0 <= failed' /\ (~tick.ok => failed' > 0)
    BY <1>1, <1>8, <1>11, <2>1, <2>2, <2>3
  <2>5. ASSUME NEW n \in 0..MaxSets, DOMAIN backups' = 1..n PROVE f + 0 <= n
    <3>1. schedule.failures + 1 <= n
      BY <1>0, <1>4, <2>2, <2>5 DEF FailuresAreReal
    <3>2. n \in Nat
      BY BackupConstantsHold DEF BackupConstants
    <3> QED  BY <1>8, <1>11, <2>1, <3>1, <3>2
  <2> QED  BY <1>8, <1>14, <2>2, <2>4, <2>5 DEF FailuresAreReal
<1>17. tick' \in BackupTicks /\ tick'.pc = "idle" /\ failed' \in Nat
  <2>1. 0 \in 0..LastDay
    BY BackupConstantsHold DEF BackupConstants
  <2>2. failed \in Nat
    BY <1>0 DEF BackupTyped
  <2> QED  BY <1>1, <2>1, <2>2 DEF BackupTicks
<1> QED  BY <1>1, <1>4, <1>14, <1>15, <1>16, <1>17, BackupSettles

LEMMA BackupRemovalFails == ASSUME BackupInv, Backups!RemovalFails PROVE BackupInv'
<1>0. BackupTyped /\ FailuresAreReal /\ RunsAreReal
  BY DEF BackupInv
<1>1. /\ tick.pc = "record"
      /\ schedule' = [schedule EXCEPT !.lastOk = "failed"]
      /\ tick' = [pc |-> "idle", now |-> 0, due |-> 0, set |-> 0, ok |-> FALSE]
      /\ failed' = failed + 1
      /\ UNCHANGED <<backupLock, backupClock, restarts>>
  BY DEF Backups!RemovalFails, Backups!IdleTick
<1>2. PICK gone \in SUBSET {r.set : r \in Backups!Expired(Backups!RecordedRuns)} :
         backups' = Backups!Removing(gone)
  BY DEF Backups!RemovalFails
<1>4. /\ DOMAIN backups' = DOMAIN backups /\ backups' = [s \in DOMAIN backups' |-> backups'[s]]
      /\ \A s \in DOMAIN backups :
            /\ backups'[s] \in BackupSets /\ backups'[s].by = backups[s].by
            /\ backups'[s].at = backups[s].at /\ backups'[s].ok = backups[s].ok
            /\ backups'[s].place = "removed" =>
                 \/ backups[s].place = "removed"
                 \/ /\ backups[s].by = "schedule" /\ backups[s].ok
                    /\ \E r \in Retentions \ {0} : backupClock - backups[s].at > r
  BY <1>1, <1>2, BackupExpired
<1>5. /\ schedule' \in BackupSchedules /\ schedule'.runs = schedule.runs
      /\ schedule'.failures = schedule.failures
  BY <1>0, <1>1 DEF BackupTyped, BackupSchedules
<1>6. RunsAreReal'
  BY <1>0, <1>4, <1>5 DEF RunsAreReal
<1>7. FailuresAreReal'
  <2>1. schedule.failures \in Nat /\ failed \in Nat
    BY <1>0 DEF BackupTyped, BackupSchedules
  <2>2. Untold = 1 /\ Untold' = 0 /\ Unlisted' = 0 /\ Unlisted \in {0, 1}
    BY <1>1 DEF Untold, Unlisted
  <2>3. schedule.failures + Unlisted <= failed
    BY <1>0 DEF FailuresAreReal
  <2>4. schedule.failures + 0 <= failed' /\ failed' > 0
    BY <1>1, <2>1, <2>2, <2>3
  <2>5. ASSUME NEW n \in 0..MaxSets, DOMAIN backups' = 1..n PROVE schedule.failures + 0 <= n
    <3>1. schedule.failures + 1 <= n
      BY <1>0, <1>4, <2>2, <2>5 DEF FailuresAreReal
    <3>2. n \in Nat
      BY BackupConstantsHold DEF BackupConstants
    <3> QED  BY <2>1, <3>1, <3>2
  <2> QED  BY <1>5, <2>2, <2>4, <2>5 DEF FailuresAreReal
<1>8. tick' \in BackupTicks /\ tick'.pc = "idle" /\ failed' \in Nat
  <2>1. 0 \in 0..LastDay
    BY BackupConstantsHold DEF BackupConstants
  <2>2. failed \in Nat
    BY <1>0 DEF BackupTyped
  <2> QED  BY <1>1, <2>1, <2>2 DEF BackupTicks
<1> QED  BY <1>1, <1>4, <1>5, <1>6, <1>7, <1>8, BackupSettles

(* Every step. *)
LEMMA BackupInvStep == BackupInv /\ [Backups!Next]_(Backups!vars) => BackupInv'
<1> SUFFICES ASSUME BackupInv, [Backups!Next]_(Backups!vars) PROVE BackupInv'
  OBVIOUS
<1>1. CASE Backups!Next
  BY <1>1, BackupConfigure, BackupTickReads, BackupTickBegins, BackupTickDefers, BackupEnding,
     BackupTickRecords, BackupRemovalFails, BackupSurroundings, BackupByHand, BackupDelete,
     BackupRestart DEF Backups!Next, Backups!Work
<1>2. CASE UNCHANGED Backups!vars
  <2>1. UNCHANGED <<schedule, backups, backupLock, tick, failed, backupClock, restarts>>
    BY <1>2 DEF Backups!vars
  <2> QED  BY <2>1 DEF BackupInv, BackupTyped, SetInHand, RunsAreReal, RemovedIsOver,
                       FailuresAreReal, Untold, Unlisted
<1> QED  BY <1>1, <1>2

(* What the invariant means. *)
LEMMA BackupInvIsHonest ==
    BackupInv => /\ Backups!TypeOK /\ Backups!RemovedWasExpired /\ Backups!GoodRunsAreReal
                 /\ Backups!CollisionIsNoFailure
<1> SUFFICES ASSUME BackupInv
             PROVE  /\ Backups!TypeOK /\ Backups!RemovedWasExpired /\ Backups!GoodRunsAreReal
                    /\ Backups!CollisionIsNoFailure
  OBVIOUS
<1>0. BackupTyped /\ SetInHand /\ RunsAreReal /\ RemovedIsOver /\ FailuresAreReal
  BY DEF BackupInv
<1>1. PICK n \in 0..MaxSets : DOMAIN backups = 1..n
  BY <1>0 DEF BackupTyped
<1>2. n \in Nat /\ MaxSets \in Nat
  BY <1>1, BackupConstantsHold DEF BackupConstants
<1>3. Backups!Sets = DOMAIN backups
  BY <1>1, <1>2, SetsOfBackups
<1>4. schedule.failures \in Nat /\ failed \in Nat
  BY <1>0 DEF BackupTyped, BackupSchedules
<1>5. Backups!TypeOK
  <2>1. schedule.failures \in 0..MaxSets
    <3>1. schedule.failures + Untold <= n /\ Untold \in {0, 1}
      BY <1>0, <1>1 DEF FailuresAreReal, Untold
    <3> QED  BY <1>1, <1>2, <1>4, <3>1
  <2>2. schedule.runs \in SUBSET [set : Backups!Sets, ok : BOOLEAN, at : 1..LastDay]
    <3>1. schedule.runs \subseteq BackupRuns
      BY <1>0 DEF BackupTyped, BackupSchedules
    <3>2. \A r \in schedule.runs : r.set \in Backups!Sets
      BY <1>0, <1>3 DEF RunsAreReal
    <3> QED  BY <3>1, <3>2 DEF BackupRuns
  <2>3. schedule \in [enabled : BOOLEAN, retention : Retentions \cup {0},
                     next : {-1} \cup 1..(LastDay + Interval + Retry + Day),
                     lastOk : {"none", "ok", "failed"}, failures : 0..MaxSets, deferrals : {0, 1},
                     runs : SUBSET [set : Backups!Sets, ok : BOOLEAN, at : 1..LastDay]]
    <3>1. schedule \in BackupSchedules
      BY <1>0 DEF BackupTyped
    <3> QED  BY <2>1, <2>2, <3>1 DEF BackupSchedules, BackupTimes
  <2>4. backups \in [Backups!Sets -> [by : {"schedule", "hand"}, at : 1..LastDay,
                                      ok : BOOLEAN, place : {"here", "removed", "moved"}]]
    BY <1>0, <1>3 DEF BackupTyped, BackupSets
  <2>5. tick.pc \in {"idle", "lock", "work", "record"}
    BY <1>0 DEF BackupTyped, BackupTicks
  <2> QED  BY <1>0, <2>3, <2>4, <2>5 DEF Backups!TypeOK, Backups!Never, BackupTyped
<1>6. Backups!RemovedWasExpired
  BY <1>0, <1>3 DEF RemovedIsOver, Backups!RemovedWasExpired
<1>7. Backups!GoodRunsAreReal
  BY <1>0 DEF RunsAreReal, Backups!GoodRunsAreReal
<1>8. Backups!CollisionIsNoFailure
  <2>1. schedule.failures + Unlisted <= failed /\ Unlisted \in {0, 1}
    BY <1>0 DEF FailuresAreReal, Unlisted
  <2>2. schedule.failures <= failed
    BY <1>4, <2>1
  <2> QED  BY <1>0, <2>2 DEF FailuresAreReal, Backups!CollisionIsNoFailure
<1> QED  BY <1>5, <1>6, <1>7, <1>8

(* Only the record of a run counts a failure, and it asks for the retry. *)
LEMMA BackupRetriedSoon ==
    ASSUME BackupInv, [Backups!Next]_(Backups!vars), schedule.failures < schedule'.failures
    PROVE  schedule'.next <= tick.now + Retry
<1>0. schedule \in BackupSchedules /\ tick \in BackupTicks
  BY DEF BackupInv, BackupTyped
<1>1. schedule.failures \in Nat
  BY <1>0 DEF BackupSchedules
<1>2. CASE Backups!TickRecords
  <2>1. /\ schedule'.failures = IF tick.ok THEN 0 ELSE schedule.failures + 1
        /\ schedule'.next = tick.now + (IF tick.ok THEN Interval ELSE Retry)
    BY <1>0, <1>2 DEF Backups!TickRecords, Backups!Recorded, BackupSchedules
  <2>2. ~tick.ok
    BY <1>1, <2>1
  <2>3. tick.now \in 0..LastDay /\ LastDay \in Nat /\ Retry \in Nat
    BY <1>0, BackupConstantsHold DEF BackupTicks, BackupConstants
  <2> QED  BY <2>1, <2>2, <2>3
<1>3. CASE ~Backups!TickRecords
  <2>1. schedule'.failures = schedule.failures
    BY <1>0, <1>3
    DEF Backups!Next, Backups!Work, Backups!Configure, Backups!TickReads, Backups!TickBegins,
        Backups!TickDefers, Backups!Deferred, Backups!BackupEnds, Backups!RemovalFails,
        Backups!OtherTakesLock, Backups!OtherMakesSet, Backups!OtherLeavesLock, Backups!Delete,
        Backups!Restart, Backups!Advance, Backups!vars, BackupSchedules
  <2> QED  BY <1>1, <2>1
<1> QED  BY <1>2, <1>3

(* The backup schedule: whatever backups by hand, host scripts, deletions,
   changes of the schedule, failing removals and restarts of the panel come
   between the steps of backup_schedule_tick, retention removes only verified
   sets of the schedule that are past a retention an operator chose, what the
   schedule records of its runs is true, a busy operation lock is no failure,
   and a failure is due again within the retry. *)
THEOREM ScheduleHonest == Backups!Spec => ScheduleIsHonest
<1>1. Backups!Spec => []BackupInv
  BY BackupInvInit, BackupInvStep, PTL DEF Backups!Spec
<1>2. BackupInv /\ [Backups!Next]_(Backups!vars)
        => [(schedule.failures < schedule'.failures) => schedule'.next <= tick.now + Retry]_(Backups!vars)
  BY BackupRetriedSoon
<1>3. Backups!Spec => Backups!FailureIsRetriedSoon
  BY <1>1, <1>2, PTL DEF Backups!Spec, Backups!FailureIsRetriedSoon
<1>4. Backups!Spec => [](Backups!TypeOK /\ Backups!RemovedWasExpired /\ Backups!GoodRunsAreReal
                         /\ Backups!CollisionIsNoFailure)
  BY <1>1, BackupInvIsHonest, PTL
<1> QED  BY <1>3, <1>4, PTL DEF ScheduleIsHonest

-----------------------------------------------------------------------------
(* The restart jobs. *)

JobStatuses ==
    {"none", "scheduled", "executing", "awaiting_reboot", "executed", "failed", "cancelled",
     "superseded"}
JobRecords ==
    [status : JobStatuses, runAt : 0..(LastTime + RetryDelay), daily : BOOLEAN,
     announce : BOOLEAN, execute : BOOLEAN, deferred : BOOLEAN]
JobFiles == [Jobs -> JobRecords]
NoticeRecords ==
    [status : {"none", "sent", "failed", "expired", "cancelled", "superseded", "scheduled",
               "delivering"},
     at : 0..LastTime, final : BOOLEAN]
RequestStates == [pc : {"idle", "announce", "withdraw"}, ids : SUBSET Jobs, at : 0..LastTime]
WorkerStates ==
    [pc : {"poll", "restarts", "deliver", "execute", "stopped", "await", "request", "unawait",
           "settle", "defer"},
     now : 0..LastTime, notices : SUBSET (Jobs \cup Standalone),
     jobs : SUBSET [id : Jobs, execute : BOOLEAN], job : Jobs \cup {None},
     execute : BOOLEAN, ok : BOOLEAN, deferred : BOOLEAN]
ResumeStates ==
    [pc : {"idle", "start", "read", "write", "remove"}, job : Jobs \cup {None}, ok : BOOLEAN,
     seen : JobFiles]

RestartTyped ==
    /\ jobs \in JobFiles /\ view \in JobFiles
    /\ notices \in [Jobs \cup Standalone -> NoticeRecords]
    /\ held \in Handlers \cup {"worker", None}
    /\ handler \in [Handlers -> RequestStates]
    /\ worker \in WorkerStates /\ resume \in ResumeStates
    /\ checkpoint \in armed \cup {None} /\ armed \subseteq taken /\ taken \subseteq Jobs
    /\ jobsClock \in 1..LastTime /\ boots \in Nat /\ deaths \in Nat
    /\ worker.pc # "poll" => worker.now <= jobsClock

(* A job that is anywhere has its id taken. *)
IdsAreTaken ==
    /\ \A j \in Jobs : jobs[j].status # "none" => j \in taken
    /\ \A j \in Jobs : view[j].status # "none" => j \in taken
    /\ \A j \in Jobs : resume.seen[j].status # "none" => j \in taken
    /\ worker.job # None => worker.job \in taken
    /\ \A d \in worker.jobs : d.id \in taken
    /\ \A j \in Jobs : notices[j].status # "none" => j \in taken

(* A request that has still to announce its job is the only one, and there is
   no notice of it yet. *)
AnnouncedOnce ==
    \A h \in Handlers : handler[h].pc = "announce" =>
        \A j \in handler[h].ids :
            /\ j \in taken /\ notices[j].status = "none"
            /\ \A g \in Handlers : handler[g].pc = "announce" /\ j \in handler[g].ids => g = h

(* What a file of jobs keeps to at a time. *)
ActiveJob(r) == r.status \in {"scheduled", "executing", "awaiting_reboot"}
ReachedJob(r) == r.status \in {"executing", "awaiting_reboot", "executed", "failed"}
MorningJob(r) == r.daily /\ (ActiveJob(r) \/ ReachedJob(r))

JobsSound(f, now) ==
    /\ \A j, k \in Jobs : ActiveJob(f[j]) /\ ActiveJob(f[k]) => j = k
    /\ \A j, k \in Jobs : MorningJob(f[j]) /\ MorningJob(f[k]) => j = k
    /\ \A j \in Jobs : f[j].status = "none" => ~f[j].daily
    /\ \A j \in Jobs : f[j].daily /\ ActiveJob(f[j]) => f[j].runAt >= DailyAt
    /\ \A j \in Jobs : f[j].daily /\ ReachedJob(f[j]) => now >= DailyAt

(* What the worker has in hand is in flight. *)
WorkerSound(w, f) ==
    /\ w.pc \in {"poll", "restarts"} => w.jobs = {} /\ w.job = None
    /\ w.job # None =>
          /\ w.pc \in {"execute", "stopped", "await", "defer"} => f[w.job].status = "executing"
          /\ w.pc \in {"request", "unawait"} => f[w.job].status = "awaiting_reboot"
          /\ w.pc = "settle" =>
                \/ f[w.job].status = "executing"
                \/ f[w.job].status = "awaiting_reboot" /\ w.deferred
    /\ \A d \in w.jobs : f[d.id].status = "executing" /\ d.id # w.job
    /\ \A d, e \in w.jobs : d = e

Alone == boots = 0 \/ armed = {}

JobsInOrder ==
    Alone => /\ resume.pc = "idle"
             /\ held # None => view = jobs
             /\ JobsSound(jobs, jobsClock)
             /\ WorkerSound(worker, jobs)

RestartInv == RestartTyped /\ IdsAreTaken /\ AnnouncedOnce /\ JobsInOrder

(* What a step makes of the jobs. *)
JobsMove(f, g) ==
    /\ \A j \in Jobs : f[j].status \in {"executed", "failed", "cancelled", "superseded"} =>
                          g[j].status = f[j].status
    /\ \A j \in Jobs : f[j].status \in {"executing", "awaiting_reboot"} =>
                          g[j].status \notin {"cancelled", "superseded"}
    /\ \A j, k \in Jobs : f[j].daily /\ ActiveJob(f[j]) /\ f[k].status = "none" /\ g[k].daily =>
                          g[j].status = f[j].status

NoticesMove(f, g) ==
    \A n \in Jobs \cup Standalone :
        f[n].status \in {"cancelled", "superseded", "expired"} => g[n].status = f[n].status

RestartConstants ==
    /\ "worker" \notin Handlers /\ None \notin Jobs /\ None \notin Standalone
    /\ None \notin Handlers /\ None # "worker" /\ Jobs \cap Standalone = {}
    /\ Announcing \subseteq BOOLEAN
    /\ DailyAt \in Nat \ {0} /\ RetryDelay \in Nat \ {0} /\ LastTime \in Nat \ {0}
    /\ MaxDeaths \in Nat /\ MaxBoots \in Nat

LEMMA RestartConstantsHold == RestartConstants
  BY WorkAssumption DEF Restarts!RestartJobsAssumption, Restarts!Notices, Restarts!Panel,
     Restarts!AnnouncementWorker, RestartConstants

LEMMA NothingScheduled ==
    /\ Restarts!NoJob \in JobRecords /\ Restarts!NoJob.status = "none" /\ ~Restarts!NoJob.daily
    /\ [j \in Jobs |-> Restarts!NoJob] \in JobFiles
    /\ Restarts!FreshWorker \in WorkerStates /\ Restarts!FreshWorker.pc = "poll"
    /\ Restarts!FreshWorker.jobs = {} /\ Restarts!FreshWorker.job = None
    /\ Restarts!IdleHandler \in RequestStates /\ Restarts!IdleHandler.pc = "idle"
    /\ Restarts!IdleResume \in ResumeStates /\ Restarts!IdleResume.pc = "idle"
    /\ Restarts!IdleResume.seen = [j \in Jobs |-> Restarts!NoJob]
<1>1. 0 \in 0..(LastTime + RetryDelay) /\ 0 \in 0..LastTime
  BY RestartConstantsHold DEF RestartConstants
<1>2. Restarts!NoJob \in JobRecords /\ Restarts!NoJob.status = "none" /\ ~Restarts!NoJob.daily
  BY <1>1 DEF Restarts!NoJob, JobRecords, JobStatuses
<1>3. [j \in Jobs |-> Restarts!NoJob] \in JobFiles
  BY <1>2 DEF JobFiles
<1>4. /\ Restarts!FreshWorker \in WorkerStates /\ Restarts!FreshWorker.pc = "poll"
      /\ Restarts!FreshWorker.jobs = {} /\ Restarts!FreshWorker.job = None
  BY <1>1 DEF Restarts!FreshWorker, WorkerStates
<1>5. Restarts!IdleHandler \in RequestStates /\ Restarts!IdleHandler.pc = "idle"
  BY <1>1 DEF Restarts!IdleHandler, RequestStates
<1>6. /\ Restarts!IdleResume \in ResumeStates /\ Restarts!IdleResume.pc = "idle"
      /\ Restarts!IdleResume.seen = [j \in Jobs |-> Restarts!NoJob]
  BY <1>3 DEF Restarts!IdleResume, ResumeStates
<1> QED  BY <1>2, <1>3, <1>4, <1>5, <1>6

(* The file of jobs, by what a write may do to a job. *)
JobChanges(r, s, now) ==
    /\ s \in JobRecords /\ s.daily = r.daily
    /\ \/ s.status = r.status /\ s.runAt = r.runAt
       \/ r.status = "scheduled" /\ s.status = "cancelled"
       \/ /\ r.status \in {"scheduled", "executing"} /\ s.status = "executing"
          /\ s.runAt = r.runAt /\ r.runAt <= now
       \/ /\ r.status \in {"executing", "awaiting_reboot"} /\ s.runAt = r.runAt
          /\ s.status \in {"executing", "awaiting_reboot", "executed", "failed"}
       \/ r.status = "executing" /\ s.status = "scheduled" /\ s.runAt >= now

LEMMA JobsChange ==
    ASSUME NEW f \in JobFiles, NEW now \in Nat, JobsSound(f, now),
           NEW g, g = [j \in Jobs |-> g[j]], \A j \in Jobs : JobChanges(f[j], g[j], now)
    PROVE  g \in JobFiles /\ JobsSound(g, now) /\ JobsMove(f, g)
<1>c. DailyAt \in Nat
  BY RestartConstantsHold DEF RestartConstants
<1>1. g \in JobFiles
  BY DEF JobFiles, JobChanges
<1>2. ASSUME NEW j \in Jobs
      PROVE  /\ f[j].runAt \in Nat /\ g[j].runAt \in Nat
             /\ ActiveJob(g[j]) => ActiveJob(f[j]) /\ (g[j].daily => g[j].runAt >= DailyAt)
             /\ MorningJob(g[j]) => MorningJob(f[j])
             /\ g[j].status = "none" => ~g[j].daily
             /\ g[j].daily /\ ReachedJob(g[j]) => now >= DailyAt
  <2>1. f[j] \in JobRecords /\ g[j] \in JobRecords /\ JobChanges(f[j], g[j], now)
    BY DEF JobFiles, JobChanges
  <2>2. f[j].runAt \in Nat /\ g[j].runAt \in Nat
    BY <2>1, RestartConstantsHold DEF JobRecords, RestartConstants
  <2>3. PICK a \in Nat, b \in Nat : a = f[j].runAt /\ b = g[j].runAt
    BY <2>2
  <2>4. /\ f[j].daily /\ ActiveJob(f[j]) => a >= DailyAt
        /\ f[j].daily /\ ReachedJob(f[j]) => now >= DailyAt
        /\ f[j].status = "none" => ~f[j].daily
    BY <2>3 DEF JobsSound
  <2>5. /\ ActiveJob(g[j]) => ActiveJob(f[j]) /\ (g[j].daily => b >= DailyAt)
        /\ g[j].daily /\ ReachedJob(g[j]) => now >= DailyAt
    BY <1>c, <2>1, <2>3, <2>4 DEF JobChanges, ActiveJob, ReachedJob
  <2>6. MorningJob(g[j]) => MorningJob(f[j])
    BY <2>1 DEF JobChanges, ActiveJob, ReachedJob, MorningJob
  <2>7. g[j].status = "none" => ~g[j].daily
    BY <2>1, <2>4 DEF JobChanges
  <2> QED  BY <2>2, <2>3, <2>5, <2>6, <2>7
<1>3. JobsSound(g, now)
  BY <1>2 DEF JobsSound
<1>4. JobsMove(f, g)
  <2>1. \A k \in Jobs : g[k].daily => f[k].status # "none"
    BY DEF JobChanges, JobsSound
  <2>2. \A j \in Jobs :
           /\ f[j].status \in {"executed", "failed", "cancelled", "superseded"} =>
                 g[j].status = f[j].status
           /\ f[j].status \in {"executing", "awaiting_reboot"} =>
                 g[j].status \notin {"cancelled", "superseded"}
    BY DEF JobChanges
  <2> QED  BY <2>1, <2>2 DEF JobsMove
<1> QED  BY <1>1, <1>3, <1>4

(* The same file, later. *)
LEMMA JobsLater ==
    ASSUME NEW f \in JobFiles, NEW now \in Nat, NEW later \in Nat, now <= later, JobsSound(f, now)
    PROVE  JobsSound(f, later) /\ JobsMove(f, f)
<1>c. DailyAt \in Nat
  BY RestartConstantsHold DEF RestartConstants
<1>1. now >= DailyAt => later >= DailyAt
  BY <1>c
<1>2. JobsSound(f, later)
  BY <1>1 DEF JobsSound
<1>3. JobsMove(f, f)
  BY DEF JobsMove, JobsSound
<1> QED  BY <1>2, <1>3

(* The worker's jobs while nothing in flight changes. *)
LEMMA WorkerStays ==
    ASSUME NEW w, NEW f, NEW g, WorkerSound(w, f), w \in WorkerStates,
           \A j \in Jobs : f[j].status \in {"executing", "awaiting_reboot"} => g[j].status = f[j].status
    PROVE  WorkerSound(w, g)
<1>1. w.job \in Jobs \cup {None} /\ \A d \in w.jobs : d.id \in Jobs
  BY DEF WorkerStates
<1> QED  BY <1>1 DEF WorkerSound

(* A new job. *)
LEMMA JobsSchedule ==
    ASSUME NEW f \in JobFiles, NEW now \in Nat, JobsSound(f, now),
           NEW j \in Jobs, f[j].status = "none", NEW new \in JobRecords, new.status = "scheduled",
           \A k \in Jobs : f[k].status \notin {"executing", "awaiting_reboot"},
           new.daily => /\ new.runAt >= DailyAt /\ DailyAt > now
                        /\ \A k \in Jobs : ~(ActiveJob(f[k]) /\ f[k].daily),
           NEW g, g = [k \in Jobs |->
                         IF k = j THEN new
                         ELSE IF f[k].status = "scheduled" THEN [f[k] EXCEPT !.status = "superseded"]
                         ELSE f[k]]
    PROVE  g \in JobFiles /\ JobsSound(g, now) /\ JobsMove(f, g)
<1>c. DailyAt \in Nat
  BY RestartConstantsHold DEF RestartConstants
<1>1. ASSUME NEW k \in Jobs, k # j
      PROVE  /\ g[k] \in JobRecords /\ g[k].daily = f[k].daily /\ g[k].runAt = f[k].runAt
             /\ g[k].status = IF f[k].status = "scheduled" THEN "superseded" ELSE f[k].status
  <2>1. f[k] \in JobRecords
    BY DEF JobFiles
  <2>2. CASE f[k].status = "scheduled"
    <3>1. g[k] = [f[k] EXCEPT !.status = "superseded"]
      BY <1>1, <2>2
    <3> QED  BY <2>1, <2>2, <3>1 DEF JobRecords, JobStatuses
  <2>3. CASE f[k].status # "scheduled"
    BY <1>1, <2>1, <2>3
  <2> QED  BY <2>2, <2>3
<1>2. g[j] = new
  OBVIOUS
<1>3. g \in JobFiles
  BY <1>1, <1>2 DEF JobFiles
<1>4. \A k \in Jobs : ActiveJob(g[k]) => k = j
  BY <1>1 DEF ActiveJob
<1>5. new.daily => \A k \in Jobs : ~MorningJob(f[k])
  BY <1>c DEF MorningJob, JobsSound
<1>6. \A k \in Jobs : k # j /\ MorningJob(g[k]) => MorningJob(f[k]) /\ ReachedJob(f[k])
  BY <1>1 DEF MorningJob, ActiveJob, ReachedJob
<1>7. JobsSound(g, now)
  <2>1. \A k, l \in Jobs : MorningJob(g[k]) /\ MorningJob(g[l]) => k = l
    <3>1. ASSUME NEW k \in Jobs, k # j, MorningJob(g[j]), MorningJob(g[k]) PROVE FALSE
      BY <1>2, <1>5, <1>6, <3>1 DEF MorningJob
    <3> QED  BY <1>6, <3>1 DEF JobsSound
  <2>2. \A k \in Jobs : /\ g[k].status = "none" => ~g[k].daily
                        /\ g[k].daily /\ ActiveJob(g[k]) => g[k].runAt >= DailyAt
                        /\ g[k].daily /\ ReachedJob(g[k]) => now >= DailyAt
    <3>1. ASSUME NEW k \in Jobs, k # j
          PROVE  /\ g[k].status = "none" => ~g[k].daily
                 /\ ~ActiveJob(g[k])
                 /\ g[k].daily /\ ReachedJob(g[k]) => now >= DailyAt
      BY <1>1, <1>4, <3>1 DEF JobsSound, ReachedJob
    <3>2. ~ReachedJob(g[j]) /\ g[j].status # "none"
      BY <1>2 DEF ReachedJob
    <3> QED  BY <1>2, <3>1, <3>2
  <2> QED  BY <1>4, <2>1, <2>2 DEF JobsSound
<1>8. JobsMove(f, g)
  <2>1. ASSUME NEW k \in Jobs, NEW l \in Jobs,
               f[k].daily, ActiveJob(f[k]), f[l].status = "none", g[l].daily
        PROVE  FALSE
    <3>1. l = j
      BY <1>1, <2>1 DEF JobsSound
    <3> QED  BY <1>2, <2>1, <3>1
  <2>2. \A k \in Jobs :
           f[k].status \in {"executed", "failed", "cancelled", "superseded"} => g[k].status = f[k].status
    BY <1>1
  <2> QED  BY <2>1, <2>2 DEF JobsMove
<1> QED  BY <1>3, <1>7, <1>8

(* What a step makes of the jobs and the notices. *)
RestartMoves ==
    /\ Alone => JobsMove(jobs, jobs')
    /\ NoticesMove(notices, notices')

LEMMA RestartInvInit == Restarts!Init => RestartInv
<1> SUFFICES ASSUME Restarts!Init PROVE RestartInv
  OBVIOUS
<1>1. /\ jobs = [j \in Jobs |-> Restarts!NoJob] /\ view = jobs /\ held = None
      /\ notices = [n \in Jobs \cup Standalone |-> Restarts!NoNotice]
      /\ handler = [h \in Handlers |-> Restarts!IdleHandler]
      /\ worker = Restarts!FreshWorker /\ resume = Restarts!IdleResume
      /\ checkpoint = None /\ armed = {} /\ taken = {}
      /\ jobsClock = 1 /\ deaths = 0 /\ boots = 0
  BY DEF Restarts!Init, Restarts!Notices
<1>2. 0 \in 0..LastTime /\ 1 \in 1..LastTime
  BY RestartConstantsHold DEF RestartConstants
<1>3. Restarts!NoNotice \in NoticeRecords /\ Restarts!NoNotice.status = "none"
  BY <1>2 DEF Restarts!NoNotice, NoticeRecords
<1>4. RestartTyped
  BY <1>1, <1>2, <1>3, NothingScheduled DEF RestartTyped
<1>5. IdsAreTaken
  <2>1. \A j \in Jobs : jobs[j].status = "none" /\ view[j].status = "none"
                        /\ resume.seen[j].status = "none" /\ notices[j].status = "none"
    BY <1>1, <1>3, NothingScheduled
  <2>2. worker.jobs = {} /\ worker.job = None
    BY <1>1, NothingScheduled
  <2> QED  BY <2>1, <2>2 DEF IdsAreTaken
<1>6. AnnouncedOnce
  BY <1>1, NothingScheduled DEF AnnouncedOnce
<1>7. JobsInOrder
  <2>1. \A j \in Jobs : jobs[j].status = "none" /\ ~jobs[j].daily
    BY <1>1, NothingScheduled
  <2>2. JobsSound(jobs, jobsClock)
    BY <2>1 DEF JobsSound, ActiveJob, ReachedJob, MorningJob
  <2>3. WorkerSound(worker, jobs)
    BY <1>1, NothingScheduled DEF WorkerSound
  <2>4. held = None /\ resume.pc = "idle"
    BY <1>1, NothingScheduled
  <2> QED  BY <2>2, <2>3, <2>4 DEF JobsInOrder
<1> QED  BY <1>4, <1>5, <1>6, <1>7 DEF RestartInv

(* A step that does not touch the file of jobs. *)
LEMMA JobsUntouched ==
    ASSUME RestartInv,
           jobs' = jobs, held' = held, view' = view, resume' = resume, checkpoint' = checkpoint,
           armed' = armed, taken' = taken, jobsClock' = jobsClock, deaths' = deaths, boots' = boots,
           notices' \in [Jobs \cup Standalone -> NoticeRecords],
           \A j \in Jobs : notices'[j].status # "none" => j \in taken,
           NoticesMove(notices, notices'),
           handler' \in [Handlers -> RequestStates], AnnouncedOnce',
           worker' \in WorkerStates, worker'.pc # "poll" => worker'.now <= jobsClock,
           worker'.job # None => worker'.job \in taken, \A d \in worker'.jobs : d.id \in taken,
           Alone => WorkerSound(worker', jobs)
    PROVE  RestartInv' /\ RestartMoves
<1>0. RestartTyped /\ IdsAreTaken /\ JobsInOrder
  BY DEF RestartInv
<1>1. RestartTyped'
  BY <1>0 DEF RestartTyped
<1>2. IdsAreTaken'
  BY <1>0 DEF IdsAreTaken
<1>3. Alone' <=> Alone
  BY DEF Alone
<1>4. JobsInOrder'
  BY <1>0, <1>3 DEF JobsInOrder
<1>5. Alone => JobsMove(jobs, jobs')
  <2>1. ASSUME Alone PROVE JobsMove(jobs, jobs)
    <3>1. JobsSound(jobs, jobsClock) /\ jobs \in JobFiles
      BY <1>0, <2>1 DEF JobsInOrder, RestartTyped
    <3>2. jobsClock \in Nat
      BY <1>0, RestartConstantsHold DEF RestartTyped, RestartConstants
    <3>3. PICK now \in Nat : now = jobsClock
      BY <3>2
    <3> QED  BY <3>1, <3>3, JobsLater
  <2> QED  BY <2>1
<1> QED  BY <1>1, <1>2, <1>4, <1>5 DEF RestartInv, RestartMoves

(* A write of the file of jobs at the end of a critical section. *)
LEMMA JobsWritten ==
    ASSUME RestartInv,
           held # None, held' = None, view' = [j \in Jobs |-> Restarts!NoJob],
           notices' = notices, resume' = resume, checkpoint' = checkpoint,
           armed' = armed, jobsClock' = jobsClock, deaths' = deaths, boots' = boots,
           taken \subseteq taken', taken' \subseteq Jobs,
           jobs' \in JobFiles, \A j \in Jobs : jobs'[j].status # "none" => j \in taken',
           handler' \in [Handlers -> RequestStates], AnnouncedOnce',
           worker' \in WorkerStates, worker'.pc # "poll" => worker'.now <= jobsClock,
           worker'.job # None => worker'.job \in taken, \A d \in worker'.jobs : d.id \in taken,
           Alone => /\ JobsSound(jobs', jobsClock) /\ JobsMove(jobs, jobs')
                    /\ WorkerSound(worker', jobs')
    PROVE  RestartInv' /\ RestartMoves
<1>0. RestartTyped /\ IdsAreTaken /\ JobsInOrder
  BY DEF RestartInv
<1>1. RestartTyped'
  <2>1. view' \in JobFiles
    BY NothingScheduled
  <2> QED  BY <1>0, <2>1 DEF RestartTyped
<1>2. IdsAreTaken'
  <2>1. \A j \in Jobs : view'[j].status = "none"
    BY NothingScheduled
  <2> QED  BY <1>0, <2>1 DEF IdsAreTaken
<1>3. Alone' <=> Alone
  BY DEF Alone
<1>4. JobsInOrder'
  BY <1>0, <1>3 DEF JobsInOrder
<1>5. NoticesMove(notices, notices')
  BY DEF NoticesMove
<1> QED  BY <1>1, <1>2, <1>4, <1>5 DEF RestartInv, RestartMoves

(* Notices: a new one takes the place of those that wait, a withdrawal ends
   them; what was silenced stays silent. *)
LEMMA NoticeNew ==
    ASSUME RestartTyped, NEW n \in Jobs \cup Standalone, notices[n].status = "none",
           NEW at \in 0..LastTime, notices' = Restarts!NewNotice(n, at)
    PROVE  /\ notices' \in [Jobs \cup Standalone -> NoticeRecords]
           /\ NoticesMove(notices, notices')
           /\ \A m \in Jobs \cup Standalone : m # n /\ notices[m].status = "none"
                                                => notices'[m].status = "none"
           /\ \A m \in Jobs \cup Standalone : m # n /\ notices[m].status # "none"
                                                => notices'[m].status # "none"
<1>1. notices' = [m \in Jobs \cup Standalone |->
                    IF m = n THEN [status |-> "scheduled", at |-> at, final |-> FALSE]
                    ELSE IF notices[m].status \in {"scheduled", "delivering"}
                         THEN [notices[m] EXCEPT !.status = "superseded"]
                         ELSE notices[m]]
  BY DEF Restarts!NewNotice, Restarts!Notices, Restarts!Pending
<1>2. ASSUME NEW m \in Jobs \cup Standalone, m # n
      PROVE  /\ notices'[m] \in NoticeRecords
             /\ notices[m].status \in {"cancelled", "superseded", "expired", "none"} =>
                   notices'[m].status = notices[m].status
             /\ notices[m].status # "none" => notices'[m].status # "none"
  <2>1. notices[m] \in NoticeRecords
    BY DEF RestartTyped
  <2>2. CASE notices[m].status \in {"scheduled", "delivering"}
    <3>1. notices'[m] = [notices[m] EXCEPT !.status = "superseded"]
      BY <1>1, <1>2, <2>2
    <3> QED  BY <2>1, <2>2, <3>1 DEF NoticeRecords
  <2>3. CASE notices[m].status \notin {"scheduled", "delivering"}
    <3>1. notices'[m] = notices[m]
      BY <1>1, <1>2, <2>3
    <3> QED  BY <2>1, <3>1
  <2> QED  BY <2>2, <2>3
<1>3. notices'[n] = [status |-> "scheduled", at |-> at, final |-> FALSE]
  BY <1>1
<1>4. notices'[n] \in NoticeRecords
  BY <1>3 DEF NoticeRecords
<1>5. NoticesMove(notices, notices')
  <2>1. ASSUME NEW m \in Jobs \cup Standalone,
               notices[m].status \in {"cancelled", "superseded", "expired"}
        PROVE  notices'[m].status = notices[m].status
    BY <1>2, <2>1
  <2> QED  BY <2>1 DEF NoticesMove
<1>6. notices' \in [Jobs \cup Standalone -> NoticeRecords]
  <2>1. \A m \in Jobs \cup Standalone : notices'[m] \in NoticeRecords
    BY <1>2, <1>4
  <2> QED  BY <1>1, <2>1
<1> QED  BY <1>2, <1>5, <1>6

LEMMA NoticesChange ==
    ASSUME RestartTyped, notices' = [n \in Jobs \cup Standalone |-> notices'[n]],
           \A n \in Jobs \cup Standalone :
              \/ notices'[n] = notices[n]
              \/ /\ notices[n].status \in {"scheduled", "delivering"}
                 /\ notices'[n] \in NoticeRecords /\ notices'[n].status # "none"
    PROVE  /\ notices' \in [Jobs \cup Standalone -> NoticeRecords]
           /\ NoticesMove(notices, notices')
           /\ \A n \in Jobs \cup Standalone : notices'[n].status = "none" <=> notices[n].status = "none"
<1>1. \A n \in Jobs \cup Standalone : notices[n] \in NoticeRecords
  BY DEF RestartTyped
<1>2. \A n \in Jobs \cup Standalone : notices'[n] \in NoticeRecords
  BY <1>1
<1> QED  BY <1>2 DEF NoticesMove

LEMMA NoticesWithdrawn ==
    ASSUME RestartTyped, NEW ids,
           notices' = [n \in Jobs \cup Standalone |->
                         IF n \in ids /\ notices[n].status \in {"scheduled", "delivering"}
                         THEN [notices[n] EXCEPT !.status = "cancelled"] ELSE notices[n]]
    PROVE  /\ notices' \in [Jobs \cup Standalone -> NoticeRecords]
           /\ NoticesMove(notices, notices')
           /\ \A n \in Jobs \cup Standalone : notices'[n].status = "none" <=> notices[n].status = "none"
<1>1. ASSUME NEW n \in Jobs \cup Standalone
      PROVE  \/ notices'[n] = notices[n]
             \/ /\ notices[n].status \in {"scheduled", "delivering"}
                /\ notices'[n] \in NoticeRecords /\ notices'[n].status # "none"
  <2>1. notices[n] \in NoticeRecords
    BY DEF RestartTyped
  <2>2. CASE n \in ids /\ notices[n].status \in {"scheduled", "delivering"}
    <3>1. notices'[n] = [notices[n] EXCEPT !.status = "cancelled"]
      BY <2>2
    <3> QED  BY <2>1, <2>2, <3>1 DEF NoticeRecords
  <2>3. CASE ~(n \in ids /\ notices[n].status \in {"scheduled", "delivering"})
    BY <2>3
  <2> QED  BY <2>2, <2>3
<1> QED  BY <1>1, NoticesChange

(* The requests that write notices. *)
LEMMA RestartAnnounces ==
    ASSUME RestartInv, NEW h \in Handlers, Restarts!AnnounceRestart(h)
    PROVE  RestartInv' /\ RestartMoves
<1>0. RestartTyped /\ IdsAreTaken /\ AnnouncedOnce /\ JobsInOrder
  BY DEF RestartInv
<1>1. /\ handler[h].pc = "announce"
      /\ handler' = [handler EXCEPT ![h] = Restarts!IdleHandler]
      /\ jobs' = jobs /\ held' = held /\ view' = view /\ resume' = resume
      /\ checkpoint' = checkpoint /\ armed' = armed /\ taken' = taken
      /\ jobsClock' = jobsClock /\ deaths' = deaths /\ boots' = boots /\ worker' = worker
  BY DEF Restarts!AnnounceRestart, Restarts!file, Restarts!host, Restarts!log
<1>2. PICK j \in handler[h].ids : IF handler[h].at < jobsClock THEN notices' = notices
                                  ELSE notices' = Restarts!NewNotice(j, handler[h].at)
  BY DEF Restarts!AnnounceRestart
<1>3. handler[h] \in RequestStates
  BY <1>0 DEF RestartTyped
<1>4. j \in Jobs /\ j \in taken /\ handler[h].at \in 0..LastTime /\ notices[j].status = "none"
  BY <1>0, <1>1, <1>3 DEF RequestStates, AnnouncedOnce
<1>5. /\ notices' \in [Jobs \cup Standalone -> NoticeRecords]
      /\ NoticesMove(notices, notices')
      /\ \A m \in Jobs : m # j /\ notices[m].status = "none" => notices'[m].status = "none"
  <2>1. CASE handler[h].at < jobsClock
    BY <1>0, <1>2, <2>1 DEF RestartTyped, NoticesMove
  <2>2. CASE ~(handler[h].at < jobsClock)
    BY <1>0, <1>2, <1>4, <2>2, NoticeNew
  <2> QED  BY <2>1, <2>2
<1>6. /\ handler' \in [Handlers -> RequestStates]
      /\ \A g \in Handlers : handler'[g].pc = "announce" => g # h /\ handler'[g] = handler[g]
  BY <1>0, <1>1, NothingScheduled DEF RestartTyped
<1>7. AnnouncedOnce'
  <2>1. ASSUME NEW g \in Handlers, handler'[g].pc = "announce", NEW k \in handler'[g].ids
        PROVE  /\ k \in taken' /\ notices'[k].status = "none"
               /\ \A i \in Handlers : handler'[i].pc = "announce" /\ k \in handler'[i].ids => i = g
    <3>1. g # h /\ handler'[g] = handler[g] /\ k \in Jobs
      BY <1>0, <1>6, <2>1 DEF RestartTyped, RequestStates
    <3>2. /\ k \in taken /\ notices[k].status = "none"
          /\ \A i \in Handlers : handler[i].pc = "announce" /\ k \in handler[i].ids => i = g
      BY <1>0, <2>1, <3>1 DEF AnnouncedOnce
    <3>3. k # j
      BY <1>1, <1>2, <3>1, <3>2
    <3> QED  BY <1>1, <1>5, <1>6, <3>1, <3>2, <3>3
  <2> QED  BY <2>1 DEF AnnouncedOnce
<1>8. \A m \in Jobs : notices'[m].status # "none" => m \in taken
  BY <1>0, <1>4, <1>5 DEF IdsAreTaken
<1>9. /\ worker' \in WorkerStates /\ (worker'.pc # "poll" => worker'.now <= jobsClock)
      /\ (worker'.job # None => worker'.job \in taken) /\ \A d \in worker'.jobs : d.id \in taken
      /\ Alone => WorkerSound(worker', jobs)
  BY <1>0, <1>1 DEF RestartTyped, IdsAreTaken, JobsInOrder
<1> HIDE <1>2
<1> QED  BY <1>1, <1>5, <1>6, <1>7, <1>8, <1>9, JobsUntouched

LEMMA AnnouncedKept ==
    ASSUME RestartInv, handler' \in [Handlers -> RequestStates],
           \A g \in Handlers : handler'[g].pc = "announce" => handler'[g] = handler[g],
           taken \subseteq taken',
           \A j \in Jobs : notices[j].status = "none" => notices'[j].status = "none"
    PROVE  AnnouncedOnce'
<1>0. RestartTyped /\ AnnouncedOnce
  BY DEF RestartInv
<1>1. ASSUME NEW g \in Handlers, handler'[g].pc = "announce", NEW k \in handler'[g].ids
      PROVE  /\ k \in taken' /\ notices'[k].status = "none"
             /\ \A i \in Handlers : handler'[i].pc = "announce" /\ k \in handler'[i].ids => i = g
  <2>1. handler'[g] = handler[g] /\ k \in Jobs
    BY <1>0, <1>1 DEF RestartTyped, RequestStates
  <2>2. /\ k \in taken /\ notices[k].status = "none"
        /\ \A i \in Handlers : handler[i].pc = "announce" /\ k \in handler[i].ids => i = g
    BY <1>0, <1>1, <2>1 DEF AnnouncedOnce
  <2> QED  BY <2>1, <2>2
<1> QED  BY <1>1 DEF AnnouncedOnce

LEMMA WorkerKept ==
    ASSUME RestartInv, worker' = worker
    PROVE  /\ worker' \in WorkerStates /\ (worker'.pc # "poll" => worker'.now <= jobsClock)
           /\ (worker'.job # None => worker'.job \in taken) /\ \A d \in worker'.jobs : d.id \in taken
           /\ Alone => WorkerSound(worker', jobs)
  BY DEF RestartInv, RestartTyped, IdsAreTaken, JobsInOrder

LEMMA RestartCards ==
    ASSUME RestartInv, NEW h \in Handlers, NEW n \in Standalone, NEW at \in 1..LastTime,
           Restarts!ScheduleAnnouncement(h, n, at)
    PROVE  RestartInv' /\ RestartMoves
<1>0. RestartTyped /\ IdsAreTaken
  BY DEF RestartInv
<1>1. /\ notices[n].status = "none" /\ notices' = Restarts!NewNotice(n, at)
      /\ jobs' = jobs /\ held' = held /\ view' = view /\ resume' = resume
      /\ checkpoint' = checkpoint /\ armed' = armed /\ taken' = taken
      /\ jobsClock' = jobsClock /\ deaths' = deaths /\ boots' = boots
      /\ worker' = worker /\ handler' = handler
  BY DEF Restarts!ScheduleAnnouncement, Restarts!file, Restarts!host, Restarts!log
<1>2. at \in 0..LastTime /\ n \notin Jobs
  BY RestartConstantsHold DEF RestartConstants
<1>3. /\ notices' \in [Jobs \cup Standalone -> NoticeRecords] /\ NoticesMove(notices, notices')
      /\ \A m \in Jobs : notices[m].status = "none" => notices'[m].status = "none"
  BY <1>0, <1>1, <1>2, NoticeNew
<1>4. \A m \in Jobs : notices'[m].status # "none" => m \in taken
  BY <1>0, <1>3 DEF IdsAreTaken
<1>5. handler' \in [Handlers -> RequestStates]
  BY <1>0, <1>1 DEF RestartTyped
<1>6. AnnouncedOnce'
  BY <1>1, <1>3, <1>5, AnnouncedKept
<1>7. /\ worker' \in WorkerStates /\ (worker'.pc # "poll" => worker'.now <= jobsClock)
      /\ (worker'.job # None => worker'.job \in taken) /\ \A d \in worker'.jobs : d.id \in taken
      /\ Alone => WorkerSound(worker', jobs)
  BY <1>1, WorkerKept
<1> QED  BY <1>1, <1>3, <1>4, <1>5, <1>6, <1>7, JobsUntouched

LEMMA RestartWithdraws ==
    ASSUME RestartInv, NEW h \in Handlers,
           \/ Restarts!WithdrawNotices(h)
           \/ \E ids \in {Restarts!Notices} \cup {{n} : n \in Restarts!Notices} :
                 Restarts!CancelAnnouncement(h, ids)
    PROVE  RestartInv' /\ RestartMoves
<1>0. RestartTyped /\ IdsAreTaken
  BY DEF RestartInv
<1>1. /\ jobs' = jobs /\ held' = held /\ view' = view /\ resume' = resume
      /\ checkpoint' = checkpoint /\ armed' = armed /\ taken' = taken
      /\ jobsClock' = jobsClock /\ deaths' = deaths /\ boots' = boots /\ worker' = worker
  BY DEF Restarts!WithdrawNotices, Restarts!CancelAnnouncement, Restarts!file, Restarts!host,
         Restarts!log
<1>2. handler' = handler \/ handler' = [handler EXCEPT ![h] = Restarts!IdleHandler]
  BY DEF Restarts!WithdrawNotices, Restarts!CancelAnnouncement
<1>3. \E ids :
        notices' = [n \in Jobs \cup Standalone |->
                      IF n \in ids /\ notices[n].status \in {"scheduled", "delivering"}
                      THEN [notices[n] EXCEPT !.status = "cancelled"] ELSE notices[n]]
  BY DEF Restarts!WithdrawNotices, Restarts!CancelAnnouncement, Restarts!Notices, Restarts!Pending
<1>4. /\ notices' \in [Jobs \cup Standalone -> NoticeRecords] /\ NoticesMove(notices, notices')
      /\ \A n \in Jobs \cup Standalone : notices'[n].status = "none" <=> notices[n].status = "none"
  BY <1>0, <1>3, NoticesWithdrawn
<1>5. \A m \in Jobs : notices'[m].status # "none" => m \in taken
  BY <1>0, <1>4 DEF IdsAreTaken
<1>6. /\ handler' \in [Handlers -> RequestStates]
      /\ \A g \in Handlers : handler'[g].pc = "announce" => handler'[g] = handler[g]
  BY <1>0, <1>2, NothingScheduled DEF RestartTyped
<1>7. AnnouncedOnce'
  BY <1>1, <1>4, <1>6, AnnouncedKept
<1>8. /\ worker' \in WorkerStates /\ (worker'.pc # "poll" => worker'.now <= jobsClock)
      /\ (worker'.job # None => worker'.job \in taken) /\ \A d \in worker'.jobs : d.id \in taken
      /\ Alone => WorkerSound(worker', jobs)
  BY <1>1, WorkerKept
<1> QED  BY <1>1, <1>4, <1>5, <1>6, <1>7, <1>8, JobsUntouched

(* The requests that write the file of jobs. *)
LEMMA RestartRefuses ==
    ASSUME RestartInv, NEW h \in Handlers, Restarts!RefuseRequest(h)
    PROVE  RestartInv' /\ RestartMoves
<1>0. RestartTyped /\ IdsAreTaken /\ JobsInOrder
  BY DEF RestartInv
<1>1. /\ held = h /\ held' = None /\ view' = [j \in Jobs |-> Restarts!NoJob] /\ jobs' = jobs
      /\ notices' = notices /\ resume' = resume
      /\ checkpoint' = checkpoint /\ armed' = armed /\ taken' = taken
      /\ jobsClock' = jobsClock /\ deaths' = deaths /\ boots' = boots
      /\ worker' = worker /\ handler' = handler
  BY DEF Restarts!RefuseRequest, Restarts!LeaveLock, Restarts!host, Restarts!log
<1>2. held # None
  BY <1>1, RestartConstantsHold DEF RestartConstants
<1>3. /\ jobs' \in JobFiles /\ taken' \subseteq Jobs /\ handler' \in [Handlers -> RequestStates]
      /\ \A j \in Jobs : jobs'[j].status # "none" => j \in taken'
  BY <1>0, <1>1 DEF RestartTyped, IdsAreTaken
<1>4. AnnouncedOnce'
  BY <1>1, <1>3, AnnouncedKept
<1>5. /\ worker' \in WorkerStates /\ (worker'.pc # "poll" => worker'.now <= jobsClock)
      /\ (worker'.job # None => worker'.job \in taken) /\ \A d \in worker'.jobs : d.id \in taken
      /\ Alone => WorkerSound(worker', jobs)
  BY <1>1, WorkerKept
<1>6. Alone => JobsSound(jobs', jobsClock) /\ JobsMove(jobs, jobs') /\ WorkerSound(worker', jobs')
  <2>1. jobsClock \in Nat
    BY <1>0, RestartConstantsHold DEF RestartTyped, RestartConstants
  <2>2. Alone => JobsSound(jobs, jobsClock)
    BY <1>0 DEF JobsInOrder
  <2>3. PICK now \in Nat : now = jobsClock
    BY <2>1
  <2>4. jobs \in JobFiles
    BY <1>0 DEF RestartTyped
  <2> QED  BY <1>1, <1>5, <2>2, <2>3, <2>4, JobsLater
<1> QED  BY <1>1, <1>2, <1>3, <1>4, <1>5, <1>6, JobsWritten

LEMMA RestartCancels ==
    ASSUME RestartInv, NEW h \in Handlers, NEW ids, Restarts!CancelRestart(h, ids),
           ids \in {Jobs} \cup {{j} : j \in Jobs}
    PROVE  RestartInv' /\ RestartMoves
<1>0. RestartTyped /\ IdsAreTaken /\ JobsInOrder
  BY DEF RestartInv
<1>1. PICK gone : gone = {j \in ids : view[j].status = "scheduled"}
  OBVIOUS
<1>2. gone \subseteq Jobs /\ \A j \in gone : view[j].status = "scheduled"
  BY <1>1
<1>3. /\ held = h /\ held' = None /\ view' = [j \in Jobs |-> Restarts!NoJob]
      /\ jobs' = [j \in Jobs |-> IF j \in gone THEN [view[j] EXCEPT !.status = "cancelled"]
                                 ELSE view[j]]
      /\ handler' = [handler EXCEPT ![h] =
                       IF gone = {} THEN Restarts!IdleHandler
                       ELSE [pc |-> "withdraw", ids |-> gone, at |-> 0]]
      /\ notices' = notices /\ resume' = resume
      /\ checkpoint' = checkpoint /\ armed' = armed /\ taken' = taken
      /\ jobsClock' = jobsClock /\ deaths' = deaths /\ boots' = boots /\ worker' = worker
  BY <1>1 DEF Restarts!CancelRestart, Restarts!WriteJobs, Restarts!Cancellable, Restarts!host,
              Restarts!log
<1>4. held # None
  BY <1>3, RestartConstantsHold DEF RestartConstants
<1>5. ASSUME NEW j \in Jobs
      PROVE  /\ jobs'[j] \in JobRecords
             /\ jobs'[j].status # "none" => j \in taken
             /\ view[j].status # "scheduled" => jobs'[j] = view[j]
             /\ JobChanges(view[j], jobs'[j], jobsClock)
  <2>1. view[j] \in JobRecords
    BY <1>0 DEF RestartTyped, JobFiles
  <2>2. CASE j \in gone
    <3>1. jobs'[j] = [view[j] EXCEPT !.status = "cancelled"]
      BY <1>3, <2>2
    <3>2. view[j].status = "scheduled"
      BY <1>2, <2>2
    <3>3. jobs'[j] \in JobRecords /\ jobs'[j].status = "cancelled" /\ jobs'[j].daily = view[j].daily
      BY <2>1, <3>1 DEF JobRecords, JobStatuses
    <3> QED  BY <1>0, <3>2, <3>3 DEF IdsAreTaken, JobChanges
  <2>3. CASE j \notin gone
    <3>1. jobs'[j] = view[j]
      BY <1>3, <2>3
    <3> QED  BY <1>0, <2>1, <3>1 DEF IdsAreTaken, JobChanges
  <2> QED  BY <2>2, <2>3
<1>6. jobs' = [j \in Jobs |-> jobs'[j]] /\ jobs' \in JobFiles
  BY <1>3, <1>5 DEF JobFiles
<1>7. /\ handler' \in [Handlers -> RequestStates]
      /\ \A g \in Handlers : handler'[g].pc = "announce" => handler'[g] = handler[g]
  <2>1. 0 \in 0..LastTime
    BY RestartConstantsHold DEF RestartConstants
  <2>2. PICK left : left = IF gone = {} THEN Restarts!IdleHandler
                           ELSE [pc |-> "withdraw", ids |-> gone, at |-> 0]
    OBVIOUS
  <2>3. left \in RequestStates /\ left.pc # "announce"
    BY <1>2, <2>1, <2>2, NothingScheduled DEF RequestStates
  <2>4. handler' = [handler EXCEPT ![h] = left]
    BY <1>3, <2>2
  <2>5. handler \in [Handlers -> RequestStates]
    BY <1>0 DEF RestartTyped
  <2> QED  BY <2>3, <2>4, <2>5
<1>8. taken \subseteq taken' /\ taken' \subseteq Jobs /\ notices' = notices
  BY <1>0, <1>3 DEF RestartTyped
<1>9. AnnouncedOnce'
  BY <1>7, <1>8, AnnouncedKept
<1>10. /\ worker' \in WorkerStates /\ (worker'.pc # "poll" => worker'.now <= jobsClock)
       /\ (worker'.job # None => worker'.job \in taken) /\ \A d \in worker'.jobs : d.id \in taken
       /\ Alone => WorkerSound(worker', jobs)
  BY <1>3, WorkerKept
<1>11. ASSUME Alone
       PROVE  JobsSound(jobs', jobsClock) /\ JobsMove(jobs, jobs') /\ WorkerSound(worker', jobs')
  <2>1. view = jobs /\ JobsSound(jobs, jobsClock) /\ jobs \in JobFiles
    BY <1>0, <1>4, <1>11 DEF JobsInOrder, RestartTyped
  <2>2. jobsClock \in Nat
    BY <1>0, RestartConstantsHold DEF RestartTyped, RestartConstants
  <2>3. PICK now \in Nat : now = jobsClock
    BY <2>2
  <2>4. \A j \in Jobs : JobChanges(jobs[j], jobs'[j], now)
    BY <1>5, <2>1, <2>3
  <2>5. JobsSound(jobs', now) /\ JobsMove(jobs, jobs')
    BY <1>6, <2>1, <2>3, <2>4, JobsChange
  <2>6. WorkerSound(worker', jobs')
    BY <1>5, <1>10, <1>11, <2>1, WorkerStays
  <2> QED  BY <2>3, <2>5, <2>6
<1>12. \A j \in Jobs : jobs'[j].status # "none" => j \in taken'
  BY <1>5, <1>8
<1>13. /\ held' = None /\ view' = [j \in Jobs |-> Restarts!NoJob] /\ resume' = resume
       /\ checkpoint' = checkpoint /\ armed' = armed
       /\ jobsClock' = jobsClock /\ deaths' = deaths /\ boots' = boots
  BY <1>3
<1> HIDE <1>3
<1> QED  BY <1>4, <1>6, <1>7, <1>8, <1>9, <1>10, <1>11, <1>12, <1>13, JobsWritten

LEMMA RestartSchedules ==
    ASSUME RestartInv, NEW h \in Handlers, NEW j \in Jobs, NEW at \in 1..LastTime,
           NEW morning \in BOOLEAN, NEW told \in Announcing, NEW execute \in BOOLEAN,
           Restarts!ScheduleRestart(h, j, at, morning, told, execute)
    PROVE  RestartInv' /\ RestartMoves
<1>0. RestartTyped /\ IdsAreTaken /\ AnnouncedOnce /\ JobsInOrder
  BY DEF RestartInv
<1>1. PICK new : new = [status |-> "scheduled", runAt |-> at, daily |-> morning,
                        announce |-> told, execute |-> execute, deferred |-> FALSE]
  OBVIOUS
<1>2. /\ j \notin taken /\ taken' = taken \cup {j}
      /\ morning => at = DailyAt /\ at > jobsClock
      /\ morning => \A k \in Jobs : ~(ActiveJob(view[k]) /\ view[k].daily)
      /\ \A k \in Jobs : view[k].status \notin {"executing", "awaiting_reboot"}
  BY DEF Restarts!ScheduleRestart, Restarts!InTime, Restarts!SameKey, Restarts!NothingInFlight,
         Restarts!Active, Restarts!InFlight, ActiveJob
<1>3. /\ held = h /\ held' = None /\ view' = [k \in Jobs |-> Restarts!NoJob]
      /\ jobs' = [k \in Jobs |->
                    IF k = j THEN new
                    ELSE IF view[k].status = "scheduled" THEN [view[k] EXCEPT !.status = "superseded"]
                    ELSE view[k]]
  BY <1>1 DEF Restarts!ScheduleRestart, Restarts!WriteJobs, Restarts!Superseding
<1>4. /\ handler' = [handler EXCEPT ![h] =
                       IF told THEN [pc |-> "announce", ids |-> {j}, at |-> at]
                       ELSE Restarts!IdleHandler]
      /\ notices' = notices /\ resume' = resume /\ checkpoint' = checkpoint /\ armed' = armed
      /\ jobsClock' = jobsClock /\ deaths' = deaths /\ boots' = boots /\ worker' = worker
  BY DEF Restarts!ScheduleRestart
<1>5. held # None /\ told \in BOOLEAN
  BY <1>3, RestartConstantsHold DEF RestartConstants
<1>6. new \in JobRecords /\ new.status = "scheduled" /\ new.runAt = at /\ new.daily = morning
  <2>1. at \in 0..(LastTime + RetryDelay)
    BY RestartConstantsHold DEF RestartConstants
  <2> QED  BY <1>1, <1>5, <2>1 DEF JobRecords, JobStatuses
<1>7. ASSUME NEW k \in Jobs PROVE jobs'[k] \in JobRecords /\ (jobs'[k].status # "none" => k \in taken')
  <2>1. view[k] \in JobRecords
    BY <1>0 DEF RestartTyped, JobFiles
  <2>2. CASE k = j
    BY <1>2, <1>3, <1>6, <2>2
  <2>3. CASE k # j /\ view[k].status = "scheduled"
    <3>1. jobs'[k] = [view[k] EXCEPT !.status = "superseded"]
      BY <1>3, <2>3
    <3>2. k \in taken
      BY <1>0, <2>3 DEF IdsAreTaken
    <3> QED  BY <1>2, <2>1, <3>1, <3>2 DEF JobRecords, JobStatuses
  <2>4. CASE k # j /\ view[k].status # "scheduled"
    <3>1. jobs'[k] = view[k]
      BY <1>3, <2>4
    <3> QED  BY <1>0, <1>2, <2>1, <3>1 DEF IdsAreTaken
  <2> QED  BY <2>2, <2>3, <2>4
<1>8. jobs' \in JobFiles
  BY <1>3, <1>7 DEF JobFiles
<1>9. PICK left : /\ handler' = [handler EXCEPT ![h] = left] /\ left \in RequestStates
                  /\ left.pc = "announce" => left.ids = {j}
  <2>1. at \in 0..LastTime
    OBVIOUS
  <2>2. PICK left : left = IF told THEN [pc |-> "announce", ids |-> {j}, at |-> at]
                           ELSE Restarts!IdleHandler
    OBVIOUS
  <2>3. left \in RequestStates /\ (left.pc = "announce" => left.ids = {j})
    <3>1. CASE told
      BY <2>1, <2>2, <3>1 DEF RequestStates
    <3>2. CASE ~told
      BY <2>2, <3>2, NothingScheduled
    <3> QED  BY <1>5, <3>1, <3>2
  <2>4. handler' = [handler EXCEPT ![h] = left]
    BY <1>4, <2>2
  <2> QED  BY <2>3, <2>4
<1>10. handler \in [Handlers -> RequestStates]
  BY <1>0 DEF RestartTyped
<1>11. handler' \in [Handlers -> RequestStates]
  BY <1>9, <1>10
<1>12. AnnouncedOnce'
  <2>1. ASSUME NEW g \in Handlers, g # h, handler'[g].pc = "announce"
        PROVE  handler'[g] = handler[g] /\ j \notin handler[g].ids
    BY <1>0, <1>2, <1>9, <1>10, <2>1 DEF AnnouncedOnce
  <2>2. notices[j].status = "none"
    BY <1>0, <1>2 DEF IdsAreTaken
  <2>3. handler'[h] = left
    BY <1>9, <1>10
  <2>4. ASSUME NEW g \in Handlers, handler'[g].pc = "announce", NEW k \in handler'[g].ids
        PROVE  /\ k \in taken' /\ notices'[k].status = "none"
               /\ \A i \in Handlers : handler'[i].pc = "announce" /\ k \in handler'[i].ids => i = g
    <3>1. CASE g = h
      BY <1>2, <1>4, <1>9, <2>1, <2>2, <2>3, <2>4, <3>1
    <3>2. CASE g # h
      <4>1. /\ handler'[g] = handler[g] /\ k # j /\ k \in taken /\ notices[k].status = "none"
            /\ \A i \in Handlers : handler[i].pc = "announce" /\ k \in handler[i].ids => i = g
        BY <1>0, <2>1, <2>4, <3>2 DEF AnnouncedOnce
      <4>2. \A i \in Handlers : handler'[i].pc = "announce" /\ k \in handler'[i].ids => i = g
        BY <1>9, <2>1, <2>3, <4>1
      <4> QED  BY <1>2, <1>4, <4>1, <4>2
    <3> QED  BY <3>1, <3>2
  <2> QED  BY <2>4 DEF AnnouncedOnce
<1>13. /\ worker' \in WorkerStates /\ (worker'.pc # "poll" => worker'.now <= jobsClock)
       /\ (worker'.job # None => worker'.job \in taken) /\ \A d \in worker'.jobs : d.id \in taken
       /\ Alone => WorkerSound(worker', jobs)
  BY <1>4, WorkerKept
<1>14. ASSUME Alone
       PROVE  JobsSound(jobs', jobsClock) /\ JobsMove(jobs, jobs') /\ WorkerSound(worker', jobs')
  <2>1. view = jobs /\ JobsSound(jobs, jobsClock) /\ jobs \in JobFiles
    BY <1>0, <1>5, <1>14 DEF JobsInOrder, RestartTyped
  <2>2. jobs[j].status = "none"
    BY <1>0, <1>2 DEF IdsAreTaken
  <2>3. jobsClock \in Nat /\ DailyAt \in Nat
    BY <1>0, RestartConstantsHold DEF RestartTyped, RestartConstants
  <2>4. PICK now \in Nat : now = jobsClock
    BY <2>3
  <2>5. new.daily => new.runAt >= DailyAt /\ DailyAt > now
    BY <1>2, <1>6, <2>3, <2>4
  <2>6. new.daily => \A k \in Jobs : ~(ActiveJob(jobs[k]) /\ jobs[k].daily)
    BY <1>2, <1>6, <2>1
  <2>7. \A k \in Jobs : jobs[k].status \notin {"executing", "awaiting_reboot"}
    BY <1>2, <2>1
  <2>8. PICK f \in JobFiles : f = jobs
    BY <2>1
  <2>9. PICK g : g = jobs'
    OBVIOUS
  <2>10. JobsSound(g, now) /\ JobsMove(f, g)
    <3>1. g = [k \in Jobs |->
                 IF k = j THEN new
                 ELSE IF f[k].status = "scheduled" THEN [f[k] EXCEPT !.status = "superseded"]
                 ELSE f[k]]
      BY <1>3, <2>1, <2>8, <2>9
    <3>2. JobsSound(f, now) /\ f[j].status = "none"
      BY <2>1, <2>2, <2>4, <2>8
    <3> QED  BY <1>6, <2>5, <2>6, <2>7, <2>8, <3>1, <3>2, JobsSchedule
  <2>11. WorkerSound(worker', jobs')
    BY <1>13, <1>14, <2>7, WorkerStays
  <2> QED  BY <2>4, <2>8, <2>9, <2>10, <2>11
<1>15. /\ taken \subseteq taken' /\ taken' \subseteq Jobs
       /\ \A k \in Jobs : jobs'[k].status # "none" => k \in taken'
  BY <1>0, <1>2, <1>7 DEF RestartTyped
<1>16. /\ held' = None /\ view' = [k \in Jobs |-> Restarts!NoJob] /\ notices' = notices
       /\ resume' = resume /\ checkpoint' = checkpoint /\ armed' = armed
       /\ jobsClock' = jobsClock /\ deaths' = deaths /\ boots' = boots
  BY <1>3, <1>4
<1> HIDE <1>3, <1>4
<1> QED  BY <1>5, <1>8, <1>11, <1>12, <1>13, <1>14, <1>15, <1>16, JobsWritten

(* The worker: what it does without writing the file of jobs. *)
LEMMA WorkerReads ==
    ASSUME RestartInv,
           jobs' = jobs, held' = held, view' = view, resume' = resume, checkpoint' = checkpoint,
           armed' = armed, taken' = taken, jobsClock' = jobsClock, deaths' = deaths, boots' = boots,
           handler' = handler,
           notices' \in [Jobs \cup Standalone -> NoticeRecords], NoticesMove(notices, notices'),
           \A n \in Jobs \cup Standalone :
              notices'[n].status = "none" <=> notices[n].status = "none",
           worker' \in WorkerStates, worker'.pc # "poll" => worker'.now <= jobsClock,
           worker'.job # None => worker'.job \in taken, \A d \in worker'.jobs : d.id \in taken,
           Alone => WorkerSound(worker', jobs)
    PROVE  RestartInv' /\ RestartMoves
<1>0. RestartTyped /\ IdsAreTaken
  BY DEF RestartInv
<1>1. handler' \in [Handlers -> RequestStates]
  BY <1>0 DEF RestartTyped
<1>2. AnnouncedOnce'
  BY <1>1, AnnouncedKept
<1>3. \A m \in Jobs : notices'[m].status # "none" => m \in taken
  BY <1>0 DEF IdsAreTaken
<1> QED  BY <1>1, <1>2, <1>3, JobsUntouched

LEMMA WorkerPolls ==
    ASSUME RestartInv, Restarts!PollNotices
    PROVE  RestartInv' /\ RestartMoves
<1>0. RestartTyped /\ IdsAreTaken /\ JobsInOrder
  BY DEF RestartInv
<1>1. /\ worker.pc = "poll"
      /\ jobs' = jobs /\ held' = held /\ view' = view /\ resume' = resume
      /\ checkpoint' = checkpoint /\ armed' = armed /\ taken' = taken
      /\ jobsClock' = jobsClock /\ deaths' = deaths /\ boots' = boots /\ handler' = handler
  BY DEF Restarts!PollNotices, Restarts!file, Restarts!host, Restarts!log
<1>2. PICK ids : /\ ids \subseteq Jobs \cup Standalone
                 /\ \A n \in ids : notices[n].status \in {"scheduled", "delivering"}
                 /\ notices' = [n \in Jobs \cup Standalone |->
                                  IF n \in ids THEN [notices[n] EXCEPT !.status = "delivering"]
                                  ELSE IF /\ notices[n].status \in {"scheduled", "delivering"}
                                          /\ ~Restarts!NoticeDue(n, jobsClock)
                                       THEN [notices[n] EXCEPT !.status = "expired"]
                                       ELSE notices[n]]
                 /\ worker' = [worker EXCEPT !.pc = "restarts", !.now = jobsClock, !.notices = ids]
  <2>1. PICK soon \in SUBSET {n \in Restarts!Notices :
                                 Restarts!NoticeDue(n, jobsClock) /\ notices[n].at > jobsClock} :
          LET ids == soon \cup {n \in Restarts!Notices :
                                   Restarts!NoticeDue(n, jobsClock) /\ notices[n].at <= jobsClock}
          IN  /\ notices' = [n \in Restarts!Notices |->
                               IF n \in ids THEN [notices[n] EXCEPT !.status = "delivering"]
                               ELSE IF /\ notices[n].status \in Restarts!Pending
                                       /\ ~Restarts!NoticeDue(n, jobsClock)
                                    THEN [notices[n] EXCEPT !.status = "expired"]
                                    ELSE notices[n]]
              /\ worker' = [worker EXCEPT !.pc = "restarts", !.now = jobsClock, !.notices = ids]
    BY DEF Restarts!PollNotices
  <2>2. PICK ids : ids = soon \cup {n \in Restarts!Notices :
                           Restarts!NoticeDue(n, jobsClock) /\ notices[n].at <= jobsClock}
    OBVIOUS
  <2>3. /\ ids \subseteq Jobs \cup Standalone
        /\ \A n \in ids : notices[n].status \in {"scheduled", "delivering"}
    BY <2>2 DEF Restarts!Notices, Restarts!NoticeDue, Restarts!Pending
  <2>4. worker' = [worker EXCEPT !.pc = "restarts", !.now = jobsClock, !.notices = ids]
    BY <2>1, <2>2
  <2>5. notices' = [n \in Jobs \cup Standalone |->
                      IF n \in ids THEN [notices[n] EXCEPT !.status = "delivering"]
                      ELSE IF /\ notices[n].status \in {"scheduled", "delivering"}
                              /\ ~Restarts!NoticeDue(n, jobsClock)
                           THEN [notices[n] EXCEPT !.status = "expired"]
                           ELSE notices[n]]
    BY <2>1, <2>2 DEF Restarts!Notices, Restarts!Pending
  <2> QED  BY <2>3, <2>4, <2>5
<1>3. ASSUME NEW n \in Jobs \cup Standalone
      PROVE  \/ notices'[n] = notices[n]
             \/ /\ notices[n].status \in {"scheduled", "delivering"}
                /\ notices'[n] \in NoticeRecords /\ notices'[n].status # "none"
  <2>1. notices[n] \in NoticeRecords
    BY <1>0 DEF RestartTyped
  <2>2. \/ notices'[n] = notices[n]
        \/ /\ notices[n].status \in {"scheduled", "delivering"}
           /\ \/ notices'[n] = [notices[n] EXCEPT !.status = "delivering"]
              \/ notices'[n] = [notices[n] EXCEPT !.status = "expired"]
    BY <1>2
  <2> QED  BY <2>1, <2>2 DEF NoticeRecords
<1>4. notices' = [n \in Jobs \cup Standalone |-> notices'[n]]
  BY <1>2
<1>5. /\ notices' \in [Jobs \cup Standalone -> NoticeRecords] /\ NoticesMove(notices, notices')
      /\ \A n \in Jobs \cup Standalone : notices'[n].status = "none" <=> notices[n].status = "none"
  BY <1>0, <1>3, <1>4, NoticesChange
<1>6. worker \in WorkerStates /\ jobsClock \in 0..LastTime /\ jobsClock \in Nat
  BY <1>0, RestartConstantsHold DEF RestartTyped, RestartConstants
<1>7. /\ worker' \in WorkerStates /\ worker'.now = jobsClock
      /\ worker'.pc = "restarts" /\ worker'.job = worker.job /\ worker'.jobs = worker.jobs
  BY <1>2, <1>6 DEF WorkerStates
<1>8. Alone => WorkerSound(worker', jobs)
  BY <1>0, <1>1, <1>7 DEF JobsInOrder, WorkerSound
<1>9. /\ worker'.pc # "poll" => worker'.now <= jobsClock
      /\ worker'.job # None => worker'.job \in taken
      /\ \A d \in worker'.jobs : d.id \in taken
  BY <1>0, <1>6, <1>7 DEF IdsAreTaken
<1> HIDE <1>2
<1> QED  BY <1>1, <1>5, <1>7, <1>8, <1>9, WorkerReads

LEMMA WorkerDelivers ==
    ASSUME RestartInv, NEW n \in Jobs \cup Standalone, Restarts!Deliver(n)
    PROVE  RestartInv' /\ RestartMoves
<1>0. RestartTyped /\ IdsAreTaken /\ JobsInOrder
  BY DEF RestartInv
<1>1. /\ worker.pc = "deliver"
      /\ jobs' = jobs /\ held' = held /\ view' = view /\ resume' = resume
      /\ checkpoint' = checkpoint /\ armed' = armed /\ taken' = taken
      /\ jobsClock' = jobsClock /\ deaths' = deaths /\ boots' = boots /\ handler' = handler
  BY DEF Restarts!Deliver, Restarts!file, Restarts!host, Restarts!log
<1>2. worker \in WorkerStates /\ notices \in [Jobs \cup Standalone -> NoticeRecords]
  BY <1>0 DEF RestartTyped
<1>3. worker' = [worker EXCEPT !.notices = worker.notices \ {n}]
  BY DEF Restarts!Deliver
<1>4. /\ worker' \in WorkerStates /\ worker'.now = worker.now
      /\ worker'.pc = "deliver" /\ worker'.job = worker.job /\ worker'.jobs = worker.jobs
      /\ worker'.deferred = worker.deferred
  BY <1>1, <1>2, <1>3 DEF WorkerStates
<1>5. PICK after \in {"scheduled", "sent", "failed"} :
        notices' = [notices EXCEPT ![n] =
            IF ~(notices[n].status \in {"scheduled", "delivering"}) THEN notices[n]
            ELSE IF jobsClock >= notices[n].at
                 THEN [notices[n] EXCEPT !.final = TRUE, !.status = "expired"]
                 ELSE [notices[n] EXCEPT !.status = after]]
  BY DEF Restarts!Deliver, Restarts!Recordable, Restarts!Pending
<1>6. ASSUME NEW m \in Jobs \cup Standalone
      PROVE  \/ notices'[m] = notices[m]
             \/ /\ notices[m].status \in {"scheduled", "delivering"}
                /\ notices'[m] \in NoticeRecords /\ notices'[m].status # "none"
  <2>1. notices[m] \in NoticeRecords
    BY <1>2
  <2>2. \/ notices'[m] = notices[m]
        \/ /\ notices[m].status \in {"scheduled", "delivering"}
           /\ \/ notices'[m] = [notices[m] EXCEPT !.final = TRUE, !.status = "expired"]
              \/ notices'[m] = [notices[m] EXCEPT !.status = after]
    BY <1>2, <1>5
  <2> QED  BY <2>1, <2>2 DEF NoticeRecords
<1>7. notices' = [m \in Jobs \cup Standalone |-> notices'[m]]
  BY <1>2, <1>5
<1>8. /\ notices' \in [Jobs \cup Standalone -> NoticeRecords] /\ NoticesMove(notices, notices')
      /\ \A m \in Jobs \cup Standalone : notices'[m].status = "none" <=> notices[m].status = "none"
  BY <1>0, <1>6, <1>7, NoticesChange
<1>9. Alone => WorkerSound(worker', jobs)
  BY <1>0, <1>1, <1>4 DEF JobsInOrder, WorkerSound
<1>10. /\ worker'.pc # "poll" => worker'.now <= jobsClock
       /\ worker'.job # None => worker'.job \in taken
       /\ \A d \in worker'.jobs : d.id \in taken
  BY <1>0, <1>1, <1>4 DEF IdsAreTaken, RestartTyped
<1> HIDE <1>3, <1>5
<1> QED  BY <1>1, <1>4, <1>8, <1>9, <1>10, WorkerReads

LEMMA WorkerTurns ==
    ASSUME RestartInv, Restarts!Turn
    PROVE  RestartInv' /\ RestartMoves
<1>0. RestartTyped /\ IdsAreTaken /\ JobsInOrder
  BY DEF RestartInv
<1>1. /\ worker.pc = "deliver" /\ worker.job = None
      /\ jobs' = jobs /\ held' = held /\ view' = view /\ resume' = resume
      /\ checkpoint' = checkpoint /\ armed' = armed /\ taken' = taken
      /\ jobsClock' = jobsClock /\ deaths' = deaths /\ boots' = boots /\ handler' = handler
      /\ notices' = notices
  BY DEF Restarts!Turn, Restarts!file, Restarts!host, Restarts!log
<1>2. \/ worker' = Restarts!FreshWorker
      \/ \E job \in worker.jobs :
           worker' = [worker EXCEPT !.pc = "execute", !.job = job.id, !.execute = job.execute,
                                    !.jobs = worker.jobs \ {job}]
  BY DEF Restarts!Turn
<1>3. worker \in WorkerStates
  BY <1>0 DEF RestartTyped
<1>4. /\ worker' \in WorkerStates
      /\ worker'.pc # "poll" => worker'.now <= jobsClock
      /\ worker'.job # None => worker'.job \in taken
      /\ \A d \in worker'.jobs : d.id \in taken
      /\ Alone => WorkerSound(worker', jobs)
  <2>1. CASE worker' = Restarts!FreshWorker
    BY <2>1, NothingScheduled DEF WorkerSound
  <2>2. CASE worker' # Restarts!FreshWorker
    <3>0. PICK job \in worker.jobs :
            worker' = [worker EXCEPT !.pc = "execute", !.job = job.id, !.execute = job.execute,
                                     !.jobs = worker.jobs \ {job}]
      BY <1>2, <2>2
    <3>1. job.id \in Jobs /\ job.execute \in BOOLEAN /\ job.id \in taken
      BY <1>0, <1>3 DEF WorkerStates, IdsAreTaken
    <3>2. /\ worker' \in WorkerStates /\ worker'.pc = "execute" /\ worker'.job = job.id
          /\ worker'.jobs = worker.jobs \ {job} /\ worker'.now = worker.now
      BY <1>3, <3>0, <3>1 DEF WorkerStates
    <3>3. worker'.now <= jobsClock /\ \A d \in worker'.jobs : d.id \in taken
      BY <1>0, <1>1, <3>2 DEF RestartTyped, IdsAreTaken
    <3>4. ASSUME Alone PROVE WorkerSound(worker', jobs)
      <4>1. WorkerSound(worker, jobs)
        BY <1>0, <3>4 DEF JobsInOrder
      <4>2. jobs[job.id].status = "executing" /\ worker'.jobs = {}
        BY <3>2, <4>1 DEF WorkerSound
      <4> QED  BY <3>2, <4>2 DEF WorkerSound
    <3> HIDE <3>0
    <3> QED  BY <3>1, <3>2, <3>3, <3>4
  <2> QED  BY <2>1, <2>2
<1>5. notices' \in [Jobs \cup Standalone -> NoticeRecords] /\ NoticesMove(notices, notices')
  BY <1>0, <1>1 DEF RestartTyped, NoticesMove
<1> HIDE <1>2
<1> QED  BY <1>1, <1>4, <1>5, WorkerReads

LEMMA WorkerMoves ==
    ASSUME RestartInv,
           \/ Restarts!DryRun \/ Restarts!Busy \/ Restarts!FailEarly \/ Restarts!StopFarm
           \/ Restarts!EndRun \/ Restarts!UpdateApplied \/ Restarts!RequestRefused
    PROVE  RestartInv' /\ RestartMoves
<1>0. RestartTyped /\ IdsAreTaken /\ JobsInOrder
  BY DEF RestartInv
<1>1. /\ worker.pc # "poll" /\ worker.job # None
      /\ jobs' = jobs /\ held' = held /\ view' = view /\ resume' = resume
      /\ checkpoint' = checkpoint /\ armed' = armed /\ taken' = taken
      /\ jobsClock' = jobsClock /\ deaths' = deaths /\ boots' = boots /\ handler' = handler
      /\ notices' = notices
  BY DEF Restarts!DryRun, Restarts!Busy, Restarts!FailEarly, Restarts!StopFarm, Restarts!EndRun,
         Restarts!UpdateApplied, Restarts!RequestRefused, Restarts!At, Restarts!Elsewhere,
         Restarts!file, Restarts!host, Restarts!log
<1>2. PICK pc \in {"settle", "defer", "stopped", "await", "unawait"}, ok \in BOOLEAN :
         /\ worker' = [worker EXCEPT !.pc = pc, !.ok = ok]
         /\ \/ worker.pc \in {"execute", "stopped"} /\ pc \in {"settle", "defer", "stopped", "await"}
            \/ worker.pc = "request" /\ pc = "unawait"
  <2>1. CASE Restarts!EndRun
    BY <2>1 DEF Restarts!EndRun, Restarts!At, Restarts!Move
  <2>2. CASE ~Restarts!EndRun
    BY <2>2 DEF Restarts!DryRun, Restarts!Busy, Restarts!FailEarly, Restarts!StopFarm,
         Restarts!UpdateApplied, Restarts!RequestRefused, Restarts!At, Restarts!Move
  <2> QED  BY <2>1, <2>2
<1>3. worker \in WorkerStates
  BY <1>0 DEF RestartTyped
<1>4. /\ worker' \in WorkerStates /\ worker'.pc = pc /\ worker'.job = worker.job
      /\ worker'.jobs = worker.jobs /\ worker'.now = worker.now
      /\ worker'.deferred = worker.deferred
  BY <1>2, <1>3 DEF WorkerStates
<1>5. /\ worker'.pc # "poll" => worker'.now <= jobsClock
      /\ worker'.job # None => worker'.job \in taken
      /\ \A d \in worker'.jobs : d.id \in taken
  BY <1>0, <1>1, <1>4 DEF RestartTyped, IdsAreTaken
<1>6. ASSUME Alone PROVE WorkerSound(worker', jobs)
  <2>1. WorkerSound(worker, jobs)
    BY <1>0, <1>6 DEF JobsInOrder
  <2>2. CASE worker.pc \in {"execute", "stopped"}
    <3>1. jobs[worker.job].status = "executing" /\ pc \in {"settle", "defer", "stopped", "await"}
      BY <1>1, <1>2, <2>1, <2>2 DEF WorkerSound
    <3> QED  BY <1>4, <2>1, <3>1 DEF WorkerSound
  <2>3. CASE worker.pc = "request"
    <3>1. jobs[worker.job].status = "awaiting_reboot" /\ pc = "unawait"
      BY <1>1, <1>2, <2>1, <2>3 DEF WorkerSound
    <3> QED  BY <1>4, <2>1, <3>1 DEF WorkerSound
  <2> QED  BY <1>2, <2>2, <2>3
<1>7. notices' \in [Jobs \cup Standalone -> NoticeRecords] /\ NoticesMove(notices, notices')
  BY <1>0, <1>1 DEF RestartTyped, NoticesMove
<1> HIDE <1>2
<1> QED  BY <1>1, <1>4, <1>5, <1>6, <1>7, WorkerReads

(* The worker: what it writes to the file of jobs. *)
LEMMA WorkerWrites ==
    ASSUME RestartInv,
           held = "worker", held' = None, view' = [j \in Jobs |-> Restarts!NoJob],
           notices' = notices, resume' = resume, checkpoint' = checkpoint, taken' = taken,
           armed' = armed, jobsClock' = jobsClock, deaths' = deaths, boots' = boots,
           handler' = handler,
           jobs' = [j \in Jobs |-> jobs'[j]],
           \A j \in Jobs : /\ jobs'[j] \in JobRecords
                           /\ jobs'[j].status # "none" => j \in taken
                           /\ Alone => JobChanges(jobs[j], jobs'[j], jobsClock),
           worker' \in WorkerStates, worker'.pc # "poll" => worker'.now <= jobsClock,
           worker'.job # None => worker'.job \in taken, \A d \in worker'.jobs : d.id \in taken,
           Alone => WorkerSound(worker', jobs')
    PROVE  RestartInv' /\ RestartMoves
<1>0. RestartTyped /\ IdsAreTaken /\ JobsInOrder
  BY DEF RestartInv
<1>1. held # None /\ taken \subseteq taken' /\ taken' \subseteq Jobs
  BY <1>0, RestartConstantsHold DEF RestartTyped, RestartConstants
<1>2. jobs' \in JobFiles
  BY DEF JobFiles
<1>3. handler' \in [Handlers -> RequestStates]
  BY <1>0 DEF RestartTyped
<1>4. AnnouncedOnce'
  BY <1>1, <1>3, AnnouncedKept
<1>5. ASSUME Alone PROVE JobsSound(jobs', jobsClock) /\ JobsMove(jobs, jobs')
  <2>1. JobsSound(jobs, jobsClock) /\ jobs \in JobFiles
    BY <1>0, <1>5 DEF JobsInOrder, RestartTyped
  <2>2. jobsClock \in Nat
    BY <1>0, RestartConstantsHold DEF RestartTyped, RestartConstants
  <2>3. PICK now \in Nat : now = jobsClock
    BY <2>2
  <2>4. \A j \in Jobs : JobChanges(jobs[j], jobs'[j], now)
    BY <1>5, <2>3
  <2> QED  BY <2>1, <2>3, <2>4, JobsChange
<1> QED  BY <1>1, <1>2, <1>3, <1>4, <1>5, JobsWritten

LEMMA StatusSet ==
    ASSUME NEW f \in JobFiles, NEW j \in Jobs, NEW s \in JobStatuses
    PROVE  /\ Restarts!SetStatus(f, j, s) \in JobFiles
           /\ \A k \in Jobs : k # j => Restarts!SetStatus(f, j, s)[k] = f[k]
           /\ Restarts!SetStatus(f, j, s)[j].status = IF f[j].status = "none" THEN "none" ELSE s
           /\ Restarts!SetStatus(f, j, s)[j].daily = f[j].daily
           /\ Restarts!SetStatus(f, j, s)[j].runAt = f[j].runAt
           /\ f[j].status = s => Restarts!SetStatus(f, j, s) = f
<1>1. f[j] \in JobRecords
  BY DEF JobFiles
<1>2. PICK t \in JobStatuses : t = IF f[j].status = "none" THEN "none" ELSE s
  BY DEF JobStatuses
<1>3. Restarts!SetStatus(f, j, s) = [f EXCEPT ![j] = [f[j] EXCEPT !.status = t]]
  BY <1>1, <1>2 DEF Restarts!SetStatus, JobFiles, JobRecords
<1>4. PICK r : r = [f[j] EXCEPT !.status = t]
  OBVIOUS
<1>5. /\ r \in JobRecords /\ r.status = t /\ r.daily = f[j].daily /\ r.runAt = f[j].runAt
      /\ f[j].status = t => r = f[j]
  BY <1>1, <1>4 DEF JobRecords
<1>6. f[j].status = s => t = s
  BY <1>2
<1>7. Restarts!SetStatus(f, j, s) = [f EXCEPT ![j] = r]
  BY <1>3, <1>4
<1> HIDE <1>3, <1>4
<1> QED  BY <1>2, <1>5, <1>6, <1>7 DEF JobFiles

LEMMA WorkerWritesOne ==
    ASSUME RestartInv, worker.job # None, worker.pc # "poll",
           held = "worker", held' = None, view' = [j \in Jobs |-> Restarts!NoJob],
           notices' = notices, resume' = resume, checkpoint' = checkpoint, taken' = taken,
           armed' = armed, jobsClock' = jobsClock, deaths' = deaths, boots' = boots,
           handler' = handler,
           jobs' = [j \in Jobs |-> jobs'[j]],
           \A j \in Jobs : j # worker.job => jobs'[j] = view[j],
           jobs'[worker.job] \in JobRecords,
           view[worker.job].status = "none" => jobs'[worker.job].status = "none",
           worker.pc \notin {"poll", "restarts"},
           Alone => /\ view = jobs
                    /\ JobChanges(view[worker.job], jobs'[worker.job], jobsClock)
                    /\ worker'.job # None =>
                          \/ worker'.pc = "request" /\ jobs'[worker.job].status = "awaiting_reboot"
                          \/ worker'.pc = "settle" /\ jobs'[worker.job].status = "executing",
           worker' \in WorkerStates, worker'.now = worker.now, worker'.jobs = worker.jobs,
           worker'.pc \notin {"poll", "restarts"}, worker'.job \in {worker.job, None}
    PROVE  RestartInv' /\ RestartMoves
<1>0. RestartTyped /\ IdsAreTaken /\ JobsInOrder
  BY DEF RestartInv
<1>1. worker.job \in Jobs /\ worker.job \in taken
  BY <1>0 DEF RestartTyped, WorkerStates, IdsAreTaken
<1>2. ASSUME NEW j \in Jobs
      PROVE  /\ jobs'[j] \in JobRecords
             /\ jobs'[j].status # "none" => j \in taken
             /\ Alone => JobChanges(jobs[j], jobs'[j], jobsClock)
  <2>1. view[j] \in JobRecords
    BY <1>0 DEF RestartTyped, JobFiles
  <2>2. CASE j = worker.job
    BY <1>1, <2>2
  <2>3. CASE j # worker.job
    BY <1>0, <2>1, <2>3 DEF IdsAreTaken, JobChanges
  <2> QED  BY <2>2, <2>3
<1>3. /\ worker'.pc # "poll" => worker'.now <= jobsClock
      /\ worker'.job # None => worker'.job \in taken
      /\ \A d \in worker'.jobs : d.id \in taken
  BY <1>0, <1>1 DEF RestartTyped, IdsAreTaken
<1>4. ASSUME Alone PROVE WorkerSound(worker', jobs')
  <2>1. WorkerSound(worker, jobs) /\ view = jobs
    BY <1>0, <1>4 DEF JobsInOrder
  <2>2. \A d \in worker.jobs : d.id \in Jobs /\ d.id # worker.job
    BY <1>0, <2>1 DEF RestartTyped, WorkerStates, WorkerSound
  <2>3. ASSUME NEW d \in worker'.jobs
        PROVE  jobs'[d.id].status = "executing" /\ d.id # worker'.job
    BY <2>1, <2>2, RestartConstantsHold DEF WorkerSound, RestartConstants
  <2>4. \A d, e \in worker'.jobs : d = e
    BY <2>1 DEF WorkerSound
  <2>5. worker'.job # None =>
          \/ worker'.pc = "request" /\ jobs'[worker'.job].status = "awaiting_reboot"
          \/ worker'.pc = "settle" /\ jobs'[worker'.job].status = "executing"
    BY <1>4
  <2> QED  BY <2>3, <2>4, <2>5 DEF WorkerSound
<1> QED  BY <1>2, <1>3, <1>4, WorkerWrites

LEMMA WorkerMarks ==
    ASSUME RestartInv, Restarts!MarkAwaiting \/ Restarts!MarkExecuting
    PROVE  RestartInv' /\ RestartMoves
<1>0. RestartTyped /\ IdsAreTaken /\ JobsInOrder
  BY DEF RestartInv
<1>1. PICK s \in {"awaiting_reboot", "executing"} :
        /\ jobs' = Restarts!SetStatus(view, worker.job, s)
        /\ \/ /\ s = "awaiting_reboot" /\ worker.pc = "await"
              /\ worker' = [worker EXCEPT !.pc = "request", !.ok = FALSE]
           \/ /\ s = "executing" /\ worker.pc = "unawait"
              /\ worker' = [worker EXCEPT !.pc = "settle", !.ok = FALSE, !.deferred = TRUE]
  BY DEF Restarts!MarkAwaiting, Restarts!MarkExecuting, Restarts!WriteJobs, Restarts!Move,
         Restarts!At
<1>2. /\ worker.job # None /\ worker.pc \in {"await", "unawait"}
      /\ held = "worker" /\ held' = None /\ view' = [j \in Jobs |-> Restarts!NoJob]
      /\ notices' = notices /\ resume' = resume /\ checkpoint' = checkpoint /\ taken' = taken
      /\ armed' = armed /\ jobsClock' = jobsClock /\ deaths' = deaths /\ boots' = boots
      /\ handler' = handler
  BY DEF Restarts!MarkAwaiting, Restarts!MarkExecuting, Restarts!WriteJobs,
         Restarts!AnnouncementWorker, Restarts!At, Restarts!host, Restarts!log
<1>3. worker \in WorkerStates /\ worker.job \in Jobs /\ view \in JobFiles
  BY <1>0, <1>2 DEF RestartTyped, WorkerStates
<1>4. /\ worker' \in WorkerStates /\ worker'.now = worker.now /\ worker'.jobs = worker.jobs
      /\ worker'.job = worker.job
      /\ \/ s = "awaiting_reboot" /\ worker.pc = "await" /\ worker'.pc = "request"
         \/ s = "executing" /\ worker.pc = "unawait" /\ worker'.pc = "settle"
  BY <1>1, <1>3 DEF WorkerStates
<1>5. s \in JobStatuses
  BY DEF JobStatuses
<1>6. /\ jobs' \in JobFiles
      /\ \A j \in Jobs : j # worker.job => jobs'[j] = view[j]
      /\ jobs'[worker.job].status = IF view[worker.job].status = "none" THEN "none" ELSE s
      /\ jobs'[worker.job].daily = view[worker.job].daily
      /\ jobs'[worker.job].runAt = view[worker.job].runAt
  BY <1>1, <1>3, <1>5, StatusSet
<1>7. jobs' = [j \in Jobs |-> jobs'[j]] /\ jobs'[worker.job] \in JobRecords
  BY <1>3, <1>6 DEF JobFiles
<1>8. ASSUME Alone
      PROVE  /\ view = jobs
             /\ JobChanges(view[worker.job], jobs'[worker.job], jobsClock)
             /\ \/ worker'.pc = "request" /\ jobs'[worker.job].status = "awaiting_reboot"
                \/ worker'.pc = "settle" /\ jobs'[worker.job].status = "executing"
  <2>1. view = jobs /\ WorkerSound(worker, jobs)
    BY <1>0, <1>2, <1>8, RestartConstantsHold DEF JobsInOrder, RestartConstants
  <2>2. view[worker.job].status \in {"executing", "awaiting_reboot"}
    BY <1>2, <2>1 DEF WorkerSound
  <2>3. jobs'[worker.job].status = s
    BY <1>6, <2>2
  <2> HIDE <1>1
  <2> QED  BY <1>4, <1>6, <1>7, <2>1, <2>2, <2>3 DEF JobChanges
<1> HIDE <1>1
<1> QED  BY <1>2, <1>4, <1>6, <1>7, <1>8, WorkerWritesOne

LEMMA WorkerSettles ==
    ASSUME RestartInv, Restarts!Settle \/ Restarts!Defer
    PROVE  RestartInv' /\ RestartMoves
<1>0. RestartTyped /\ IdsAreTaken /\ JobsInOrder
  BY DEF RestartInv
<1>1. PICK r : /\ jobs' = [j \in Jobs |-> IF j = worker.job THEN r ELSE view[j]]
               /\ \/ worker.pc = "settle" /\ r = Restarts!Settled(worker.job)
                  \/ worker.pc = "defer" /\ r = Restarts!Deferred(worker.job)
  BY DEF Restarts!Settle, Restarts!Defer, Restarts!WriteJobs, Restarts!At
<1>2. /\ worker.job # None /\ worker.pc \in {"settle", "defer"}
      /\ held = "worker" /\ held' = None /\ view' = [j \in Jobs |-> Restarts!NoJob]
      /\ notices' = notices /\ resume' = resume /\ checkpoint' = checkpoint /\ taken' = taken
      /\ armed' = armed /\ jobsClock' = jobsClock /\ deaths' = deaths /\ boots' = boots
      /\ handler' = handler /\ worker' = Restarts!NextJob
  BY DEF Restarts!Settle, Restarts!Defer, Restarts!WriteJobs, Restarts!AnnouncementWorker,
         Restarts!At, Restarts!host, Restarts!log
<1>3. worker \in WorkerStates /\ worker.job \in Jobs /\ view \in JobFiles
  BY <1>0, <1>2 DEF RestartTyped, WorkerStates
<1>4. /\ worker' \in WorkerStates /\ worker'.now = worker.now /\ worker'.jobs = worker.jobs
      /\ worker'.job = None /\ worker'.pc = "deliver"
  BY <1>2, <1>3 DEF WorkerStates, Restarts!NextJob
<1>5. view[worker.job] \in JobRecords
  BY <1>3 DEF JobFiles
<1>6. jobsClock \in Nat /\ jobsClock + RetryDelay \in 0..(LastTime + RetryDelay)
      /\ jobsClock + RetryDelay >= jobsClock
  BY <1>0, RestartConstantsHold DEF RestartTyped, RestartConstants
<1>7. /\ r \in JobRecords /\ JobChanges(view[worker.job], r, jobsClock)
      /\ view[worker.job].status = "none" => r.status = "none"
  <2>1. CASE r = view[worker.job]
    BY <1>5, <2>1 DEF JobChanges
  <2>2. CASE /\ r # view[worker.job] /\ worker.pc = "settle"
             /\ r = Restarts!Settled(worker.job)
    <3>1. PICK s \in {"executed", "failed"} :
            /\ r = [view[worker.job] EXCEPT !.status = s]
            /\ view[worker.job].status \in {"executing", "awaiting_reboot"}
      BY <2>2 DEF Restarts!Settled, Restarts!InFlight
    <3> QED  BY <1>5, <3>1 DEF JobChanges, JobRecords, JobStatuses
  <2>3. CASE /\ r # view[worker.job] /\ worker.pc = "defer"
             /\ r = Restarts!Deferred(worker.job)
    <3>1. PICK at \in 0..(LastTime + RetryDelay) : at = jobsClock + RetryDelay
      BY <1>6
    <3>2. /\ r = [view[worker.job] EXCEPT !.status = "scheduled", !.runAt = at, !.deferred = TRUE]
          /\ view[worker.job].status = "executing"
      BY <2>3, <3>1 DEF Restarts!Deferred
    <3>3. /\ r \in JobRecords /\ r.status = "scheduled" /\ r.runAt = at
          /\ r.daily = view[worker.job].daily
      BY <1>5, <3>2 DEF JobRecords, JobStatuses
    <3>4. at >= jobsClock
      BY <1>6, <3>1
    <3> HIDE <2>3
    <3> QED  BY <3>2, <3>3, <3>4 DEF JobChanges
  <2> QED  BY <1>1, <2>1, <2>2, <2>3
<1>8. /\ jobs' = [j \in Jobs |-> jobs'[j]] /\ jobs'[worker.job] = r
      /\ \A j \in Jobs : j # worker.job => jobs'[j] = view[j]
  BY <1>1, <1>3
<1>9. Alone => view = jobs
  BY <1>0, <1>2, RestartConstantsHold DEF JobsInOrder, RestartConstants
<1> HIDE <1>1
<1> QED  BY <1>2, <1>4, <1>7, <1>8, <1>9, WorkerWritesOne

LEMMA WorkerTakes ==
    ASSUME RestartInv, Restarts!PollRestarts
    PROVE  RestartInv' /\ RestartMoves
<1>0. RestartTyped /\ IdsAreTaken /\ JobsInOrder
  BY DEF RestartInv
<1>1. PICK ids : ids = {j \in Jobs : Restarts!RestartDue(j)}
  OBVIOUS
<1>2. /\ ids \subseteq Jobs
      /\ \A j \in ids : /\ view[j].status \in {"scheduled", "executing"}
                        /\ view[j].runAt <= worker.now
  BY <1>1 DEF Restarts!RestartDue, Restarts!Active, Restarts!InFlight
<1>3. jobs' = [j \in Jobs |-> IF j \in ids THEN [view[j] EXCEPT !.status = "executing"] ELSE view[j]]
  BY <1>1 DEF Restarts!PollRestarts, Restarts!WriteJobs
<1>4. worker' = [worker EXCEPT !.pc = "deliver",
                               !.jobs = {[id |-> j, execute |-> view[j].execute] : j \in ids}]
  BY <1>1 DEF Restarts!PollRestarts
<1>5. /\ worker.pc = "restarts"
      /\ held = "worker" /\ held' = None /\ view' = [j \in Jobs |-> Restarts!NoJob]
      /\ notices' = notices /\ resume' = resume /\ checkpoint' = checkpoint /\ taken' = taken
      /\ armed' = armed /\ jobsClock' = jobsClock /\ deaths' = deaths /\ boots' = boots
      /\ handler' = handler
  BY DEF Restarts!PollRestarts, Restarts!WriteJobs, Restarts!AnnouncementWorker, Restarts!host,
         Restarts!log
<1>6. worker \in WorkerStates /\ view \in JobFiles /\ \A j \in Jobs : view[j] \in JobRecords
  BY <1>0 DEF RestartTyped, JobFiles
<1>7. PICK mine : mine = {[id |-> j, execute |-> view[j].execute] : j \in ids}
  OBVIOUS
<1>8. mine \subseteq [id : Jobs, execute : BOOLEAN] /\ \A d \in mine : d.id \in ids
  BY <1>2, <1>6, <1>7 DEF JobRecords
<1>9. /\ worker' \in WorkerStates /\ worker'.now = worker.now /\ worker'.jobs = mine
      /\ worker'.job = worker.job /\ worker'.pc = "deliver"
  <2>1. worker' = [worker EXCEPT !.pc = "deliver", !.jobs = mine]
    BY <1>4, <1>7
  <2> HIDE <1>4
  <2> QED  BY <1>6, <1>8, <2>1 DEF WorkerStates
<1>10. worker.now \in Nat /\ jobsClock \in Nat /\ worker.now <= jobsClock
  BY <1>0, <1>5, RestartConstantsHold DEF RestartTyped, WorkerStates, RestartConstants
<1>11. ASSUME NEW j \in Jobs
       PROVE  /\ jobs'[j] \in JobRecords /\ (jobs'[j].status # "none" => j \in taken)
              /\ j \in ids => jobs'[j].status = "executing"
              /\ JobChanges(view[j], jobs'[j], jobsClock)
  <2>1. CASE j \in ids
    <3>1. jobs'[j] = [view[j] EXCEPT !.status = "executing"]
      BY <1>3, <2>1
    <3>2. /\ jobs'[j] \in JobRecords /\ jobs'[j].status = "executing"
          /\ jobs'[j].daily = view[j].daily /\ jobs'[j].runAt = view[j].runAt
      BY <1>6, <3>1 DEF JobRecords, JobStatuses
    <3>3. view[j].runAt \in Nat
      BY <1>6, RestartConstantsHold DEF JobRecords, RestartConstants
    <3>4. view[j].runAt <= jobsClock
      <4>1. PICK a \in Nat, b \in Nat, c \in Nat :
              a = view[j].runAt /\ b = worker.now /\ c = jobsClock
        BY <1>10, <3>3
      <4>2. a <= b /\ b <= c
        BY <1>2, <1>10, <2>1, <4>1
      <4>3. a <= c
        BY <4>2
      <4> QED  BY <4>1, <4>3
    <3>5. view[j].status \in {"scheduled", "executing"} /\ j \in taken
      BY <1>0, <1>2, <2>1 DEF IdsAreTaken
    <3> HIDE <3>1
    <3> QED  BY <3>2, <3>4, <3>5 DEF JobChanges
  <2>2. CASE j \notin ids
    <3>1. jobs'[j] = view[j]
      BY <1>3, <2>2
    <3> QED  BY <1>0, <1>6, <2>2, <3>1 DEF IdsAreTaken, JobChanges
  <2> QED  BY <2>1, <2>2
<1>12. Alone => view = jobs
  BY <1>0, <1>5, RestartConstantsHold DEF JobsInOrder, RestartConstants
<1>13. jobs' = [j \in Jobs |-> jobs'[j]]
  BY <1>3
<1>14. /\ worker'.pc # "poll" => worker'.now <= jobsClock
       /\ worker'.job # None => worker'.job \in taken
       /\ \A d \in worker'.jobs : d.id \in taken
  <2>1. \A j \in ids : j \in taken
    BY <1>0, <1>2 DEF IdsAreTaken
  <2> QED  BY <1>0, <1>8, <1>9, <1>10, <2>1 DEF IdsAreTaken
<1>15. ASSUME Alone PROVE WorkerSound(worker', jobs')
  <2>1. WorkerSound(worker, jobs) /\ JobsSound(jobs, jobsClock) /\ view = jobs
    BY <1>0, <1>12, <1>15 DEF JobsInOrder
  <2>2. worker.job = None
    BY <1>5, <2>1 DEF WorkerSound
  <2>3. \A i, j \in ids : i = j
    BY <1>2, <2>1 DEF JobsSound, ActiveJob
  <2>4. \A d, e \in mine : d = e
    BY <1>7, <2>3
  <2>5. \A d \in mine : jobs'[d.id].status = "executing" /\ d.id # None
    BY <1>2, <1>8, <1>11, RestartConstantsHold DEF RestartConstants
  <2> QED  BY <1>9, <2>2, <2>4, <2>5 DEF WorkerSound
<1>16. \A j \in Jobs : /\ jobs'[j] \in JobRecords /\ (jobs'[j].status # "none" => j \in taken)
                       /\ Alone => JobChanges(jobs[j], jobs'[j], jobsClock)
  BY <1>11, <1>12
<1> HIDE <1>3, <1>4
<1> QED  BY <1>5, <1>9, <1>13, <1>14, <1>15, <1>16, WorkerWrites

LEMMA WorkerReboots ==
    ASSUME RestartInv, Restarts!RequestReboot
    PROVE  RestartInv' /\ RestartMoves
<1>0. RestartTyped /\ IdsAreTaken /\ AnnouncedOnce /\ JobsInOrder
  BY DEF RestartInv
<1>1. /\ worker.pc = "request" /\ worker.job # None
      /\ checkpoint' = worker.job /\ armed' = armed \cup {worker.job}
      /\ held' = held /\ view' = view /\ notices' = notices /\ handler' = handler
      /\ taken' = taken /\ resume' = resume /\ boots' = boots /\ jobsClock' = jobsClock
      /\ deaths' = deaths
  BY DEF Restarts!RequestReboot, Restarts!At
<1>2. jobs' = Restarts!SetStatus(jobs, worker.job, "awaiting_reboot")
  BY DEF Restarts!RequestReboot
<1>3. \/ worker' = [worker EXCEPT !.pc = "settle", !.ok = TRUE, !.deferred = TRUE]
      \/ worker' = [worker EXCEPT !.pc = "unawait", !.ok = FALSE]
  BY DEF Restarts!RequestReboot, Restarts!Move
<1>4. worker \in WorkerStates /\ worker.job \in Jobs /\ worker.job \in taken /\ jobs \in JobFiles
  BY <1>0, <1>1 DEF RestartTyped, WorkerStates, IdsAreTaken
<1>5. /\ worker' \in WorkerStates /\ worker'.now = worker.now /\ worker'.jobs = worker.jobs
      /\ worker'.job = worker.job
      /\ \/ worker'.pc = "settle" /\ worker'.deferred
         \/ worker'.pc = "unawait"
  <2>1. CASE worker' = [worker EXCEPT !.pc = "settle", !.ok = TRUE, !.deferred = TRUE]
    BY <1>4, <2>1 DEF WorkerStates
  <2>2. CASE worker' = [worker EXCEPT !.pc = "unawait", !.ok = FALSE]
    BY <1>4, <2>2 DEF WorkerStates
  <2> QED  BY <1>3, <2>1, <2>2
<1>6. /\ jobs' \in JobFiles
      /\ \A j \in Jobs : jobs'[j].status # "none" => jobs[j].status # "none"
      /\ jobs[worker.job].status = "awaiting_reboot" => jobs' = jobs
  <2>1. PICK s \in JobStatuses : s = "awaiting_reboot"
    BY DEF JobStatuses
  <2>2. /\ jobs' \in JobFiles
        /\ \A k \in Jobs : k # worker.job => jobs'[k] = jobs[k]
        /\ jobs'[worker.job].status = IF jobs[worker.job].status = "none" THEN "none" ELSE s
        /\ jobs[worker.job].status = s => jobs' = jobs
    BY <1>2, <1>4, <2>1, StatusSet
  <2>3. ASSUME NEW j \in Jobs, jobs'[j].status # "none" PROVE jobs[j].status # "none"
    BY <2>2, <2>3
  <2> QED  BY <2>1, <2>2, <2>3
<1> HIDE <1>2, <1>3
<1>7. RestartTyped'
  <2>1. worker'.pc # "poll" => worker'.now <= jobsClock
    BY <1>0, <1>1, <1>5 DEF RestartTyped
  <2> QED  BY <1>0, <1>1, <1>4, <1>5, <1>6, <2>1 DEF RestartTyped
<1>8. IdsAreTaken'
  BY <1>0, <1>1, <1>5, <1>6 DEF IdsAreTaken
<1>9. AnnouncedOnce'
  BY <1>0, <1>1 DEF AnnouncedOnce
<1>10. Alone' => Alone
  BY <1>1 DEF Alone
<1>11. ASSUME Alone
       PROVE  /\ jobs' = jobs /\ JobsSound(jobs, jobsClock) /\ JobsMove(jobs, jobs')
              /\ WorkerSound(worker', jobs)
  <2>1. JobsSound(jobs, jobsClock) /\ WorkerSound(worker, jobs)
    BY <1>0, <1>11 DEF JobsInOrder
  <2>2. jobs[worker.job].status = "awaiting_reboot"
    BY <1>1, <2>1 DEF WorkerSound
  <2>3. WorkerSound(worker', jobs)
    BY <1>5, <2>1, <2>2 DEF WorkerSound
  <2>4. jobsClock \in Nat
    BY <1>0, RestartConstantsHold DEF RestartTyped, RestartConstants
  <2>5. PICK now \in Nat : now = jobsClock
    BY <2>4
  <2>6. JobsMove(jobs, jobs)
    BY <1>4, <2>1, <2>5, JobsLater
  <2> QED  BY <1>6, <2>1, <2>2, <2>3, <2>6
<1>12. JobsInOrder'
  BY <1>0, <1>1, <1>10, <1>11 DEF JobsInOrder
<1>13. NoticesMove(notices, notices')
  BY <1>1 DEF NoticesMove
<1> QED  BY <1>7, <1>8, <1>9, <1>11, <1>12, <1>13 DEF RestartInv, RestartMoves

(* Reading the file under the lock. *)
LEMMA RestartAcquires ==
    ASSUME RestartInv, NEW p \in Restarts!Panel, Restarts!Acquire(p)
    PROVE  RestartInv' /\ RestartMoves
<1>0. RestartTyped /\ IdsAreTaken /\ AnnouncedOnce /\ JobsInOrder
  BY DEF RestartInv
<1>1. /\ held' = p /\ view' = jobs /\ jobs' = jobs /\ notices' = notices /\ handler' = handler
      /\ worker' = worker /\ resume' = resume /\ checkpoint' = checkpoint /\ armed' = armed
      /\ taken' = taken /\ jobsClock' = jobsClock /\ deaths' = deaths /\ boots' = boots
  BY DEF Restarts!Acquire, Restarts!host, Restarts!log
<1>2. p \in Handlers \cup {"worker", None}
  BY DEF Restarts!Panel, Restarts!AnnouncementWorker
<1>3. RestartTyped'
  BY <1>0, <1>1, <1>2 DEF RestartTyped
<1>4. IdsAreTaken'
  BY <1>0, <1>1 DEF IdsAreTaken
<1>5. AnnouncedOnce'
  BY <1>0, <1>1 DEF AnnouncedOnce
<1>6. Alone' <=> Alone
  BY <1>1 DEF Alone
<1>7. JobsInOrder'
  BY <1>0, <1>1, <1>6 DEF JobsInOrder
<1>8. Alone => JobsMove(jobs, jobs')
  BY <1>0, <1>1 DEF JobsInOrder, JobsSound, JobsMove
<1>9. NoticesMove(notices, notices')
  BY <1>1 DEF NoticesMove
<1> QED  BY <1>3, <1>4, <1>5, <1>7, <1>8, <1>9 DEF RestartInv, RestartMoves

(* Deaths of the worker, of the panel and of the host. *)
LEMMA RestartEndsEarly ==
    ASSUME RestartInv, Restarts!WorkerDies \/ Restarts!PanelRestarts \/ Restarts!HostReboots
    PROVE  RestartInv' /\ RestartMoves
<1>0. RestartTyped /\ IdsAreTaken /\ AnnouncedOnce /\ JobsInOrder
  BY DEF RestartInv
<1>1. /\ jobs' = jobs /\ notices' = notices /\ worker' = Restarts!FreshWorker
      /\ checkpoint' = checkpoint /\ armed' = armed /\ taken' = taken /\ jobsClock' = jobsClock
  BY DEF Restarts!WorkerDies, Restarts!PanelRestarts, Restarts!HostReboots, Restarts!PanelGone,
         Restarts!host, Restarts!log
<1>2. /\ deaths' \in Nat /\ boots' \in Nat /\ (boots' = 0 => boots = 0)
  <2>1. deaths \in Nat /\ boots \in Nat
    BY <1>0 DEF RestartTyped
  <2>2. (deaths' = deaths \/ deaths' = deaths + 1) /\ (boots' = boots \/ boots' = boots + 1)
    BY DEF Restarts!WorkerDies, Restarts!PanelRestarts, Restarts!HostReboots, Restarts!host
  <2>3. \A n \in Nat : n + 1 \in Nat /\ n + 1 # 0
    OBVIOUS
  <2> QED  BY <2>1, <2>2, <2>3
<1>3. \/ held' = None /\ view' = [j \in Jobs |-> Restarts!NoJob]
      \/ held' = held /\ view' = view
  BY DEF Restarts!WorkerDies, Restarts!PanelRestarts, Restarts!HostReboots, Restarts!PanelGone
<1>4. handler' = handler \/ handler' = [h \in Handlers |-> Restarts!IdleHandler]
  BY DEF Restarts!WorkerDies, Restarts!PanelRestarts, Restarts!HostReboots, Restarts!PanelGone
<1>5. \/ resume' = resume
      \/ \E pc \in {"idle", "start"} :
            /\ resume' = [Restarts!IdleResume EXCEPT !.pc = pc, !.job = checkpoint]
            /\ checkpoint = None => pc = "idle"
  <2>1. CASE Restarts!HostReboots
    <3>1. PICK pc : pc = IF checkpoint = None THEN "idle" ELSE "start"
      OBVIOUS
    <3>2. resume' = [Restarts!IdleResume EXCEPT !.pc = pc, !.job = checkpoint]
      BY <2>1, <3>1 DEF Restarts!HostReboots
    <3> QED  BY <3>1, <3>2
  <2>2. CASE Restarts!WorkerDies \/ Restarts!PanelRestarts
    BY <2>2 DEF Restarts!WorkerDies, Restarts!PanelRestarts, Restarts!host
  <2> QED  BY <2>1, <2>2
<1>6. /\ resume' \in ResumeStates
      /\ \A j \in Jobs : resume'.seen[j].status # "none" => resume.seen[j].status # "none"
      /\ checkpoint = None /\ resume.pc = "idle" => resume'.pc = "idle"
      /\ resume' = resume \/ boots' # 0
  <2>1. checkpoint \in Jobs \cup {None}
    BY <1>0 DEF RestartTyped
  <2>2. resume' = resume \/ boots' # 0
    <3>1. boots \in Nat /\ \A n \in Nat : n + 1 # 0
      BY <1>0 DEF RestartTyped
    <3> QED  BY <3>1 DEF Restarts!WorkerDies, Restarts!PanelRestarts, Restarts!HostReboots, Restarts!host
  <2>3. CASE resume' = resume
    BY <1>0, <2>3 DEF RestartTyped
  <2>4. ASSUME NEW pc \in {"idle", "start"},
               resume' = [Restarts!IdleResume EXCEPT !.pc = pc, !.job = checkpoint],
               checkpoint = None => pc = "idle"
        PROVE  /\ resume' \in ResumeStates
               /\ \A j \in Jobs : resume'.seen[j].status = "none"
               /\ checkpoint = None => resume'.pc = "idle"
    <3>1. /\ resume' \in ResumeStates /\ resume'.pc = pc
          /\ resume'.seen = Restarts!IdleResume.seen
      BY <2>1, <2>4, NothingScheduled DEF ResumeStates
    <3>2. \A j \in Jobs : resume'.seen[j].status = "none"
      BY <3>1, NothingScheduled
    <3> QED  BY <2>4, <3>1, <3>2
  <2> QED  BY <1>5, <2>2, <2>3, <2>4
<1> HIDE <1>5
<1>7. view' \in JobFiles /\ \A j \in Jobs : view'[j].status # "none" => view[j].status # "none"
  <2>1. \A j \in Jobs : [i \in Jobs |-> Restarts!NoJob][j].status = "none"
    BY NothingScheduled
  <2> QED  BY <1>0, <1>3, <2>1, NothingScheduled DEF RestartTyped
<1>8. /\ handler' \in [Handlers -> RequestStates]
      /\ \A g \in Handlers : handler'[g].pc = "announce" => handler'[g] = handler[g]
  BY <1>0, <1>4, NothingScheduled DEF RestartTyped
<1>9. RestartTyped'
  <2>1. held' \in Handlers \cup {"worker", None}
    BY <1>0, <1>3 DEF RestartTyped
  <2> QED  BY <1>0, <1>1, <1>2, <1>6, <1>7, <1>8, <2>1, NothingScheduled DEF RestartTyped
<1>10. IdsAreTaken'
  BY <1>0, <1>1, <1>6, <1>7, NothingScheduled DEF IdsAreTaken
<1>11. AnnouncedOnce'
  BY <1>1, <1>8, AnnouncedKept
<1>12. Alone' => Alone
  BY <1>1, <1>2 DEF Alone
<1>13. JobsInOrder'
  <2>1. ASSUME Alone'
        PROVE  /\ resume'.pc = "idle" /\ (held' # None => view' = jobs)
               /\ JobsSound(jobs, jobsClock) /\ WorkerSound(worker', jobs)
    <3>1. resume.pc = "idle" /\ (held # None => view = jobs) /\ JobsSound(jobs, jobsClock)
      BY <1>0, <1>12, <2>1 DEF JobsInOrder
    <3>2. WorkerSound(worker', jobs)
      BY <1>1, NothingScheduled DEF WorkerSound
    <3>3. resume'.pc = "idle"
      <4>1. CASE boots' = 0
        BY <1>6, <3>1, <4>1
      <4>2. CASE boots' # 0
        <5>1. checkpoint = None
          BY <1>0, <1>1, <2>1, <4>2 DEF Alone, RestartTyped
        <5> QED  BY <1>6, <3>1, <5>1
      <4> QED  BY <4>1, <4>2
    <3> QED  BY <1>3, <3>1, <3>2, <3>3
  <2> QED  BY <1>1, <2>1 DEF JobsInOrder
<1>14. Alone => JobsMove(jobs, jobs')
  BY <1>0, <1>1 DEF JobsInOrder, JobsSound, JobsMove
<1>15. NoticesMove(notices, notices')
  BY <1>1 DEF NoticesMove
<1> QED  BY <1>9, <1>10, <1>11, <1>13, <1>14, <1>15 DEF RestartInv, RestartMoves

(* update-reboot-resume.sh: it runs only where the panel is not alone. *)
LEMMA RestartResumes ==
    ASSUME RestartInv, Restarts!Resume
    PROVE  RestartInv' /\ RestartMoves
<1>0. RestartTyped /\ IdsAreTaken /\ AnnouncedOnce /\ JobsInOrder
  BY DEF RestartInv
<1>1. /\ resume.pc # "idle"
      /\ held' = held /\ view' = view /\ notices' = notices /\ handler' = handler
      /\ worker' = worker /\ armed' = armed /\ taken' = taken /\ boots' = boots
      /\ jobsClock' = jobsClock /\ deaths' = deaths
      /\ checkpoint' = checkpoint \/ checkpoint' = None
  BY DEF Restarts!Resume, Restarts!ResumeStart, Restarts!ResumeRead, Restarts!ResumeWrite,
         Restarts!ResumeRemove, Restarts!ResumeStep, Restarts!log
<1>2. resume \in ResumeStates /\ jobs \in JobFiles /\ resume.seen \in JobFiles
  BY <1>0 DEF RestartTyped, ResumeStates
<1>3. jobs' \in JobFiles /\ \A j \in Jobs : jobs'[j].status # "none" => j \in taken
  <2>1. CASE jobs' = jobs
    BY <1>0, <1>2, <2>1 DEF IdsAreTaken
  <2>2. CASE jobs' # jobs
    <3>1. PICK s \in {"executed", "failed"} : jobs' = Restarts!SetStatus(resume.seen, resume.job, s)
      BY <2>2 DEF Restarts!Resume, Restarts!ResumeStart, Restarts!ResumeRead,
                  Restarts!ResumeWrite, Restarts!ResumeRemove
    <3>2. CASE resume.job \in Jobs
      <4>1. s \in JobStatuses
        BY DEF JobStatuses
      <4>2. /\ jobs' \in JobFiles
            /\ \A k \in Jobs : k # resume.job => jobs'[k] = resume.seen[k]
            /\ jobs'[resume.job].status = IF resume.seen[resume.job].status = "none" THEN "none"
                                          ELSE s
        BY <1>2, <3>1, <3>2, <4>1, StatusSet
      <4>3. \A k \in Jobs : jobs'[k].status # "none" => resume.seen[k].status # "none"
        BY <4>2
      <4> QED  BY <1>0, <4>2, <4>3 DEF IdsAreTaken
    <3>3. CASE resume.job \notin Jobs
      <4>1. jobs' = resume.seen
        BY <1>2, <3>1, <3>3 DEF Restarts!SetStatus, JobFiles
      <4> QED  BY <1>0, <1>2, <4>1 DEF IdsAreTaken
    <3> QED  BY <3>2, <3>3
  <2> QED  BY <2>1, <2>2
<1>4. /\ resume' \in ResumeStates
      /\ \A j \in Jobs : resume'.seen[j].status # "none" => j \in taken
  <2>1. CASE resume' = Restarts!IdleResume
    BY <2>1, NothingScheduled
  <2>2. CASE \E ok \in BOOLEAN : resume' = [resume EXCEPT !.pc = "read", !.ok = ok]
    <3>1. resume' \in ResumeStates /\ resume'.seen = resume.seen
      BY <1>2, <2>2 DEF ResumeStates
    <3> QED  BY <1>0, <3>1 DEF IdsAreTaken
  <2>3. CASE resume' = [resume EXCEPT !.pc = "write", !.seen = jobs]
    <3>1. resume' \in ResumeStates /\ resume'.seen = jobs
      BY <1>2, <2>3 DEF ResumeStates
    <3> QED  BY <1>0, <3>1 DEF IdsAreTaken
  <2>4. CASE resume' = [resume EXCEPT !.pc = "remove", !.seen = Restarts!IdleResume.seen]
    <3>1. PICK seen \in JobFiles : seen = Restarts!IdleResume.seen
      BY NothingScheduled
    <3>2. resume' = [resume EXCEPT !.pc = "remove", !.seen = seen]
      BY <2>4, <3>1
    <3>3. resume' \in ResumeStates /\ resume'.seen = seen
      BY <1>2, <3>2 DEF ResumeStates
    <3>4. \A j \in Jobs : seen[j].status = "none"
      BY <3>1, NothingScheduled
    <3> QED  BY <3>3, <3>4
  <2>5. \/ resume' = Restarts!IdleResume
        \/ \E ok \in BOOLEAN : resume' = [resume EXCEPT !.pc = "read", !.ok = ok]
        \/ resume' = [resume EXCEPT !.pc = "write", !.seen = jobs]
        \/ resume' = [resume EXCEPT !.pc = "remove", !.seen = Restarts!IdleResume.seen]
    BY DEF Restarts!Resume, Restarts!ResumeStart, Restarts!ResumeRead, Restarts!ResumeWrite,
           Restarts!ResumeRemove
  <2> QED  BY <2>1, <2>2, <2>3, <2>4, <2>5
<1>5. RestartTyped'
  BY <1>0, <1>1, <1>3, <1>4 DEF RestartTyped
<1>6. IdsAreTaken'
  BY <1>0, <1>1, <1>3, <1>4 DEF IdsAreTaken
<1>7. AnnouncedOnce'
  BY <1>0, <1>1 DEF AnnouncedOnce
<1>8. ~Alone /\ ~Alone'
  BY <1>0, <1>1 DEF JobsInOrder, Alone
<1>9. JobsInOrder'
  BY <1>8 DEF JobsInOrder
<1>10. NoticesMove(notices, notices')
  BY <1>1 DEF NoticesMove
<1> QED  BY <1>5, <1>6, <1>7, <1>8, <1>9, <1>10 DEF RestartInv, RestartMoves

LEMMA RestartTicks ==
    ASSUME RestartInv, Restarts!Tick
    PROVE  RestartInv' /\ RestartMoves
<1>0. RestartTyped /\ IdsAreTaken /\ AnnouncedOnce /\ JobsInOrder
  BY DEF RestartInv
<1>1. /\ jobs' = jobs /\ held' = held /\ view' = view /\ notices' = notices
      /\ handler' = handler /\ worker' = worker /\ resume' = resume /\ checkpoint' = checkpoint
      /\ armed' = armed /\ taken' = taken /\ deaths' = deaths /\ boots' = boots
      /\ jobsClock < LastTime /\ jobsClock' = jobsClock + 1
  BY DEF Restarts!Tick, Restarts!file, Restarts!host, Restarts!log
<1>2. /\ jobsClock \in Nat /\ jobsClock' \in Nat /\ jobsClock <= jobsClock'
      /\ jobsClock' \in 1..LastTime
  BY <1>0, <1>1, RestartConstantsHold DEF RestartTyped, RestartConstants
<1>3. worker'.pc # "poll" => worker'.now <= jobsClock'
  <2>1. worker.now \in Nat
    BY <1>0, RestartConstantsHold DEF RestartTyped, WorkerStates, RestartConstants
  <2>2. PICK a \in Nat, b \in Nat, c \in Nat : a = worker.now /\ b = jobsClock /\ c = jobsClock'
    BY <1>2, <2>1
  <2>3. (a <= b => a <= c)
    BY <1>2, <2>2
  <2> QED  BY <1>0, <1>1, <2>2, <2>3 DEF RestartTyped
<1>4. RestartTyped'
  BY <1>0, <1>1, <1>2, <1>3 DEF RestartTyped
<1>5. IdsAreTaken' /\ AnnouncedOnce'
  BY <1>0, <1>1 DEF IdsAreTaken, AnnouncedOnce
<1>6. Alone' <=> Alone
  BY <1>1 DEF Alone
<1>7. ASSUME Alone PROVE JobsSound(jobs, jobsClock') /\ JobsMove(jobs, jobs')
  <2>1. jobs \in JobFiles /\ JobsSound(jobs, jobsClock)
    BY <1>0, <1>7 DEF RestartTyped, JobsInOrder
  <2>2. PICK now \in Nat, later \in Nat : now = jobsClock /\ later = jobsClock'
    BY <1>2
  <2>3. now <= later
    BY <1>2, <2>2
  <2> QED  BY <1>1, <2>1, <2>2, <2>3, JobsLater
<1>8. JobsInOrder'
  BY <1>0, <1>1, <1>6, <1>7 DEF JobsInOrder
<1>9. NoticesMove(notices, notices')
  BY <1>1 DEF NoticesMove
<1> QED  BY <1>4, <1>5, <1>7, <1>8, <1>9 DEF RestartInv, RestartMoves

LEMMA RestartInvStep ==
    ASSUME RestartInv, [Restarts!Next]_(Restarts!vars)
    PROVE  RestartInv' /\ RestartMoves
<1>1. CASE UNCHANGED Restarts!vars
  <2>1. /\ jobs' = jobs /\ held' = held /\ view' = view /\ notices' = notices
        /\ handler' = handler /\ worker' = worker /\ resume' = resume /\ checkpoint' = checkpoint
        /\ armed' = armed /\ taken' = taken /\ deaths' = deaths /\ boots' = boots
        /\ jobsClock' = jobsClock
    BY <1>1 DEF Restarts!vars, Restarts!file, Restarts!host, Restarts!log
  <2>2. RestartTyped /\ IdsAreTaken /\ AnnouncedOnce /\ JobsInOrder
    BY DEF RestartInv
  <2>3. RestartTyped' /\ IdsAreTaken'
    BY <2>1, <2>2 DEF RestartTyped, IdsAreTaken
  <2>4. AnnouncedOnce'
    BY <2>1, <2>2 DEF AnnouncedOnce
  <2>5. JobsInOrder'
    BY <2>1, <2>2 DEF JobsInOrder, Alone
  <2>6. RestartMoves
    BY <2>1, <2>2 DEF RestartMoves, JobsMove, NoticesMove, JobsInOrder, JobsSound
  <2> QED  BY <2>2, <2>3, <2>4, <2>5, <2>6 DEF RestartInv
<1>2. ASSUME NEW h \in Handlers, Restarts!Request(h) PROVE RestartInv' /\ RestartMoves
  <2>1. CASE \E j \in Jobs, at \in 1..LastTime, morning, execute \in BOOLEAN, told \in Announcing :
               Restarts!ScheduleRestart(h, j, at, morning, told, execute)
    BY <2>1, RestartSchedules
  <2>2. CASE Restarts!AnnounceRestart(h)
    BY <2>2, RestartAnnounces
  <2>3. CASE \E n \in Standalone, at \in 1..LastTime : Restarts!ScheduleAnnouncement(h, n, at)
    BY <2>3, RestartCards
  <2>4. CASE \E ids \in {Restarts!Notices} \cup {{n} : n \in Restarts!Notices} :
               Restarts!CancelAnnouncement(h, ids)
    BY <2>4, RestartWithdraws
  <2>5. CASE \E ids \in {Jobs} \cup {{j} : j \in Jobs} : Restarts!CancelRestart(h, ids)
    BY <2>5, RestartCancels
  <2>6. CASE Restarts!WithdrawNotices(h)
    BY <2>6, RestartWithdraws
  <2>7. CASE Restarts!RefuseRequest(h)
    BY <2>7, RestartRefuses
  <2> QED  BY <1>2, <2>1, <2>2, <2>3, <2>4, <2>5, <2>6, <2>7 DEF Restarts!Request
<1>3. CASE Restarts!WorkerStep
  <2>1. CASE \E n \in Restarts!Notices : Restarts!Deliver(n)
    BY <2>1, WorkerDelivers DEF Restarts!Notices
  <2>2. CASE Restarts!PollNotices \/ Restarts!PollRestarts \/ Restarts!Turn
    BY <2>2, WorkerPolls, WorkerTakes, WorkerTurns
  <2>3. CASE \/ Restarts!DryRun \/ Restarts!Busy \/ Restarts!FailEarly \/ Restarts!StopFarm
             \/ Restarts!EndRun \/ Restarts!UpdateApplied \/ Restarts!RequestRefused
    BY <2>3, WorkerMoves
  <2>4. CASE Restarts!MarkAwaiting \/ Restarts!MarkExecuting
    BY <2>4, WorkerMarks
  <2>5. CASE Restarts!RequestReboot
    BY <2>5, WorkerReboots
  <2>6. CASE Restarts!Settle \/ Restarts!Defer
    BY <2>6, WorkerSettles
  <2> QED  BY <1>3, <2>1, <2>2, <2>3, <2>4, <2>5, <2>6 DEF Restarts!WorkerStep
<1>4. CASE \E p \in Restarts!Panel : Restarts!Acquire(p)
  BY <1>4, RestartAcquires
<1>5. CASE Restarts!WorkerDies \/ Restarts!PanelRestarts \/ Restarts!HostReboots
  BY <1>5, RestartEndsEarly
<1>6. CASE Restarts!Resume
  BY <1>6, RestartResumes
<1>7. CASE Restarts!Tick
  BY <1>7, RestartTicks
<1> QED  BY <1>1, <1>2, <1>3, <1>4, <1>5, <1>6, <1>7 DEF Restarts!Next

LEMMA RestartInvIsOrderly ==
    ASSUME RestartInv
    PROVE  Restarts!TypeOK /\ Restarts!OneActiveJob /\ Restarts!OneMorningRestart
<1>0. RestartTyped /\ JobsInOrder
  BY DEF RestartInv
<1>1. Restarts!TypeOK
  <2>1. jobs \in [Jobs -> [status : {"none"} \cup Restarts!Active \cup Restarts!Ended,
                           runAt : 0..(LastTime + RetryDelay), daily : BOOLEAN,
                           announce : BOOLEAN, execute : BOOLEAN, deferred : BOOLEAN]]
        /\ view \in [Jobs -> [status : {"none"} \cup Restarts!Active \cup Restarts!Ended,
                           runAt : 0..(LastTime + RetryDelay), daily : BOOLEAN,
                           announce : BOOLEAN, execute : BOOLEAN, deferred : BOOLEAN]]
    <3>1. JobStatuses = {"none"} \cup Restarts!Active \cup Restarts!Ended
      BY DEF JobStatuses, Restarts!Active, Restarts!InFlight, Restarts!Ended
    <3> QED  BY <1>0, <3>1 DEF RestartTyped, JobFiles, JobRecords
  <2>2. notices \in [Restarts!Notices ->
                       [status : {"none", "sent", "failed", "expired", "cancelled", "superseded"}
                                 \cup Restarts!Pending,
                        at : 0..LastTime, final : BOOLEAN]]
    <3>1. {"none", "sent", "failed", "expired", "cancelled", "superseded"} \cup Restarts!Pending
            = {"none", "sent", "failed", "expired", "cancelled", "superseded", "scheduled",
               "delivering"}
      BY DEF Restarts!Pending
    <3> QED  BY <1>0, <3>1 DEF RestartTyped, NoticeRecords, Restarts!Notices
  <2>3. held \in Restarts!Panel \cup {None}
    BY <1>0 DEF RestartTyped, Restarts!Panel, Restarts!AnnouncementWorker
  <2>4. handler \in [Handlers -> [pc : {"idle", "announce", "withdraw"}, ids : SUBSET Jobs,
                                  at : 0..LastTime]]
    BY <1>0 DEF RestartTyped, RequestStates
  <2>5. /\ worker.pc \in {"poll", "restarts", "deliver", "execute", "stopped", "await", "request",
                          "unawait", "settle", "defer"}
        /\ worker.notices \subseteq Restarts!Notices /\ worker.job \in Jobs \cup {None}
    BY <1>0 DEF RestartTyped, WorkerStates, Restarts!Notices
  <2>6. /\ resume.pc \in {"idle", "start", "read", "write", "remove"}
        /\ {checkpoint, resume.job} \subseteq Jobs \cup {None}
        /\ armed \subseteq taken /\ taken \subseteq Jobs
    BY <1>0 DEF RestartTyped, ResumeStates
  <2> QED  BY <2>1, <2>2, <2>3, <2>4, <2>5, <2>6 DEF Restarts!TypeOK
<1>2. Restarts!OneActiveJob
  BY <1>0 DEF JobsInOrder, Alone, JobsSound, ActiveJob, Restarts!OneActiveJob, Restarts!PanelAlone,
              Restarts!Active, Restarts!InFlight
<1>3. Restarts!OneMorningRestart
  BY <1>0 DEF JobsInOrder, Alone, JobsSound, MorningJob, ReachedJob, Restarts!OneMorningRestart,
              Restarts!PanelAlone, Restarts!Reached, Restarts!InFlight
<1> QED  BY <1>1, <1>2, <1>3

(* The restart jobs: however requests, passes of the worker, deliveries,
   deaths and restarts of the panel are interleaved, until the host reboots
   with a job handed over at most one restart is scheduled or in flight and at
   most one with the key of a morning ever runs, a repeated request replaces
   nothing, no request takes a job from the worker, what has ended stays
   ended; and a silenced notice is never sent again, whatever the host does. *)
THEOREM RestartsOrderly == Restarts!Spec => RestartsAreOrderly
<1>1. RestartInv /\ [Restarts!Next]_(Restarts!vars) => RestartInv'
  BY RestartInvStep
<1>2. Restarts!Spec => []RestartInv
  BY <1>1, RestartInvInit, PTL DEF Restarts!Spec
<1>3. RestartInv /\ [Restarts!Next]_(Restarts!vars) => RestartMoves
  BY RestartInvStep
<1>4. Restarts!Spec => Restarts!RetryKeepsTheJob
  <2>1. RestartMoves =>
          [\A j, k \in Jobs :
             /\ Restarts!PanelAlone
             /\ jobs[j].daily /\ jobs[j].status \in Restarts!Active
             /\ jobs[k].status = "none" /\ jobs'[k].daily
             => jobs'[j].status = jobs[j].status]_(Restarts!vars)
    BY DEF RestartMoves, JobsMove, Restarts!PanelAlone, Alone, ActiveJob, Restarts!Active,
           Restarts!InFlight
  <2> QED  BY <1>2, <1>3, <2>1, PTL DEF Restarts!Spec, Restarts!RetryKeepsTheJob
<1>5. Restarts!Spec => Restarts!EndedForGood
  <2>1. RestartMoves =>
          [\A j \in Jobs : Restarts!PanelAlone /\ jobs[j].status \in Restarts!Ended
                             => jobs'[j].status = jobs[j].status]_(Restarts!vars)
    BY DEF RestartMoves, JobsMove, Restarts!PanelAlone, Alone, Restarts!Ended
  <2> QED  BY <1>2, <1>3, <2>1, PTL DEF Restarts!Spec, Restarts!EndedForGood
<1>6. Restarts!Spec => Restarts!InFlightIsProtected
  <2>1. RestartMoves =>
          [\A j \in Jobs : Restarts!PanelAlone /\ jobs[j].status \in Restarts!InFlight
                             => jobs'[j].status \notin {"cancelled", "superseded"}]_(Restarts!vars)
    BY DEF RestartMoves, JobsMove, Restarts!PanelAlone, Alone, Restarts!InFlight
  <2> QED  BY <1>2, <1>3, <2>1, PTL DEF Restarts!Spec, Restarts!InFlightIsProtected
<1>7. Restarts!Spec => Restarts!SilencedStaysSilent
  <2>1. RestartMoves =>
          [\A n \in Restarts!Notices :
             notices[n].status \in {"cancelled", "superseded", "expired"}
               => notices'[n].status = notices[n].status]_(Restarts!vars)
    BY DEF RestartMoves, NoticesMove, Restarts!Notices
  <2> QED  BY <1>2, <1>3, <2>1, PTL DEF Restarts!Spec, Restarts!SilencedStaysSilent
<1>8. Restarts!Spec => [](Restarts!TypeOK /\ Restarts!OneActiveJob /\ Restarts!OneMorningRestart)
  BY <1>2, RestartInvIsOrderly, PTL
<1> QED  BY <1>4, <1>5, <1>6, <1>7, <1>8, PTL DEF RestartsAreOrderly
=============================================================================
