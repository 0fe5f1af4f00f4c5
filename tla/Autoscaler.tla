----------------------------- MODULE Autoscaler -----------------------------
(***************************************************************************)
(* The map autoscaler: a worker scans the Director's log for travel        *)
(* requests and reconciles the maps; requests of operators change modes or *)
(* ask for a map and reconcile as well.  A reconciliation takes one        *)
(* snapshot (state file, containers, players), then starts and stops maps  *)
(* one after the other, which may take minutes, and writes the state file  *)
(* at its end.  A deploy of the panel holds a marker and waits until no    *)
(* reconciliation runs.                                                    *)
(*                                                                         *)
(* Times are what is left of a lease and what has passed of an idle        *)
(* window.  Not here: the order in which the warm budget and the memory    *)
(* floor choose among optional maps (any of them may be chosen), settings, *)
(* counters, and the `enabled` switch (it is on).                          *)
(***************************************************************************)
EXTENDS Naturals, Sequences, SequencesExt

CONSTANTS
    Maps,       \* GAME_MAP_SERVICES, a sequence
    Core,       \* always-on in the selective profiles
    Actors,     \* the worker and requests
    Worker,
    Ttl,        \* demandTtlSeconds
    Retention,  \* retentionSeconds
    Clocked,    \* time passes
    ByHand,     \* maps are started outside the autoscaler
    CutShort,   \* a reconciliation may end before its write
    None

MapIds == Range(Maps)
Modes == {"always-on", "dynamic", "disabled"}

AutoscalerAssumption ==
    /\ Core \subseteq MapIds /\ Worker \in Actors /\ None \notin Actors
    /\ {Ttl, Retention} \subseteq Nat \ {0} /\ {Clocked, ByHand, CutShort} \subseteq BOOLEAN

VARIABLES
    mode,       \* state file: modes
    file,       \* state file: [demand, idle], map -> time
    mem,        \* the copy of the one who holds the lock
    steps,      \* what is left of his reconciliation: starts and stops
    lock,       \* AUTOSCALER_LOCK
    pc,         \* actor -> where it is in autoscaler_tick or _demand_tick
    flag,       \* AUTOSCALER_RUNTIME["running"]
    up,         \* map -> its container runs
    players,    \* map -> a player is on it
    travel,     \* map -> request in the Director's log: "logged", "scanned"
                \* (read, and past travelScanAt), "kept" (in demandEvents) or None
    deploy,     \* deploy-admin-panel.sh: None, "marked" or "drained"
    since,      \* history, map -> time since it was started or since a
                \* reconciliation saw a player on it
    stale,      \* history: maps whose idle window should have ended and did not
    lost        \* history: maps whose request a reconciliation read that raised

history == <<since, stale, lost>>
vars == <<mode, file, mem, steps, lock, pc, flag, up, players, travel, deploy, history>>

Empty == [demand |-> [m \in MapIds |-> 0], idle |-> [m \in MapIds |-> None]]

Init ==
    /\ mode = [m \in MapIds |-> IF m \in Core THEN "always-on" ELSE "dynamic"]
    /\ file = Empty /\ mem = Empty /\ steps = <<>>
    /\ lock = None /\ pc = [a \in Actors |-> "idle"] /\ flag = FALSE
    /\ up = [m \in MapIds |-> FALSE] /\ players = [m \in MapIds |-> FALSE]
    /\ travel = [m \in MapIds |-> None] /\ deploy = None
    /\ since = [m \in MapIds |-> 0] /\ stale = {} /\ lost = {}

-----------------------------------------------------------------------------
(* autoscaler_collect_travel_demand: what is logged and not known.         *)
Asked(collect) == {m \in MapIds : collect /\ travel[m] = "logged"}

Scanned(collect) == [m \in MapIds |-> IF m \in Asked(collect) THEN "scanned" ELSE travel[m]]

WithDemand(collect) ==
    [file EXCEPT !.demand =
        [m \in MapIds |-> IF m \in Asked(collect) /\ mode[m] = "dynamic" THEN Ttl ELSE file.demand[m]]]

(* What a reconciliation decides for a map, by its snapshot.  `s` is the   *)
(* state after the scan.                                                   *)
Demanded(s, m) == s.demand[m] > 0
Refused(m) == mode[m] = "disabled" /\ players[m]
Starts(s, m) == ~up[m] /\ (mode[m] = "always-on" \/ (mode[m] = "dynamic" /\ Demanded(s, m)))
Visited(m) == up[m] /\ players[m] /\ ~Refused(m)
Held(s, m) == up[m] /\ ~players[m] /\ (mode[m] = "always-on" \/ Demanded(s, m))
Spare(s, m) == up[m] /\ ~players[m] /\ ~Held(s, m)

Idle(s, m) == IF s.idle[m] = None THEN 0 ELSE s.idle[m]
(* Fault: an idle window that has one tick left is over. *)
Expired_Early(s, m) == Spare(s, m) /\ Idle(s, m) + 1 >= Retention
Expired(s, m) == Spare(s, m) /\ (mode[m] = "disabled" \/ Idle(s, m) >= Retention)
Optional(s) == {m \in MapIds : Spare(s, m) /\ mode[m] = "dynamic" /\ ~Expired(s, m)}

Reset(s, m) == Starts(s, m) \/ Visited(m) \/ Held(s, m)

Reconciled(s) ==
    [demand |-> [m \in MapIds |-> IF Visited(m) THEN 0 ELSE s.demand[m]],
     idle   |-> [m \in MapIds |-> IF Reset(s, m) THEN None
                                  ELSE IF Spare(s, m) THEN Idle(s, m) ELSE s.idle[m]]]

StepOf(s, evicted, m) ==
    IF Starts(s, m) THEN [map |-> m, do |-> "start", why |-> mode[m]]
    ELSE IF Expired(s, m) THEN [map |-> m, do |-> "stop", why |-> IF mode[m] = "disabled" THEN "disabled" ELSE "retention"]
    ELSE [map |-> m, do |-> "stop", why |-> "budget"]
StepsOf(s, evicted) ==
    LET acted == SelectSeq(Maps, LAMBDA m : Starts(s, m) \/ Expired(s, m) \/ m \in evicted)
    IN  [i \in DOMAIN acted |-> StepOf(s, evicted, acted[i])]

-----------------------------------------------------------------------------
(* autoscaler_tick.  The marker is looked at first, and not again.         *)
Paused(a) == deploy # None

Check(a) ==
    /\ pc[a] \in {"check", "check again"}
    /\ pc' = [pc EXCEPT ![a] = IF Paused(a) THEN "idle" ELSE IF pc[a] = "check" THEN "lock" ELSE "lock again"]
    /\ UNCHANGED <<mode, file, mem, steps, lock, flag, up, players, travel, deploy, history>>

(* "again": after a scan that found demand, without a second scan. *)
Load(a) ==
    /\ pc[a] \in {"lock", "lock again"} /\ lock = None
    /\ LET collect == pc[a] = "lock"
           s == WithDemand(collect)
       IN  /\ travel' = Scanned(collect)
           /\ mem' = Reconciled(s)
           /\ \E evicted \in SUBSET Optional(s) : steps' = StepsOf(s, evicted)
           /\ since' = [m \in MapIds |-> IF up[m] /\ players[m] THEN 0 ELSE since[m]]
    /\ lost' = lost \ Asked(pc[a] = "lock")
    /\ lock' = a /\ flag' = TRUE /\ pc' = [pc EXCEPT ![a] = "act"]
    /\ UNCHANGED <<mode, file, up, players, deploy, stale>>

(* An action that is answered `ok: False` does not end the reconciliation. *)
Acts(a, ok) ==
    /\ pc[a] = "act" /\ steps # <<>>
    /\ LET m == Head(steps).map
           starts == Head(steps).do = "start"
       IN  IF ok THEN /\ up' = [up EXCEPT ![m] = starts]
                      /\ players' = [players EXCEPT ![m] = @ /\ starts]
                      /\ since' = [since EXCEPT ![m] = IF starts THEN 0 ELSE @]
           ELSE UNCHANGED <<up, players, since>>
    /\ steps' = Tail(steps)
    /\ UNCHANGED <<mode, file, mem, lock, pc, flag, travel, deploy, stale, lost>>

Act(a) == \E ok \in BOOLEAN : Acts(a, ok)

Leaves(a) == lock' = None /\ flag' = FALSE /\ mem' = Empty /\ steps' = <<>> /\ pc' = [pc EXCEPT ![a] = "idle"]
Kept == [m \in MapIds |-> IF travel[m] = "scanned" THEN "kept" ELSE travel[m]]

(* Maps whose window the state in hand ends, and the file's does not. *)
Ended == {m \in MapIds : mem.idle[m] = None /\ file.idle[m] # None}

Write(a) ==
    /\ pc[a] = "act" /\ steps = <<>>
    /\ file' = mem /\ travel' = Kept
    /\ stale' = stale \ {m \in MapIds : mem.idle[m] = None}
    /\ Leaves(a)
    /\ UNCHANGED <<mode, up, players, deploy, since, lost>>

(* An action, a count or the write itself that raises ends the            *)
(* reconciliation: nothing is written.                                      *)
Raise(a) ==
    /\ CutShort /\ pc[a] = "act"
    /\ stale' = stale \cup Ended
    /\ lost' = lost \cup {m \in MapIds : travel[m] = "scanned"}
    /\ Leaves(a)
    /\ UNCHANGED <<mode, file, up, players, travel, deploy, since>>

(* autoscaler_demand_tick, from the log to the file under the lock. *)
Scan ==
    /\ pc[Worker] = "idle" /\ ~Paused(Worker) /\ lock = None
    /\ file' = WithDemand(TRUE)
    /\ travel' = [m \in MapIds |-> IF m \in Asked(TRUE) THEN "kept" ELSE travel[m]]
    /\ pc' = [pc EXCEPT ![Worker] = IF WithDemand(TRUE) # file THEN "check again" ELSE "idle"]
    /\ UNCHANGED <<mode, mem, steps, lock, flag, up, players, deploy, history>>

(* autoscaler_worker_iteration: the slow cadence is up. *)
ReconcileDue ==
    /\ pc[Worker] = "idle" /\ pc' = [pc EXCEPT ![Worker] = "check"]
    /\ UNCHANGED <<mode, file, mem, steps, lock, flag, up, players, travel, deploy, history>>

-----------------------------------------------------------------------------
(* autoscaler_control: the change, then a reconciliation.                  *)
Control(a) ==
    /\ a # Worker /\ pc[a] = "idle" /\ lock = None
    /\ pc' = [pc EXCEPT ![a] = "check"]
    /\ UNCHANGED <<mem, steps, lock, flag, up, players, deploy, since, lost>>

SetMode(a, m, new) ==
    /\ Control(a)
    /\ mode' = [mode EXCEPT ![m] = new]
    /\ file' = [file EXCEPT !.demand[m] = 0, !.idle[m] = None] /\ stale' = stale \ {m}
    /\ travel' = [travel EXCEPT ![m] = IF @ = "logged" THEN @ ELSE None]

Demand(a, m) ==
    /\ Control(a)
    /\ file' = [file EXCEPT !.demand[m] = Ttl]
    /\ UNCHANGED <<mode, travel, stale>>

ApplyProfile(a, new) ==
    /\ Control(a)
    /\ mode' = new /\ file' = Empty /\ stale' = {}
    /\ travel' = [m \in MapIds |-> IF travel[m] = "logged" THEN "logged" ELSE None]

FullWarm == [m \in MapIds |-> "always-on"]
Selective == [m \in MapIds |-> IF m \in Core THEN "always-on" ELSE "dynamic"]

Operate(a) ==
    \/ \E m \in MapIds : Demand(a, m) \/ \E new \in Modes : SetMode(a, m, new)
    \/ \E new \in {FullWarm, Selective} : ApplyProfile(a, new)

-----------------------------------------------------------------------------
(* Players, the Director, hands, the deploy and time.                      *)
Arrive(m) ==
    /\ up[m] /\ ~players[m]
    /\ players' = [players EXCEPT ![m] = TRUE] /\ travel' = [travel EXCEPT ![m] = None]
    /\ UNCHANGED <<mode, file, mem, steps, lock, pc, flag, up, deploy, history>>

Leave(m) ==
    /\ players[m]
    /\ players' = [players EXCEPT ![m] = FALSE]
    /\ UNCHANGED <<mode, file, mem, steps, lock, pc, flag, up, travel, deploy, history>>

(* A player wants to go to a map that does not run. *)
Travel(m) ==
    /\ travel[m] = None /\ ~up[m]
    /\ travel' = [travel EXCEPT ![m] = "logged"]
    /\ UNCHANGED <<mode, file, mem, steps, lock, pc, flag, up, players, deploy, history>>

StartByHand(m) ==
    /\ ByHand /\ ~up[m]
    /\ up' = [up EXCEPT ![m] = TRUE] /\ since' = [since EXCEPT ![m] = 0]
    /\ stale' = stale \cup ({m} \cap {w \in MapIds : {file.idle[w], mem.idle[w]} # {None}})
    /\ UNCHANGED <<mode, file, mem, steps, lock, pc, flag, players, travel, deploy, lost>>

Mark ==
    /\ deploy = None /\ deploy' = "marked"
    /\ UNCHANGED <<mode, file, mem, steps, lock, pc, flag, up, players, travel, history>>

(* wait_for_autoscaler_idle *)
Idling == ~flag

Drain ==
    /\ deploy = "marked" /\ Idling /\ deploy' = "drained"
    /\ UNCHANGED <<mode, file, mem, steps, lock, pc, flag, up, players, travel, history>>

(* The panel is recreated; the first scan of the new one reads old lines. *)
Recreate ==
    /\ deploy = "drained" /\ (lock # None => CutShort)
    /\ mem' = Empty /\ steps' = <<>> /\ lock' = None /\ flag' = FALSE
    /\ pc' = [a \in Actors |-> "idle"]
    /\ travel' = [m \in MapIds |-> IF travel[m] = "scanned" THEN "logged" ELSE travel[m]]
    /\ stale' = IF lock = None THEN stale ELSE stale \cup Ended
    /\ UNCHANGED <<mode, file, up, players, deploy, since, lost>>

Release ==
    /\ deploy # None /\ deploy' = None
    /\ UNCHANGED <<mode, file, mem, steps, lock, pc, flag, up, players, travel, history>>

Down(n) == IF n = 0 THEN 0 ELSE n - 1
Up(n) == IF n = None \/ n = Retention THEN n ELSE n + 1
Older(s) == [demand |-> [m \in MapIds |-> Down(s.demand[m])], idle |-> [m \in MapIds |-> Up(s.idle[m])]]

Clock ==
    /\ Clocked
    /\ file' = Older(file) /\ mem' = Older(mem)
    /\ since' = [m \in MapIds |-> Up(since[m])]
    /\ travel' = [m \in MapIds |-> IF travel[m] = "kept" /\ file'.demand[m] = 0 THEN None ELSE travel[m]]
    /\ UNCHANGED <<mode, steps, lock, pc, flag, up, players, deploy, stale, lost>>

TickStep(a) == Check(a) \/ Load(a) \/ Act(a) \/ Write(a) \/ Raise(a)
WorkerLoop == Scan \/ ReconcileDue
Environment ==
    \/ \E m \in MapIds : Arrive(m) \/ Leave(m) \/ Travel(m) \/ StartByHand(m)
    \/ Mark \/ Drain \/ Recreate \/ Release \/ Clock

Next == (\E a \in Actors : TickStep(a) \/ Operate(a)) \/ WorkerLoop \/ Environment

Spec == Init /\ [][Next]_vars

(* The worker's loop comes back to both cadences; starts and stops end, and *)
(* do not fail for ever; a lock that is free again and again is had; the   *)
(* deploy ends.                                                            *)
FairSpec ==
    /\ Spec
    /\ SF_vars(Scan) /\ SF_vars(ReconcileDue)
    /\ \A a \in Actors : /\ SF_vars(Check(a)) /\ SF_vars(Load(a))
                         /\ SF_vars(Acts(a, TRUE)) /\ WF_vars(Write(a))
    /\ WF_vars(Release)

-----------------------------------------------------------------------------
(* Properties.                                                             *)
(* The variables stay in their sets; the holder of the lock is in a        *)
(* reconciliation, and no one else is (AUTOSCALER_LOCK).                   *)
TypeOK ==
    /\ mode \in [MapIds -> Modes]
    /\ \A s \in {file, mem} : /\ s.demand \in [MapIds -> 0..Ttl]
                              /\ s.idle \in [MapIds -> 0..Retention \cup {None}]
    /\ lock \in Actors \cup {None}
    /\ \A a \in Actors : pc[a] = "act" <=> lock = a
    /\ flag <=> lock # None
    /\ lock = None => steps = <<>>

(* A map is stopped for its idle window only when it has been up for all   *)
(* of it and no reconciliation saw a player within it, unless the window is *)
(* stale: the map was started by hand in it, or the reconciliation that     *)
(* ended it raised or was killed and no other has ended it since.           *)
WindowEnds(m) == since[m] >= Retention
StopsAreDue ==
    \A a \in Actors : Load(a) =>
        \A i \in DOMAIN steps' : steps'[i].why = "retention" =>
            WindowEnds(steps'[i].map) \/ steps'[i].map \in stale
IdleWindowIsKept == [][StopsAreDue]_vars

(* A travel request that was read and will not be read again is in the     *)
(* state file, or in the hands of a reconciliation that is going to write  *)
(* it, unless one that had it in its hands raised                          *)
(* (autoscaler_collect_travel_demand).                                     *)
ScannedIsKept ==
    \A m \in MapIds : travel[m] = "scanned" => lock # None \/ m \in lost

(* docs/autoscaling-memory.md: "stop it after the zero-player idle window", *)
(* whoever started it and whatever raised.                                  *)
IdleWindowIsWhole ==
    [][\A a \in Actors : Load(a) =>
         \A i \in DOMAIN steps' :
             steps'[i].why = "retention" => WindowEnds(steps'[i].map)]_vars

(* Travel demand starts the map that somebody waits for, whatever raised.   *)
DemandIsRemembered == \A m \in MapIds : travel[m] = "scanned" => lock # None

(* docs/autoscaling-memory.md: "a map with an online player [...] is never *)
(* selected" for a stop; it is not stopped either.                         *)
NobodyIsCutOff == [][\A m \in MapIds : (up[m] /\ ~up'[m]) => ~players[m]]_vars

(* docs/autoscaling-memory.md: a deploy waits "for any in-flight           *)
(* autoscaler action to drain", and new ticks stay paused.                 *)
DrainedIsQuiet == deploy = "drained" => lock = None

(* A traveller's map comes up, unless an operator changes its mode, when    *)
(* deploys come to an end.                                                 *)
TravelIsServed ==
    <>[](deploy = None) => \A m \in MapIds : (travel[m] = "logged" /\ mode[m] = "dynamic") ~> (up[m] \/ mode[m] # "dynamic" \/ travel[m] = None)
=============================================================================
