---------------------------- MODULE MapWatchdog ----------------------------
(***************************************************************************)
(* The map watchdog, scripts/watch-maps.sh with scripts/recover-map.sh:    *)
(* the service loops over the maps, and one-shot passes (--once, of        *)
(* operators, the admin bot and the restart's recovery phase) do the same  *)
(* without its lock, its counts or its cooldowns.  Beside them the         *)
(* autoscaler starts and stops maps, and maintenance pauses the service    *)
(* with a marker.                                                          *)
(*                                                                         *)
(* A map's container runs one process at a time, which registers itself as *)
(* the owner of its partition and stays registered for a while after it    *)
(* ended.  A recovery marks the owner dead, stops the container, waits     *)
(* until the owner is gone and starts a new process.  Times (the startup   *)
(* grace, the cooldown) are flags that time clears.                        *)
(***************************************************************************)
EXTENDS Naturals, FiniteSets, FiniteSetsExt

CONSTANTS
    NMaps,          \* maps, numbered as a pass visits them
    Dynamic,        \* those whose mode in the autoscaler's state is dynamic
    Watchers,       \* "loop", "once"
    Confirmations,  \* degraded_confirmations
    Autoscales,     \* TRUE if the autoscaler starts and stops maps
    Late,           \* TRUE if a process may register after its grace
    Pauses,         \* TRUE if maintenance sets the marker
    MaxCrashes,     \* bound: crashes of maps
    MaxGlitches,    \* bound: lost registrations
    MaxFails,       \* bound: recoveries that end early
    MaxOnce,        \* bound: one-shot passes
    MaxOutages,     \* bound: outages of the control plane
    NIds            \* bound: server ids of a map, reused when unknown again

MapWatchdogAssumption ==
    /\ NMaps \in Nat \ {0} /\ Dynamic \subseteq 1..NMaps /\ Confirmations \in Nat \ {0}
    /\ Watchers \subseteq {"loop", "once"}
    /\ {MaxCrashes, MaxGlitches, MaxFails, MaxOnce, MaxOutages} \subseteq Nat /\ NIds \in Nat \ {0}
    /\ {Autoscales, Late, Pauses} \subseteq BOOLEAN

VARIABLES
    box,      \* map -> its container: "running", "stopping" or "exited"
    proc,     \* map -> the server id of its newest process
    owner,    \* map -> world_partition.server_id
    active,   \* map -> its ids in active_server_ids
    dead,     \* map -> ids marked dead
    young,    \* map -> within the startup grace
    count,    \* DEGRADED_COUNTS of the loop
    hot,      \* map -> within the cooldown of LAST_RECOVERY
    watch,    \* watcher -> its pass
    paused,   \* the pause marker
    plane,    \* the map-to-Postgres path works
    stopped,  \* history: map -> the autoscaler stopped it
    sight,    \* history: map -> the loop's degraded observations of it while
              \* running: since the last recovery (seen), and in a row
    bounds    \* what the bounds have left

world == <<box, proc, owner, active, dead, young>>
memory == <<count, hot>>
vars == <<world, memory, watch, paused, plane, stopped, sight, bounds>>

Maps == 1..NMaps
Ids == 1..NIds
Unseen == [seen |-> 0, row |-> 0]
Resting == [pc |-> "rest", at |-> 1, status |-> "exited", old |-> 0, why |-> Unseen]

Init ==
    /\ box = [m \in Maps |-> "running"]
    /\ proc = [m \in Maps |-> 1] /\ owner = [m \in Maps |-> 1]
    /\ active = [m \in Maps |-> {1}] /\ dead = [m \in Maps |-> {}]
    /\ young = [m \in Maps |-> FALSE]
    /\ count = [m \in Maps |-> 0] /\ hot = [m \in Maps |-> FALSE]
    /\ watch = [w \in Watchers |-> Resting]
    /\ paused = FALSE /\ plane = TRUE
    /\ stopped = [m \in Maps |-> FALSE]
    /\ sight = [m \in Maps |-> Unseen]
    /\ bounds = [crash |-> MaxCrashes, glitch |-> MaxGlitches, fail |-> MaxFails,
                 once |-> MaxOnce, outage |-> MaxOutages]

Spend(b) == bounds[b] > 0 /\ bounds' = [bounds EXCEPT ![b] = @ - 1]

-----------------------------------------------------------------------------
(* The maps. *)

Registered(m) == owner[m] = proc[m] /\ proc[m] \in active[m]

FreeIds(m) == Ids \ (active[m] \cup {proc[m], owner[m]} \cup {watch[w].old : w \in Watchers})

(* A new process in the container; its id is new. *)
Launch(m) ==
    /\ box' = [box EXCEPT ![m] = "running"]
    /\ FreeIds(m) # {}
    /\ proc' = [proc EXCEPT ![m] = Min(FreeIds(m))]
    /\ dead' = [dead EXCEPT ![m] = @ \ {Min(FreeIds(m))}]
    /\ young' = [young EXCEPT ![m] = TRUE]
    /\ UNCHANGED <<owner, active>>

Register(m) ==
    /\ box[m] = "running" /\ ~Registered(m) /\ proc[m] \notin dead[m]
    /\ owner' = [owner EXCEPT ![m] = proc[m]]
    /\ active' = [active EXCEPT ![m] = @ \cup {proc[m]}]
    /\ UNCHANGED <<box, proc, dead, young, memory, watch, paused, plane, stopped, sight, bounds>>

(* A running process loses its registration, and may register again. *)
Glitch(m) ==
    /\ box[m] = "running" /\ Registered(m) /\ Spend("glitch")
    /\ active' = [active EXCEPT ![m] = @ \ {proc[m]}]
    /\ UNCHANGED <<box, proc, owner, dead, young, memory, watch, paused, plane, stopped, sight>>

Crash(m) ==
    /\ box[m] = "running" /\ Spend("crash")
    /\ box' = [box EXCEPT ![m] = "exited"]
    /\ UNCHANGED <<proc, owner, active, dead, young, memory, watch, paused, plane, stopped, sight>>

(* Ids of processes that ended, or are marked dead, are aged out. *)
AgeOut(m) ==
    /\ \E i \in active[m] :
         /\ i # proc[m] \/ box[m] # "running" \/ i \in dead[m]
         /\ active' = [active EXCEPT ![m] = @ \ {i}]
    /\ UNCHANGED <<box, proc, owner, dead, young, memory, watch, paused, plane, stopped, sight, bounds>>

Grow(m) ==
    /\ young[m] /\ (Late \/ Registered(m) \/ box[m] # "running")
    /\ young' = [young EXCEPT ![m] = FALSE]
    /\ UNCHANGED <<box, proc, owner, active, dead, memory, watch, paused, plane, stopped, sight, bounds>>

Cool(m) ==
    /\ hot[m] /\ hot' = [hot EXCEPT ![m] = FALSE]
    /\ UNCHANGED <<world, count, watch, paused, plane, stopped, sight, bounds>>

-----------------------------------------------------------------------------
(* The autoscaler, and maintenance. *)

(* Docker's stop lasts up to half a minute, in which the container runs. *)
StopMap(m) ==
    /\ Autoscales /\ m \in Dynamic /\ box[m] = "running"
    /\ box' = [box EXCEPT ![m] = "stopping"]
    /\ stopped' = [stopped EXCEPT ![m] = TRUE]
    /\ UNCHANGED <<proc, owner, active, dead, young, memory, watch, paused, plane, sight, bounds>>

StopEnds(m) ==
    /\ box[m] = "stopping"
    /\ box' = [box EXCEPT ![m] = "exited"]
    /\ UNCHANGED <<proc, owner, active, dead, young, memory, watch, paused, plane, stopped, sight, bounds>>

StartMap(m) ==
    /\ Autoscales /\ m \in Dynamic /\ box[m] = "exited"
    /\ Launch(m)
    /\ stopped' = [stopped EXCEPT ![m] = FALSE]
    /\ UNCHANGED <<memory, watch, paused, plane, sight, bounds>>

(* map-watchdog-control.sh pause and resume. *)
Mark ==
    /\ Pauses /\ paused' = ~paused
    /\ UNCHANGED <<world, memory, watch, plane, stopped, sight, bounds>>

Outage ==
    /\ plane /\ Spend("outage") /\ plane' = FALSE
    /\ UNCHANGED <<world, memory, watch, paused, stopped, sight>>

(* By itself or by control-plane-health.sh --repair. *)
Repaired ==
    /\ ~plane /\ plane' = TRUE
    /\ UNCHANGED <<world, memory, watch, paused, stopped, sight, bounds>>

-----------------------------------------------------------------------------
(* A pass. *)

At(w, pc) == watch[w].pc = pc
M(w) == watch[w].at
Goto(w, pc) == watch' = [watch EXCEPT ![w].pc = pc]

(* To the next map, or to the end of the pass. *)
Onward(w) ==
    watch' = [watch EXCEPT ![w] = IF M(w) = NMaps THEN Resting
                                  ELSE [Resting EXCEPT !.pc = "look", !.at = M(w) + 1]]

(* The loop waits while the marker is there; a pass is not begun while the
   control plane is degraded. *)
Begin(w) ==
    /\ At(w, "rest") /\ plane
    /\ IF w = "loop" THEN ~paused /\ UNCHANGED bounds ELSE Spend("once")
    /\ Goto(w, "look")
    /\ UNCHANGED <<world, memory, paused, plane, stopped, sight>>

(* container_status *)
Look(w) ==
    /\ At(w, "look")
    /\ watch' = [watch EXCEPT ![w].pc = "judge",
                             ![w].status = IF box[M(w)] = "exited" THEN "exited" ELSE "running"]
    /\ UNCHANGED <<world, memory, paused, plane, stopped, sight, bounds>>

(* Docker, or the database, does not answer: the map is passed over. *)
Unanswered(w) ==
    /\ watch[w].pc \in {"look", "judge"}
    /\ Onward(w)
    /\ UNCHANGED <<world, memory, paused, plane, stopped, sight, bounds>>

(* Fault: the mode of the map is not looked at. *)
Managed_AnyMode(m) == Autoscales
(* autoscaler_manages_stopped_service *)
Managed(m) == Autoscales /\ m \in Dynamic

(* The restart's recovery phase sets the grace of its pass to nothing. *)
Graced(w) == w = "loop" /\ young[M(w)]
Well(m) == box[m] = "running" /\ Registered(m)

(* Fault: the grace of a running map is not observed. *)
Spared_NoGrace(w) ==
    IF watch[w].status = "exited" THEN Managed(M(w)) ELSE Well(M(w))

(* A stopped map that the autoscaler manages; a young one, and one that is
   well. *)
Spared(w) ==
    IF watch[w].status = "exited" THEN Managed(M(w)) ELSE Graced(w) \/ Well(M(w))

Sighted(m, s) == sight' = [sight EXCEPT ![m] = s]
UpTo(n) == Min({n, Confirmations})

(* Nothing to do.  That a map is well does not touch its count. *)
Spare(w) ==
    /\ At(w, "judge") /\ Spared(w)
    /\ Onward(w)
    /\ IF w = "loop" /\ watch[w].status = "running" /\ ~young[M(w)]
       THEN Sighted(M(w), [sight[M(w)] EXCEPT !.row = 0])
       ELSE UNCHANGED sight
    /\ UNCHANGED <<world, memory, paused, plane, stopped, bounds>>

Degraded(w) == At(w, "judge") /\ ~Spared(w)

(* recover_service of the loop: a cooldown, then the first sightings of a
   running map. *)
Chill(w) ==
    /\ Degraded(w) /\ w = "loop" /\ hot[M(w)]
    /\ Onward(w)
    /\ UNCHANGED <<world, memory, paused, plane, stopped, sight, bounds>>

Sighting(m) == [seen |-> UpTo(sight[m].seen + 1), row |-> UpTo(sight[m].row + 1)]

Confirm(w) ==
    /\ Degraded(w) /\ w = "loop" /\ ~hot[M(w)]
    /\ watch[w].status = "running" /\ count[M(w)] + 1 < Confirmations
    /\ count' = [count EXCEPT ![M(w)] = @ + 1]
    /\ Sighted(M(w), Sighting(M(w)))
    /\ Onward(w)
    /\ UNCHANGED <<world, hot, paused, plane, stopped, bounds>>

Due(w) ==
    \/ w = "once"
    \/ /\ ~hot[M(w)]
       /\ watch[w].status = "exited" \/ count[M(w)] + 1 >= Confirmations

Counted(m, n) == hot' = [hot EXCEPT ![m] = TRUE] /\ count' = [count EXCEPT ![m] = n]

Recover(w) ==
    /\ Degraded(w) /\ Due(w)
    /\ watch' = [watch EXCEPT ![w].pc = "mark", ![w].why = Sighting(M(w))]
    /\ IF w = "loop" THEN Counted(M(w), 0) /\ Sighted(M(w), Unseen)
       ELSE UNCHANGED <<memory, sight>>
    /\ UNCHANGED <<world, paused, plane, stopped, bounds>>

-----------------------------------------------------------------------------
(* recover-map.sh. *)

MarkDead(w) ==
    /\ At(w, "mark")
    /\ dead' = [dead EXCEPT ![M(w)] = @ \cup {owner[M(w)]}]
    /\ watch' = [watch EXCEPT ![w].pc = "stop", ![w].old = owner[M(w)]]
    /\ UNCHANGED <<box, proc, owner, active, young, memory, paused, plane, stopped, sight, bounds>>

Halt(w) ==
    /\ At(w, "stop")
    /\ box' = [box EXCEPT ![M(w)] = "exited"]
    /\ Goto(w, "wait")
    /\ UNCHANGED <<proc, owner, active, dead, young, memory, paused, plane, stopped, sight, bounds>>

Gone(w) == watch[w].old \notin active[M(w)]

Await(w) ==
    /\ At(w, "wait") /\ Gone(w)
    /\ Goto(w, "up")
    /\ UNCHANGED <<world, memory, paused, plane, stopped, sight, bounds>>

Recreate(w) ==
    /\ At(w, "up")
    /\ Launch(M(w))
    /\ Goto(w, "ready")
    /\ UNCHANGED <<memory, paused, plane, stopped, sight, bounds>>

Done(w) ==
    /\ At(w, "ready") /\ Registered(M(w))
    /\ Onward(w)
    /\ UNCHANGED <<world, memory, paused, plane, stopped, sight, bounds>>

Broken(w) == IF w = "loop" THEN Onward(w) ELSE watch' = [watch EXCEPT ![w] = Resting]

(* A dependency that is not healthy, a wait that is over, the timeout of the
   whole; the loop goes on, a one-shot pass ends. *)
Fail(w) ==
    /\ watch[w].pc \in {"mark", "stop", "wait", "up", "ready"}
    /\ Spend("fail")
    /\ Broken(w)
    /\ UNCHANGED <<world, memory, paused, plane, stopped, sight>>

(* A wait is over: the old owner is still active, or no server is ready. *)
GiveUp(w) ==
    /\ \/ At(w, "wait") /\ ~Gone(w)
       \/ At(w, "ready") /\ ~Registered(M(w))
    /\ Broken(w)
    /\ UNCHANGED <<world, memory, paused, plane, stopped, sight, bounds>>

Pass(w) ==
    \/ Begin(w) \/ Look(w) \/ Unanswered(w) \/ Spare(w) \/ Chill(w) \/ Confirm(w) \/ Recover(w)
    \/ MarkDead(w) \/ Halt(w) \/ Await(w) \/ Recreate(w) \/ Done(w) \/ GiveUp(w)

Map(m) ==
    \/ Register(m) \/ Glitch(m) \/ Crash(m) \/ AgeOut(m) \/ Grow(m) \/ Cool(m)
    \/ StopMap(m) \/ StopEnds(m) \/ StartMap(m)

Next ==
    \/ \E m \in Maps : Map(m)
    \/ Mark \/ Outage \/ Repaired
    \/ \E w \in Watchers : Pass(w) \/ Fail(w)

Spec == Init /\ [][Next]_vars

Moves(w) == Begin(w) \/ MarkDead(w) \/ Halt(w) \/ Recreate(w)
Waits(w) == Await(w) \/ Done(w) \/ GiveUp(w)
LooksAt(w, m) == M(w) = m /\ Look(w)
Judges(w, m) == M(w) = m /\ (Spare(w) \/ Chill(w) \/ Confirm(w) \/ Recover(w))

(* The service is restarted by systemd and its probes have timeouts; a map
   registers, ids of ended processes are aged out, and Docker and the
   database do not fail for ever when they are asked of the same map. *)
FairSpec ==
    /\ Spec
    /\ WF_vars(Moves("loop")) /\ WF_vars(Waits("loop"))
    /\ \A m \in Maps :
         /\ SF_vars(LooksAt("loop", m)) /\ SF_vars(Judges("loop", m))
         /\ WF_vars(Register(m)) /\ WF_vars(AgeOut(m)) /\ WF_vars(Cool(m)) /\ WF_vars(StopEnds(m))
    /\ WF_vars(Repaired)

-----------------------------------------------------------------------------
(* Properties. *)

TypeOK ==
    /\ box \in [Maps -> {"running", "stopping", "exited"}]
    /\ {proc, owner} \subseteq [Maps -> Ids]
    /\ {active, dead} \subseteq [Maps -> SUBSET Ids]
    /\ {young, hot, stopped} \subseteq [Maps -> BOOLEAN]
    /\ count \in [Maps -> 0..(Confirmations - 1)]
    /\ \A w \in Watchers : watch[w].at \in Maps /\ watch[w].old \in Ids \cup {0}
    /\ paused \in BOOLEAN /\ plane \in BOOLEAN

Recovering(w) == watch[w].pc \in {"mark", "stop", "wait", "up", "ready"}
OfRunning(w) == w = "loop" /\ Recovering(w) /\ watch[w].status = "running"

(* A running map is recovered by the loop only after as many degraded
   observations since its last recovery as are required: what an earlier
   recovery was begun for does not count again. *)
RecoveredOnEvidence ==
    \A w \in Watchers : OfRunning(w) => watch[w].why.seen >= Confirmations

(* As the usage and docs/operations.md say it: these observations are
   consecutive. *)
ConsecutiveEvidence ==
    \A w \in Watchers : OfRunning(w) => watch[w].why.row >= Confirmations

(* A new process is started only when no server of the partition is active,
   whatever crashed, was lost or failed before: two never own it at once. *)
NobodyActive == \A m \in Maps : proc'[m] # proc[m] => active[m] = {}
StartsAlone == [][NobodyActive]_vars

(* The loop does not stop a running process within its grace, however the
   recovery that started it ended. *)
Ripe ==
    At("loop", "stop") /\ At("loop", "wait")' /\ box[M("loop")] = "running" => ~young[M("loop")]
GraceIsGiven == [][Ripe]_vars

(* The marker of deliberate maintenance is honoured: no recovery is begun
   while it is there. *)
PauseIsHonoured ==
    [][paused => \A w \in Watchers : w = "loop" => (Recovering(w)' => Recovering(w))]_vars

(* A map that the autoscaler stopped is not started by the watchdog. *)
StoppedStays == \A m \in Maps : stopped[m] => box[m] # "running"

(* A map that crashed and that the autoscaler does not manage runs again. *)
CrashedComesBack ==
    \A m \in Maps \ Dynamic : (box[m] = "exited") ~> (box[m] = "running")
=============================================================================
