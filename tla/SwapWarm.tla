------------------------------ MODULE SwapWarm ------------------------------
(***************************************************************************)
(* The swap-warm daemon, scripts/swap-warm-daemon.sh, for one map: it keeps*)
(* the map's container running and, while nobody uses the map, squeezes its*)
(* memory with scripts/map-memory-squeeze.sh.  The daemon works through its*)
(* services one after the other and keeps a state of its own for each, so  *)
(* one map shows what it does to any.                                      *)
(*                                                                         *)
(* What is squeezed is a limit of the container (memory.high); what the    *)
(* daemon knows of it are variables of its shell.  Containers are started  *)
(* anew, the daemon is restarted, its two scripts fail, the switch in the  *)
(* environment file is flipped, and disable-swap-warm-fleet.sh hands the   *)
(* map back to the autoscaler.  The two durations are counted in ticks.    *)
(***************************************************************************)
EXTENDS Naturals

CONSTANTS
    Retention,   \* DUNE_SWAP_WARM_RETENTION_SECONDS
    MinHold,     \* DUNE_SWAP_WARM_MIN_HOLD_SECONDS
    Flips,       \* TRUE if DUNE_SWAP_WARM_ENABLED is flipped
    Disables,    \* TRUE if the fleet is disabled and enabled
    MaxDeaths,   \* bound: deaths of the daemon
    MaxStops,    \* bound: stops of the container
    MaxFails,    \* bound: squeezes and restores that fail
    MaxBlind     \* bound: cycles without an answer of capacity-intelligence

ASSUME SwapWarmAssumption ==
    /\ Retention \in Nat \ {0} /\ MinHold \in Nat \ {0}
    /\ MaxDeaths \in Nat /\ MaxStops \in Nat /\ MaxFails \in Nat /\ MaxBlind \in Nat
    /\ Flips \in BOOLEAN /\ Disables \in BOOLEAN

VARIABLES
    up,        \* the map's container runs
    high,      \* its memory.high: "max" or "low"
    hot,       \* it has players, is active or demanded
    enabled,   \* the switch in the environment file
    mode,      \* its mode in the autoscaler
    pc,        \* the daemon: "down", "rest", "off", "read" or "act"
    seen,      \* hot, as read
    squeezed,  \* squeezed[svc]
    idle,      \* time since last_active[svc], up to Retention
    held,      \* time since restored_at[svc], up to MinHold; MinHold if unset
    calm,      \* history: time since a cycle of the daemon, enabled or not,
               \* met the map hot, up to Retention
    missed,    \* history: "now" or "before" if such a cycle was off or had no
               \* answer: "before" once an answer said that the map is idle
    free,      \* history: time since the container was restored, up to MinHold
    restorer,  \* history: who did that: the "daemon" for its use, "other"s who
               \* keep no time of it, or a daemon whose time of it is "lost"
    bounds     \* what the bounds have left

outside == <<up, hot, enabled, mode>>
memory == <<squeezed, idle, held>>
use == <<calm, missed>>
hold == <<free, restorer>>
vars == <<outside, high, pc, seen, memory, use, hold, bounds>>

Init ==
    /\ up = TRUE /\ high = "max" /\ hot = FALSE /\ enabled = TRUE /\ mode = "always-on"
    /\ pc = "rest" /\ seen = FALSE
    /\ squeezed = FALSE /\ idle = 0 /\ held = MinHold
    /\ calm = 0 /\ missed = "no" /\ free = MinHold /\ restorer = "daemon"
    /\ bounds = [death |-> MaxDeaths, stop |-> MaxStops, fail |-> MaxFails, blind |-> MaxBlind]

Spend(b) == bounds[b] > 0 /\ bounds' = [bounds EXCEPT ![b] = @ - 1]

-----------------------------------------------------------------------------
(* Around the daemon. *)

Later(t, limit) == IF t < limit THEN t + 1 ELSE limit

Tick ==
    /\ idle' = Later(idle, Retention) /\ calm' = Later(calm, Retention)
    /\ held' = Later(held, MinHold) /\ free' = Later(free, MinHold)
    /\ <<idle, calm, held, free>>' # <<idle, calm, held, free>>
    /\ UNCHANGED <<outside, high, pc, seen, squeezed, missed, restorer, bounds>>

Visit ==
    /\ hot' = ~hot
    /\ UNCHANGED <<up, enabled, mode, high, pc, seen, memory, use, hold, bounds>>

Flip ==
    /\ Flips /\ enabled' = ~enabled
    /\ UNCHANGED <<up, hot, mode, high, pc, seen, memory, use, hold, bounds>>

(* The limit belongs to the container's cgroup. *)
StopContainer ==
    /\ up /\ Spend("stop")
    /\ up' = FALSE /\ high' = "max"
    /\ UNCHANGED <<hot, enabled, mode, pc, seen, memory, use, hold>>

StartContainer ==
    /\ ~up /\ up' = TRUE
    /\ UNCHANGED <<hot, enabled, mode, high, pc, seen, memory, use, hold, bounds>>

(* map-memory-squeeze.sh restore *)
Restored(by) ==
    \/ /\ up /\ high' = "max"
       /\ IF high = "low" THEN free' = 0 /\ restorer' = by ELSE UNCHANGED hold
       /\ UNCHANGED bounds
    \/ /\ IF up THEN Spend("fail") ELSE UNCHANGED bounds
       /\ UNCHANGED <<high, hold>>

(* disable-swap-warm-fleet.sh: it restores, whatever comes of it, then sets
   the mode; either script may fail to set it. *)
DisableFleet ==
    /\ Disables /\ mode = "always-on"
    /\ Restored("other")
    /\ mode' \in {mode, "dynamic"}
    /\ UNCHANGED <<up, hot, enabled, pc, seen, memory, use>>

EnableFleet ==
    /\ Disables /\ mode = "dynamic" /\ mode' = "always-on"
    /\ UNCHANGED <<up, hot, enabled, high, pc, seen, memory, use, hold, bounds>>

-----------------------------------------------------------------------------
(* The daemon. *)

Wake ==
    /\ pc = "rest"
    /\ pc' = IF enabled THEN "read" ELSE "off"
    /\ UNCHANGED <<outside, high, seen, memory, use, hold, bounds>>

(* A cycle that is off or has no answer meets the map. *)
Missed ==
    /\ calm' = IF hot THEN 0 ELSE calm
    /\ missed' = IF hot THEN "now" ELSE missed

(* Fault: the map is not restored when the switch goes off. *)
Off_Forgets ==
    /\ pc = "off" /\ pc' = "rest"
    /\ squeezed' = FALSE
    /\ Missed
    /\ UNCHANGED <<outside, high, seen, idle, held, hold, bounds>>

(* While it is disabled, what was squeezed is restored. *)
Off ==
    /\ pc = "off" /\ pc' = "rest"
    /\ IF squeezed THEN Restored("other") /\ squeezed' = FALSE
       ELSE UNCHANGED <<high, hold, squeezed, bounds>>
    /\ Missed
    /\ UNCHANGED <<outside, seen, idle, held>>

(* capacity-intelligence.py status *)
Read ==
    /\ pc = "read" /\ pc' = "act"
    /\ seen' = hot
    /\ calm' = IF hot THEN 0 ELSE calm
    /\ missed' = IF hot THEN "no" ELSE IF missed = "now" THEN "before" ELSE missed
    /\ UNCHANGED <<outside, high, memory, hold, bounds>>

(* Fault: a map of which nothing is said counts as idle. *)
Blind_Idle ==
    /\ pc = "read" /\ pc' = "act" /\ Spend("blind")
    /\ seen' = FALSE /\ Missed
    /\ UNCHANGED <<outside, high, memory, hold>>

Blind ==
    /\ pc = "read" /\ pc' = "rest" /\ Spend("blind")
    /\ Missed
    /\ UNCHANGED <<outside, high, seen, memory, hold>>

(* Fault: the time of a restore is not kept. *)
Hot_NoTime ==
    /\ pc = "act" /\ seen /\ pc' = "rest"
    /\ idle' = 0
    /\ IF squeezed THEN Restored("daemon") /\ squeezed' = FALSE
       ELSE UNCHANGED <<high, hold, squeezed, bounds>>
    /\ UNCHANGED <<outside, seen, held, use>>

(* That a restore failed is not looked at. *)
Hot ==
    /\ pc = "act" /\ seen /\ pc' = "rest"
    /\ idle' = 0
    /\ IF squeezed THEN Restored("daemon") /\ squeezed' = FALSE /\ held' = 0
       ELSE UNCHANGED <<high, hold, squeezed, held, bounds>>
    /\ UNCHANGED <<outside, seen, use>>

Eligible == idle >= Retention /\ ~squeezed /\ held >= MinHold

Keep ==
    /\ pc = "act" /\ ~seen /\ ~Eligible /\ pc' = "rest"
    /\ UNCHANGED <<outside, high, seen, memory, use, hold, bounds>>

(* The script may fail before it writes the limit, or after it, when it reads
   the usage for its report. *)
Squeeze ==
    /\ pc = "act" /\ ~seen /\ Eligible /\ pc' = "rest"
    /\ \/ up /\ high' = "low" /\ squeezed' = TRUE /\ UNCHANGED bounds
       \/ up /\ high' = "low" /\ Spend("fail") /\ UNCHANGED squeezed
       \/ (IF up THEN Spend("fail") ELSE UNCHANGED bounds) /\ UNCHANGED <<high, squeezed>>
    /\ UNCHANGED <<outside, seen, idle, held, use, hold>>

Die ==
    /\ pc # "down" /\ Spend("death")
    /\ pc' = "down"
    /\ restorer' = IF restorer = "daemon" THEN "lost" ELSE restorer
    /\ UNCHANGED <<outside, high, seen, memory, use, free>>

(* Its variables are new. *)
Start ==
    /\ pc = "down" /\ pc' = "rest"
    /\ squeezed' = FALSE /\ idle' = 0 /\ held' = MinHold /\ missed' = "no"
    /\ UNCHANGED <<outside, high, seen, calm, hold, bounds>>

Daemon == Wake \/ Off \/ Read \/ Blind \/ Hot \/ Keep \/ Squeeze

Next ==
    \/ Tick \/ Visit \/ Flip \/ StopContainer \/ StartContainer
    \/ DisableFleet \/ EnableFleet
    \/ Daemon \/ Die \/ Start

Spec == Init /\ [][Next]_vars

(* The service is restarted by systemd, and a cycle ends: its calls return or
   fail.  Time passes, and a stopped container is started. *)
FairSpec ==
    /\ Spec
    /\ WF_vars(Daemon) /\ WF_vars(Start) /\ WF_vars(Tick) /\ WF_vars(StartContainer)

-----------------------------------------------------------------------------
(* Properties. *)

Flags ==
    /\ up \in BOOLEAN /\ hot \in BOOLEAN /\ enabled \in BOOLEAN
    /\ seen \in BOOLEAN /\ squeezed \in BOOLEAN

Values ==
    /\ high \in {"max", "low"} /\ (~up => high = "max")
    /\ mode \in {"always-on", "dynamic"}
    /\ pc \in {"down", "rest", "off", "read", "act"}
    /\ idle \in 0..Retention /\ calm \in 0..Retention
    /\ held \in 0..MinHold /\ free \in 0..MinHold
    /\ missed \in {"no", "now", "before"} /\ restorer \in {"daemon", "other", "lost"}
    /\ bounds \in [death : Nat, stop : Nat, fail : Nat, blind : Nat]

TypeOK == Flags /\ Values

Squeezing == high = "max" /\ high' = "low"

(* A map that the daemon restored for its use stays resident for the       *)
(* minimum hold, or for the retention if the daemon died and forgot it; a   *)
(* restore by the switch or the fleet's script is nobody's hold.            *)
HoldKept ==
    [][Squeezing => \/ free = MinHold
                    \/ restorer = "lost" /\ free >= Retention
                    \/ restorer = "other"]_vars

(* A map is squeezed only when no cycle of the daemon has met it in use for *)
(* the retention, but one that was off or had no answer; and after such a   *)
(* cycle only on an answer that the map is idle.                            *)
CalmBeforeSqueeze == [][Squeezing => calm = Retention \/ missed = "before"]_vars

(* The minimum hold is kept whoever restored the map, and a use counts      *)
(* whatever the daemon was doing: the usage of the daemon says no less.     *)
HeldForAll == [][Squeezing => free = MinHold]_vars
CalmForAll == [][Squeezing => calm = Retention]_vars

(* The daemon lets a map alone that is no longer in its managed mode. *)
ModeIsMinded == [][Squeezing => mode = "always-on"]_vars

(* A squeezed map that is in use is restored. *)
HotIsRestored == (hot /\ high = "low") ~> (~hot \/ high = "max" \/ ~enabled)

(* With the switch off, no map stays squeezed. *)
PauseRestores == (~enabled /\ high = "low") ~> (enabled \/ high = "max")

(* A map that stays idle is squeezed in the end. *)
IdleIsSqueezed == <>[](enabled /\ ~hot /\ up) => []<>(high = "low")
=============================================================================
