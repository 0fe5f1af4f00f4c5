--------------------------- MODULE MCMapServices ---------------------------
(* Instances of the four loops that look after the maps: the swap-warm     *)
(* daemon, the autoscaler, the memory balancer and the map watchdog.  Their *)
(* models share no variable, so a behaviour of all of them is an           *)
(* interleaving of one of each, and a property of one of them is decided   *)
(* by its own steps.  `part` names the one that runs; the others rest in   *)
(* their initial states, and TLC explores the sum of the state spaces and  *)
(* not their product.                                                      *)
EXTENDS SwapWarm, Sequences

CONSTANTS
    Parts,                                             \* what the run explores
    GameMaps, Core, Ttl, IdleTicks, Clocked, ByHand, Raises,   \* of the autoscaler
    Hosted, Uses, Sets, Default, Startable,            \* of the memory balancer
    NMaps, Autoscales, Marked, Crashes, Glitches,      \* of the watchdog
    None

VARIABLES
    part,
    autoMode, autoFile, autoMem, autoSteps, autoLock, autoPc, flag, autoUp,
    players, travel, deploy, since, stale, lost,
    file, mem, steps, back, failed, lock, work, job, running, limit, used, wanted,
    box, proc, owner, active, dead, young, count, cooling, watch, paused, plane,
    stopped, sight, spare

Actors == {"worker", "request"}

(* GAME_MAP_SERVICES in its order. *)
OneMap == <<"arrakeen">>
TwoMaps == <<"survival", "arrakeen">>

-----------------------------------------------------------------------------

Auto == INSTANCE Autoscaler WITH
    Maps <- GameMaps, Retention <- IdleTicks, Worker <- "worker", CutShort <- Raises,
    mode <- autoMode, file <- autoFile, mem <- autoMem, steps <- autoSteps,
    lock <- autoLock, pc <- autoPc, up <- autoUp

(* The worker alone with two maps: what fails at one is forgotten of the other. *)
Pair == INSTANCE Autoscaler WITH
    Maps <- TwoMaps, Actors <- {"worker"}, Worker <- "worker", Retention <- 1,
    ByHand <- FALSE, CutShort <- TRUE, mode <- autoMode, file <- autoFile, mem <- autoMem,
    steps <- autoSteps, lock <- autoLock, pc <- autoPc, up <- autoUp

Memory == INSTANCE MemoryBalancer WITH
    Maps <- Hosted, Worker <- "worker", Host <- 4, Stopped <- Startable,
    Fails <- FALSE, Again <- FALSE, pc <- work

(* The same, with updates that fail and panels that stop. *)
Failing == INSTANCE MemoryBalancer WITH
    Maps <- Hosted, Worker <- "worker", Host <- 4, Stopped <- {},
    Fails <- TRUE, Again <- FALSE, pc <- work

Watchdog == INSTANCE MapWatchdog WITH
    Dynamic <- {}, Watchers <- {"loop"}, Confirmations <- 2, Late <- FALSE, Pauses <- Marked,
    MaxCrashes <- Crashes, MaxGlitches <- Glitches, MaxFails <- 1, MaxOnce <- 0,
    MaxOutages <- 1, NIds <- 6, hot <- cooling, bounds <- spare

(* The same, beside an autoscaler that stops and starts its map. *)
Scaled == INSTANCE MapWatchdog WITH
    NMaps <- 1, Dynamic <- {1}, Autoscales <- TRUE, Watchers <- {"loop"}, Confirmations <- 2,
    Late <- TRUE, Pauses <- FALSE, MaxCrashes <- 0, MaxGlitches <- 1, MaxFails <- 0,
    MaxOnce <- 0, MaxOutages <- 0, NIds <- 4, hot <- cooling, bounds <- spare

ASSUME Auto!AutoscalerAssumption /\ Pair!AutoscalerAssumption
ASSUME Memory!MemoryAssumption
ASSUME Failing!MemoryAssumption
ASSUME Watchdog!MapWatchdogAssumption
ASSUME Scaled!MapWatchdogAssumption

-----------------------------------------------------------------------------

autoVars ==
    <<autoMode, autoFile, autoMem, autoSteps, autoLock, autoPc, flag, autoUp, players,
      travel, deploy, since, stale, lost>>
memoryVars ==
    <<file, mem, steps, back, failed, lock, work, job, running, limit, used, wanted>>
watchdogVars ==
    <<box, proc, owner, active, dead, young, count, cooling, watch, paused, plane,
      stopped, sight, spare>>
allVars == <<part, vars, autoVars, memoryVars, watchdogVars>>

ServicesInit ==
    /\ part \in Parts
    /\ Init
    /\ IF part = "pair" THEN Pair!Init ELSE Auto!Init
    /\ IF part = "scaled" THEN Scaled!Init ELSE Watchdog!Init
    /\ IF part = "failing" THEN Failing!Init ELSE Memory!Init
    /\ part \in {"memory", "failing"} \/ used = [m \in Hosted |-> Default]

RunWarm(A) == part = "warm" /\ A /\ UNCHANGED <<part, autoVars, memoryVars, watchdogVars>>
RunAutoscaler(A) == part = "autoscaler" /\ A /\ UNCHANGED <<part, vars, memoryVars, watchdogVars>>
RunPair(A) == part = "pair" /\ A /\ UNCHANGED <<part, vars, memoryVars, watchdogVars>>
RunMemory(A) == part = "memory" /\ A /\ UNCHANGED <<part, vars, autoVars, watchdogVars>>
RunFailing(A) == part = "failing" /\ A /\ UNCHANGED <<part, vars, autoVars, watchdogVars>>
RunScaled(A) == part = "scaled" /\ A /\ UNCHANGED <<part, vars, autoVars, memoryVars>>
RunWatchdog(A) == part = "watchdog" /\ A /\ UNCHANGED <<part, vars, autoVars, memoryVars>>

ServicesNext ==
    \/ RunWarm(Next) \/ RunAutoscaler(Auto!Next) \/ RunPair(Pair!Next)
    \/ RunMemory(Memory!Next) \/ RunFailing(Failing!Next)
    \/ RunWatchdog(Watchdog!Next) \/ RunScaled(Scaled!Next)

ServicesSpec == ServicesInit /\ [][ServicesNext]_allVars

(* What each module's FairSpec states, for the one that runs.  Since `part` *)
(* never changes, strong fairness of a step of one and of a step of         *)
(* another is strong fairness of their disjunction.                         *)
StrongFairness ==
    /\ SF_allVars(RunAutoscaler(Auto!Scan) \/ RunMemory(Memory!Tick("worker")))
    /\ SF_allVars(RunAutoscaler(Auto!ReconcileDue) \/ RunWatchdog(Watchdog!LooksAt("loop", 1)))
    /\ SF_allVars(RunAutoscaler(Auto!Check("worker")) \/ RunWatchdog(Watchdog!LooksAt("loop", 2)))
    /\ SF_allVars(RunAutoscaler(Auto!Check("request")) \/ RunWatchdog(Watchdog!Judges("loop", 1)))
    /\ SF_allVars(RunAutoscaler(Auto!Load("worker")) \/ RunWatchdog(Watchdog!Judges("loop", 2)))
    /\ SF_allVars(RunAutoscaler(Auto!Load("request")))

WeakFairness ==
    /\ WF_allVars(RunWarm(Daemon)) /\ WF_allVars(RunWarm(Start))
    /\ WF_allVars(RunWarm(Tick)) /\ WF_allVars(RunWarm(StartContainer))
    /\ WF_allVars(RunAutoscaler(Auto!Release))
    /\ \A a \in Actors :
         /\ SF_allVars(RunAutoscaler(Auto!Acts(a, TRUE))) /\ WF_allVars(RunAutoscaler(Auto!Write(a)))
         /\ WF_allVars(RunMemory(Memory!Update(a))) /\ WF_allVars(RunMemory(Memory!Finish(a)))
         /\ WF_allVars(RunMemory(Memory!Record(a)))
    /\ WF_allVars(RunWatchdog(Watchdog!Moves("loop")))
    /\ WF_allVars(RunWatchdog(Watchdog!Waits("loop")))
    /\ WF_allVars(RunWatchdog(Watchdog!Repaired))
    /\ \A m \in 1..NMaps :
         /\ WF_allVars(RunWatchdog(Watchdog!Register(m)))
         /\ WF_allVars(RunWatchdog(Watchdog!AgeOut(m)))
         /\ WF_allVars(RunWatchdog(Watchdog!Cool(m)))
         /\ WF_allVars(RunWatchdog(Watchdog!StopEnds(m)))

ServicesFairSpec == ServicesSpec /\ StrongFairness /\ WeakFairness

-----------------------------------------------------------------------------
(* What is checked, beside HoldKept and CalmBeforeSqueeze of SwapWarm. *)

(* The autoscaler stops a map for its idle window only when all of it has   *)
(* passed without a player a reconciliation saw, but for a window that one  *)
(* which raised, or a start by hand, has left stale; and a travel request   *)
(* that it has read is in the state file or on its way there, or was in the *)
(* hands of one that raised.                                                *)
WindowsAreKept ==
    /\ [](IF part = "pair" THEN Pair!TypeOK /\ Pair!ScannedIsKept
                           ELSE Auto!TypeOK /\ Auto!ScannedIsKept)
    /\ [][IF part = "pair" THEN Pair!StopsAreDue ELSE Auto!StopsAreDue]_autoVars

(* The memory balancer gives every running map its own limit back when it   *)
(* is switched off, whatever it moved before, whichever updates failed.     *)
LimitsAreRestored == [](Memory!TypeOK) /\ Memory!DisablingRestores

(* The watchdog recovers a running map on its own evidence only, lets it    *)
(* use its grace, and never starts a second owner of a partition.           *)
RecoveriesAreSound ==
    /\ [](Watchdog!RecoveredOnEvidence /\ (part = "watchdog" => Watchdog!TypeOK))
    /\ [][part = "watchdog" => Watchdog!NobodyActive /\ Watchdog!Ripe]_watchdogVars

(* A squeezed map in use is restored, one that stays idle is squeezed, and  *)
(* with the switch off none stays squeezed.                                 *)
WarmFollowsUse == (part = "warm") => HotIsRestored /\ PauseRestores /\ IdleIsSqueezed

(* A traveller's map comes up, a map that crashed comes back, and limits    *)
(* come to rest when what maps use does.                                    *)
MapsAreServed ==
    /\ (part = "autoscaler") => Auto!TravelIsServed
    /\ (part = "memory") => Memory!Settles
    /\ (part = "watchdog") => Watchdog!CrashedComesBack
=============================================================================
