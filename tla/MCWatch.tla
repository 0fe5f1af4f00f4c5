------------------------------ MODULE MCWatch ------------------------------
(* Instances of what watches the panel's work: the alert inbox, the        *)
(* operations briefing, the canary autopilot and the assurance of          *)
(* deployments.  Their models share no variable; `part` names the one that *)
(* runs and the others rest in their initial states, so that TLC explores  *)
(* the sum of the state spaces and not their product.                      *)
EXTENDS Watch, TLC

CONSTANTS
    Parts,      \* what the run explores
    o1, o2      \* operators; requests of two of them at a time

VARIABLES
    part,
    inputs, proofs, proofAge, plan, sleep, batch, last, faults,
    boots, panels, run, runs, windows, receipts, handler, storeLock, torn

(* Operators, and the requests they make, are told apart only by equality. *)
Symmetry == Permutations({o1, o2})

-----------------------------------------------------------------------------

(* One target: retained receipts, inputs that are lost, every outcome. *)
Canary == INSTANCE CanaryAutopilot WITH
    Targets <- <<"community">>, Enabled <- {"community"}, Retention <- 2, MaxAge <- 4,
    Lead <- 1, Poll <- 1, Base <- 1, MaxBackoff <- 3,
    Outcomes <- {"ready", "failed", "slow", "raised"}, MaxStreak <- 3, Faults <- 1,
    receipts <- proofs, age <- proofAge, row <- plan

(* Two targets that share the worker and the batch. *)
Canaries == INSTANCE CanaryAutopilot WITH
    Targets <- <<"community", "publicIp">>, Enabled <- {"community", "publicIp"},
    Retention <- 1, MaxAge <- 2, Lead <- 1, Poll <- 1, Base <- 1, MaxBackoff <- 1,
    Outcomes <- {"ready", "failed"}, MaxStreak <- 1, Faults <- 0,
    receipts <- proofs, age <- proofAge, row <- plan

(* Two runs, and a request at a time. *)
Assured == INSTANCE AssuredDeploy WITH
    MaxRuns <- 2, MaxBoots <- 1, MaxDeaths <- 1, Handlers <- {"h1"}, MaxWindows <- 2,
    MaxReceipts <- 2, deaths <- panels, lock <- storeLock

(* A run, and two requests that meet. *)
Contended == INSTANCE AssuredDeploy WITH
    MaxRuns <- 1, MaxBoots <- 1, MaxDeaths <- 1, Handlers <- {o1, o2}, MaxWindows <- 2,
    MaxReceipts <- 2, deaths <- panels, lock <- storeLock

ASSUME Canary!CanaryAssumption /\ Canaries!CanaryAssumption
ASSUME Assured!AssuredAssumption /\ Contended!AssuredAssumption

-----------------------------------------------------------------------------

canaryVars == <<inputs, proofs, proofAge, plan, sleep, batch, last, faults>>
assuredVars == <<boots, panels, run, runs, windows, receipts, handler, storeLock, torn>>
allVars == <<part, vars, briefingVars, canaryVars, assuredVars>>

WatchInit ==
    /\ part \in Parts
    /\ Init
    /\ Briefing!Init /\ truth.cat = "well"     \* the categories are alike
    /\ IF part = "canaries" THEN Canaries!Init ELSE Canary!Init
    /\ IF part = "contended" THEN Contended!Init ELSE Assured!Init

RunAlerts(A) ==
    part = "alerts" /\ A /\ UNCHANGED <<part, briefingVars, canaryVars, assuredVars>>
RunBriefing(A) ==
    part = "briefing" /\ A /\ UNCHANGED <<part, vars, canaryVars, assuredVars>>
RunCanary(A) == part = "canary" /\ A /\ UNCHANGED <<part, vars, briefingVars, assuredVars>>
RunCanaries(A) ==
    part = "canaries" /\ A /\ UNCHANGED <<part, vars, briefingVars, assuredVars>>
RunAssured(A) == part = "assured" /\ A /\ UNCHANGED <<part, vars, briefingVars, canaryVars>>
RunContended(A) ==
    part = "contended" /\ A /\ UNCHANGED <<part, vars, briefingVars, canaryVars>>

WatchNext ==
    \/ RunAlerts(Next) \/ RunBriefing(Briefing!Next)
    \/ RunCanary(Canary!Next) \/ RunCanaries(Canaries!Next)
    \/ RunAssured(Assured!Next) \/ RunContended(Contended!Next)

WatchSpec == WatchInit /\ [][WatchNext]_allVars

-----------------------------------------------------------------------------
(* What is checked, beside the properties of Watch. *)

(* Failed canaries are waited for as long as their failures in a row say,   *)
(* and a proof that stands is left alone until its refresh.                 *)
CanariesWaitTheirTurn ==
    /\ [](IF part = "canaries" THEN Canaries!TypeOK /\ Canaries!BackoffHolds
                               ELSE Canary!TypeOK /\ Canary!BackoffHolds)
    /\ [][IF part = "canaries" THEN Canaries!LeftAlone ELSE Canary!LeftAlone]_canaryVars

(* Windows, receipts and successes of deployments stand for each other, a   *)
(* window is closed once, and "ready" is true of all of it.                 *)
DeploymentsAreProved ==
    /\ [](/\ Assured!SuccessIsReceipted /\ Assured!ReadyMeansContinuous
          /\ IF part = "contended" THEN Contended!TypeOK /\ Contended!ReceiptsMatchWindows
                                   ELSE Assured!TypeOK /\ Assured!ReceiptsMatchWindows)
    /\ Assured!WindowsAreFinal
=============================================================================
