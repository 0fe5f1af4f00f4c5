-------------------------- MODULE SwapWarm_proofs --------------------------
(* Theorems about SwapWarm: what the daemon keeps for every retention and
   hold, whatever is switched, stopped, restarted, disabled or fails. *)
EXTENDS SwapWarm, TLAPS

(* Time that has not reached its limit moves on by one, and never past it. *)
LEMMA LaterBounded ==
    ASSUME NEW limit \in Nat, NEW t \in 0..limit
    PROVE  Later(t, limit) \in 0..limit
BY DEF Later

(* The earlier of two times stays the earlier. *)
LEMMA LaterMonotone ==
    ASSUME NEW limit \in Nat, NEW s \in 0..limit, NEW t \in 0..limit, s <= t
    PROVE  Later(s, limit) <= Later(t, limit)
BY DEF Later

(* Spending leaves what is left a number, and less than there was. *)
LEMMA SpendTypes ==
    ASSUME TypeOK, NEW b \in {"death", "stop", "fail", "blind"}, Spend(b)
    PROVE  bounds' \in [death : Nat, stop : Nat, fail : Nat, blind : Nat]
BY DEF TypeOK, Values, Spend

(* A restore writes a limit of the container, and nothing while it is down. *)
LEMMA RestoredTypes ==
    ASSUME TypeOK, NEW by \in {"daemon", "other"}, Restored(by)
    PROVE  /\ high' \in {"max", "low"} /\ (high' = "low" => high = "low")
           /\ free' \in 0..MinHold
           /\ restorer' \in {"daemon", "other", "lost"}
           /\ bounds' \in [death : Nat, stop : Nat, fail : Nat, blind : Nat]
BY SpendTypes, SwapWarmAssumption DEF TypeOK, Values, Restored, hold

(* It is a restore that had an effect, or nothing is held anew. *)
LEMMA RestoredHold ==
    ASSUME NEW by, Restored(by)
    PROVE  (free' = 0 /\ restorer' = by) \/ (free' = free /\ restorer' = restorer)
BY Zenon DEF Restored, hold

-----------------------------------------------------------------------------
(* The types, and that a stopped container has no limit: every step of the
   daemon, of its scripts and of what is around it keeps them. *)
THEOREM TypeCorrect == Spec => []TypeOK
<1>1. Init => TypeOK
  <2>1. Init => Flags
    BY Zenon DEF Init, Flags
  <2>2. Init => Values
    BY SwapWarmAssumption DEF Init, Values
  <2> QED  BY <2>1, <2>2 DEF TypeOK
<1>2. TypeOK /\ [Next]_vars => TypeOK'
  <2> SUFFICES ASSUME TypeOK, [Next]_vars PROVE TypeOK'
    OBVIOUS
  <2> USE SwapWarmAssumption
  <2>1. CASE Tick
    <3>1. idle' \in 0..Retention /\ calm' \in 0..Retention
      BY <2>1, LaterBounded DEF Tick, TypeOK, Values
    <3>2. held' \in 0..MinHold /\ free' \in 0..MinHold
      BY <2>1, LaterBounded DEF Tick, TypeOK, Values
    <3> QED  BY <2>1, <3>1, <3>2 DEF Tick, TypeOK, Flags, Values, outside
  <2>2. CASE Visit \/ Flip \/ StartContainer \/ EnableFleet
    <3>1. Flags'
      BY <2>2, Zenon DEF Visit, Flip, StartContainer, EnableFleet, TypeOK, Flags, memory
    <3>2. Values'
      BY <2>2 DEF Visit, Flip, StartContainer, EnableFleet, TypeOK, Values, memory, use, hold
    <3> QED  BY <3>1, <3>2 DEF TypeOK
  <2>3. CASE StopContainer
    BY <2>3, SpendTypes DEF StopContainer, TypeOK, Flags, Values, memory, use, hold
  <2>4. CASE DisableFleet
    BY <2>4, RestoredTypes DEF DisableFleet, TypeOK, Flags, Values, memory, use
  <2>5. CASE Wake \/ Keep
    BY <2>5 DEF Wake, Keep, TypeOK, Flags, Values, outside, memory, use, hold
  <2>6. CASE Read
    <3>1. Flags'
      BY <2>6, Zenon DEF Read, TypeOK, Flags, outside, memory
    <3>2. calm' \in {calm, 0} /\ missed' \in {"no", "before", missed}
      BY <2>6, Zenon DEF Read
    <3> QED  BY <2>6, <3>1, <3>2 DEF Read, TypeOK, Values, outside, memory, hold
  <2>7. CASE Blind
    <3>1. calm' \in {calm, 0} /\ missed' \in {"now", missed}
      BY <2>7, Zenon DEF Blind, Missed
    <3> QED
      BY <2>7, <3>1, SpendTypes DEF Blind, TypeOK, Flags, Values, outside, memory, hold
  <2>8. CASE Die
    BY <2>8, SpendTypes DEF Die, TypeOK, Flags, Values, outside, memory, use
  <2>9. CASE Off \/ Hot
    <3>1. Flags'
      BY <2>9, Zenon DEF Off, Hot, TypeOK, Flags, outside
    <3>2. /\ high' \in {"max", "low"} /\ (high' = "low" => high = "low")
          /\ free' \in 0..MinHold
          /\ restorer' \in {"daemon", "other", "lost"}
          /\ bounds' \in [death : Nat, stop : Nat, fail : Nat, blind : Nat]
      BY <2>9, RestoredTypes, Zenon DEF Off, Hot, TypeOK, Values, hold
    <3>3. held' \in {held, 0} /\ idle' \in {idle, 0} /\ calm' \in {calm, 0}
      BY <2>9, Zenon DEF Off, Hot, Missed, use
    <3>4. missed' \in {"now", missed}
      BY <2>9, Zenon DEF Off, Hot, Missed, use
    <3>5. up' = up /\ mode' = mode /\ pc' = "rest"
      BY <2>9, Zenon DEF Off, Hot, outside
    <3> QED  BY <3>1, <3>2, <3>3, <3>4, <3>5 DEF TypeOK, Values
  <2>10. CASE Squeeze
    BY <2>10, SpendTypes DEF Squeeze, TypeOK, Flags, Values, outside, use, hold
  <2>11. CASE Start
    <3>1. Flags'
      BY <2>11, Zenon DEF Start, TypeOK, Flags, outside
    <3>2. Values'
      BY <2>11 DEF Start, TypeOK, Values, outside, hold
    <3> QED  BY <3>1, <3>2 DEF TypeOK
  <2>12. CASE UNCHANGED vars
    BY <2>12 DEF vars, outside, memory, use, hold, TypeOK, Flags, Values
  <2> QED
    BY <2>1, <2>2, <2>3, <2>4, <2>5, <2>6, <2>7, <2>8, <2>9, <2>10, <2>11, <2>12
    DEF Next, Daemon
<1> QED  BY <1>1, <1>2, PTL DEF Spec

(* Only the daemon's squeeze takes memory from a map. *)
LEMMA OnlySqueeze ==
    ASSUME TypeOK, Next, Squeezing
    PROVE  Squeeze
BY RestoredTypes DEF Squeezing, Next, Daemon, Tick, Visit, Flip, StopContainer,
   StartContainer, DisableFleet, EnableFleet, Wake, Off, Read, Blind, Hot, Keep, Die, Start

-----------------------------------------------------------------------------
(* What the daemon knows of the map's use.  Unless it missed a use since, it
   dates the last one no earlier than it was, but for the moment in which it
   has read it and not yet written it down; and it acts on an idle map only
   after the answer that made a use it missed one of before. *)
Watched ==
    /\ pc # "down" /\ ~(pc = "act" /\ seen) /\ missed = "no" => idle <= calm
    /\ pc = "act" /\ ~seen => missed # "now"

(* For every number of flips, deaths, stops, failures and cycles without an
   answer: a map is squeezed after its retention, or its last use was met
   only by cycles that were off or had no answer, before one that found it
   idle. *)
THEOREM CalmFirst == Spec => CalmBeforeSqueeze
<1>1. Init => Watched
  BY SwapWarmAssumption DEF Init, Watched
<1>2. TypeOK /\ Watched /\ [Next]_vars => Watched'
  <2> SUFFICES ASSUME TypeOK, Watched, [Next]_vars PROVE Watched'
    OBVIOUS
  <2> USE SwapWarmAssumption
  <2>1. CASE Tick
    <3>1. idle <= calm => idle' <= calm'
      BY <2>1, LaterMonotone DEF Tick, TypeOK, Values
    <3> QED  BY <2>1, <3>1 DEF Tick, Watched
  <2>2. CASE Visit \/ Flip \/ StopContainer \/ StartContainer \/ DisableFleet \/ EnableFleet
    BY <2>2 DEF Visit, Flip, StopContainer, StartContainer, DisableFleet, EnableFleet,
       Watched, memory, use
  <2>3. CASE Wake \/ Keep
    BY <2>3 DEF Wake, Keep, Watched, memory, use
  <2>4. CASE Off \/ Blind
    <3>1. missed' = "now" \/ (missed' = missed /\ calm' = calm)
      BY <2>4, Zenon DEF Off, Blind, Missed
    <3>2. pc \in {"off", "read"} /\ pc' = "rest" /\ idle' = idle
      BY <2>4, Zenon DEF Off, Blind, memory
    <3> QED  BY <3>1, <3>2 DEF Watched
  <2>5. CASE Read
    <3>1. ~seen' => calm' = calm /\ missed' # "now" /\ (missed' = "no" => missed = "no")
      BY <2>5, Zenon DEF Read
    <3>2. pc = "read" /\ pc' = "act" /\ idle' = idle
      BY <2>5, Zenon DEF Read, memory
    <3> QED  BY <3>1, <3>2 DEF Watched
  <2>6. CASE Hot
    <3>1. idle' = 0 /\ calm' = calm /\ pc' = "rest"
      BY <2>6, Zenon DEF Hot, use
    <3> QED  BY <3>1 DEF Watched, TypeOK, Values
  <2>7. CASE Squeeze
    BY <2>7 DEF Squeeze, Watched, use
  <2>8. CASE Die
    BY <2>8 DEF Die, Watched
  <2>9. CASE Start
    BY <2>9 DEF Start, Watched, TypeOK, Values
  <2>10. CASE UNCHANGED vars
    BY <2>10 DEF vars, memory, use, Watched
  <2> QED
    BY <2>1, <2>2, <2>3, <2>4, <2>5, <2>6, <2>7, <2>8, <2>9, <2>10 DEF Next, Daemon
<1>3. TypeOK /\ Watched /\ [Next]_vars
        => [Squeezing => calm = Retention \/ missed = "before"]_vars
  <2> SUFFICES ASSUME TypeOK, Watched, Next, Squeezing
               PROVE  calm = Retention \/ missed = "before"
    BY DEF Squeezing, vars
  <2>1. Squeeze
    BY OnlySqueeze
  <2> QED
    BY <2>1, SwapWarmAssumption DEF Squeeze, Eligible, Watched, TypeOK, Values
<1> QED  BY <1>1, <1>2, <1>3, TypeCorrect, PTL DEF Spec, CalmBeforeSqueeze

-----------------------------------------------------------------------------
(* What the daemon knows of the map's last restore: its own, it dates no
   earlier than it was; one of a daemon that died, it does not know, but its
   idle time is new; and a daemon that is dead has none of its own. *)
Holding ==
    /\ restorer = "daemon" => pc # "down" /\ held <= free
    /\ restorer = "lost" /\ pc # "down" => idle <= free \/ free = MinHold

(* For every number of flips, deaths, stops, failures and cycles without an
   answer: a map that the daemon restored is not squeezed before the hold is
   over, and before the retention is over if the daemon died since. *)
THEOREM HoldIsKept == Spec => HoldKept
<1>1. Init => Holding
  BY SwapWarmAssumption DEF Init, Holding
<1>2. TypeOK /\ Holding /\ [Next]_vars => Holding'
  <2> SUFFICES ASSUME TypeOK, Holding, [Next]_vars PROVE Holding'
    OBVIOUS
  <2> USE SwapWarmAssumption
  <2>1. CASE Tick
    <3>1. held <= free => held' <= free'
      BY <2>1, LaterMonotone DEF Tick, TypeOK, Values
    <3>2. idle <= free \/ free = MinHold => idle' <= free' \/ free' = MinHold
      BY <2>1 DEF Tick, Later, TypeOK, Values
    <3> QED  BY <2>1, <3>1, <3>2 DEF Tick, Holding
  <2>2. CASE Visit \/ Flip \/ StopContainer \/ StartContainer \/ EnableFleet
    BY <2>2 DEF Visit, Flip, StopContainer, StartContainer, EnableFleet, Holding, memory, hold
  <2>3. CASE DisableFleet
    BY <2>3, RestoredHold DEF DisableFleet, Holding, memory
  <2>4. CASE Wake \/ Read \/ Blind \/ Keep
    BY <2>4 DEF Wake, Read, Blind, Keep, Holding, memory, hold
  <2>5. CASE Off
    <3>1. \/ restorer' = "other"
          \/ restorer' = restorer /\ free' = free
      BY <2>5, RestoredHold, Zenon DEF Off, hold
    <3>2. pc = "off" /\ pc' = "rest" /\ held' = held /\ idle' = idle
      BY <2>5, Zenon DEF Off
    <3> QED  BY <3>1, <3>2 DEF Holding
  <2>6. CASE Hot
    <3>1. \/ restorer' = "daemon" /\ free' = 0 /\ held' = 0
          \/ restorer' = restorer /\ free' = free /\ held' \in {held, 0}
      BY <2>6, RestoredHold, Zenon DEF Hot, hold
    <3>2. pc = "act" /\ pc' = "rest" /\ idle' = 0
      BY <2>6, Zenon DEF Hot
    <3> QED  BY <3>1, <3>2 DEF Holding, TypeOK, Values
  <2>7. CASE Squeeze
    BY <2>7 DEF Squeeze, Holding, hold
  <2>8. CASE Die
    BY <2>8 DEF Die, Holding
  <2>9. CASE Start
    BY <2>9 DEF Start, Holding, TypeOK, Values, hold
  <2>10. CASE UNCHANGED vars
    BY <2>10 DEF vars, memory, hold, Holding
  <2> QED
    BY <2>1, <2>2, <2>3, <2>4, <2>5, <2>6, <2>7, <2>8, <2>9, <2>10 DEF Next, Daemon
<1>3. TypeOK /\ Holding /\ [Next]_vars
        => [Squeezing => \/ free = MinHold
                         \/ restorer = "lost" /\ free >= Retention
                         \/ restorer = "other"]_vars
  <2> SUFFICES ASSUME TypeOK, Holding, Next, Squeezing
               PROVE  \/ free = MinHold
                      \/ restorer = "lost" /\ free >= Retention
                      \/ restorer = "other"
    BY DEF Squeezing, vars
  <2>1. Squeeze
    BY OnlySqueeze
  <2> QED
    BY <2>1, SwapWarmAssumption DEF Squeeze, Eligible, Holding, TypeOK, Values
<1> QED  BY <1>1, <1>2, <1>3, TypeCorrect, PTL DEF Spec, HoldKept
=============================================================================
