----------------------------- MODULE Engagement -----------------------------
(***************************************************************************)
(* Engagement rewards of the community store: observe_engagement, called   *)
(* for every account by community_delivery_tick, from the worker's thread  *)
(* and from operators' ticks. Accounts do not meet in it (every key names  *)
(* its account), so there is one here.                                     *)
(*                                                                         *)
(* A place stands for map, partition and rounded coordinates; two places   *)
(* are at least the minimum distance apart. Rewards are the keys of        *)
(* engagement_claims: <<kind, period, tier>>.                              *)
(***************************************************************************)
EXTENDS Naturals, FiniteSetsExt, Sums

CONSTANTS
    Tickers,    \* threads that tick
    Places,     \* where the player can be
    Policies,   \* the configured values of the rewards
    Day, Week,  \* length of a day and of a week
    MaxClock,   \* bound: time
    None

EngagementAssumption ==
    /\ {Day, Week, MaxClock} \subseteq Nat \ {0} /\ Week % Day = 0
    /\ \A p \in Policies :
          /\ {p.maxGap, p.hour} \subseteq Nat \ {0} /\ {p.grace, p.maxHours} \subseteq Nat
          /\ p.dayTiers \cup p.weekGoals \subseteq Nat \ {0} /\ p.repeatLast \in BOOLEAN
    /\ None \notin Places /\ None \notin Nat

VARIABLES
    policy,         \* the one that is in force
    clock, online, place,   \* the game
    checkpoint,     \* engagement_checkpoints; at = None: no row
    days,           \* engagement_days: day -> [seconds, streak], streak 0: no row
    weeks,          \* engagement_weeks: week -> seconds
    claims,         \* engagement_claims
    grants,         \* history: how often a reward was granted
    tick,           \* Tickers -> the observation it carries
    seen,           \* history: times of the observations
    blind           \* history: active seconds came of an observation without a place

rewards == <<days, weeks, claims, grants>>
vars == <<policy, clock, online, place, checkpoint, rewards, tick, seen, blind>>

ObservationGap == policy.maxGap  \* maxObservationGapSeconds
Grace == policy.grace           \* movementGraceSeconds
Hour == policy.hour             \* hourly: intervalSeconds
MaxHours == policy.maxHours     \* hourly: maxRewardsPerSession
DayTiers == policy.dayTiers     \* daily: the tiers' days
RepeatLast == policy.repeatLast \* daily: repeatLast
WeekGoals == policy.weekGoals   \* weekly: the thresholds

AllDays == 0..(MaxClock \div Day)
AllWeeks == 0..(MaxClock \div Week)
Kinds == {"daily", "weekly", "hourly"}
NoRow == [at |-> None, online |-> FALSE, place |-> None, moved |-> None,
          session |-> None, active |-> 0, hours |-> 0]
Idle == [pc |-> "idle", now |-> 0, online |-> FALSE, place |-> None]

Init ==
    /\ policy \in Policies
    /\ clock = 0 /\ online \in BOOLEAN /\ place \in Places
    /\ checkpoint = NoRow
    /\ days = [d \in AllDays |-> [seconds |-> 0, streak |-> 0]]
    /\ weeks = [w \in AllWeeks |-> 0]
    /\ claims = {} /\ grants = {}
    /\ tick = [t \in Tickers |-> Idle] /\ seen = {} /\ blind = FALSE

-----------------------------------------------------------------------------
Second ==
    /\ clock < MaxClock /\ clock' = clock + 1
    /\ online' \in BOOLEAN /\ place' \in Places
    /\ UNCHANGED <<checkpoint, rewards, tick, seen, blind>>

(* community_delivery_tick: the time first, then the query. A player       *)
(* without a pawn has no place.                                            *)
StartTick(t) ==
    /\ tick[t].pc = "idle"
    /\ tick' = [tick EXCEPT ![t] = [Idle EXCEPT !.pc = "query", !.now = clock]]
    /\ UNCHANGED <<clock, online, place, checkpoint, rewards, seen, blind>>

Query(t) ==
    /\ tick[t].pc = "query"
    /\ \E p \in {place, None} :
          tick' = [tick EXCEPT ![t] = [@ EXCEPT !.pc = "observe", !.online = online, !.place = p]]
    /\ UNCHANGED <<clock, online, place, checkpoint, rewards, seen, blind>>

(* The query raises, the transaction is rolled back, the panel dies. *)
Abort(t) ==
    /\ tick[t].pc # "idle"
    /\ tick' = [tick EXCEPT ![t] = Idle]
    /\ UNCHANGED <<clock, online, place, checkpoint, rewards, seen, blind>>

-----------------------------------------------------------------------------
(* observe_engagement *)
Moved(o) == checkpoint.place # None /\ o.place # None /\ o.place # checkpoint.place

LastMove(o) == IF Moved(o) THEN o.now ELSE checkpoint.moved

Continuous(o) == o.online /\ checkpoint.online /\ o.now - checkpoint.at <= ObservationGap

ActiveSeconds(o) ==
    IF Continuous(o) /\ LastMove(o) # None /\ o.now - LastMove(o) <= Grace
    THEN Max({0, Min({o.now - checkpoint.at, ObservationGap})}) ELSE 0

DayOf(time) == time \div Day
WeekOf(time) == time \div Week

(* The day's row, with the streak that it carries on when it is new.       *)
Streak(d) == (IF d = 0 THEN 0 ELSE days[d - 1].streak) + 1

DaysAfter(o, s) ==
    [days EXCEPT ![DayOf(o.now)] =
        [seconds |-> @.seconds + s, streak |-> IF @.streak > 0 THEN @.streak ELSE Streak(DayOf(o.now))]]

Tier(streak) == {n \in DayTiers : n <= streak}

DailyGrants(o) ==
    LET d == DayOf(o.now)
        tiers == Tier(Streak(d))
    IN  IF days[d].streak = 0 /\ tiers # {} /\ (RepeatLast \/ Max(tiers) = Streak(d))
        THEN {<<"daily", d, Max(tiers)>>} ELSE {}

Passed(goal, before, after) == before < goal /\ goal <= after

WeeklyGrants(o, s) ==
    LET w == WeekOf(o.now)
    IN  {<<"weekly", w, g>> : g \in {g \in WeekGoals : Passed(g, weeks[w], weeks[w] + s)}}

(* Hours of one session, named by its start. *)
HoursOf(active) == Min({active \div Hour, MaxHours})

HourlyGrants(session, from, to) == {<<"hourly", session, h>> : h \in (from + 1)..to}

(* Rewards need the policy and an active second; a claim is never repeated. *)
Grant(keys) ==
    /\ claims' = claims \cup keys
    /\ grants' = grants \cup {<<k, o>> : k \in keys \ claims, o \in {Cardinality(seen)}}

(* Fault: an older observation is taken like a newer one. *)
Replay_Never(o) == o.now = checkpoint.at
Replay(o) == o.now <= checkpoint.at

FirstObservation(o) ==
    /\ checkpoint.at = None
    /\ checkpoint' = [NoRow EXCEPT !.at = o.now, !.online = o.online, !.place = o.place,
                                   !.session = IF o.online THEN o.now ELSE None]
    /\ UNCHANGED <<rewards, blind>>

HoursBefore(o) == IF Continuous(o) THEN checkpoint.hours ELSE 0

LaterObservation(o) ==
    LET s == ActiveSeconds(o)
        session == IF Continuous(o) THEN checkpoint.session ELSE o.now
        active == (IF Continuous(o) THEN checkpoint.active ELSE 0) + s
        hours == IF s > 0 THEN Max({HoursBefore(o), HoursOf(active)}) ELSE HoursBefore(o)
    IN  /\ checkpoint.at # None /\ ~Replay(o)
        /\ checkpoint' =
              IF o.online
              THEN [at |-> o.now, online |-> TRUE, place |-> o.place, moved |-> LastMove(o),
                    session |-> session, active |-> active, hours |-> hours]
              ELSE [NoRow EXCEPT !.at = o.now, !.place = o.place]
        /\ IF s = 0 THEN UNCHANGED rewards
           ELSE /\ days' = DaysAfter(o, s)
                /\ weeks' = [weeks EXCEPT ![WeekOf(o.now)] = @ + s]
                /\ Grant(DailyGrants(o) \cup WeeklyGrants(o, s)
                         \cup HourlyGrants(session, HoursBefore(o), hours))
        /\ blind' = (blind \/ (s > 0 /\ o.place = None))

Observe(t) ==
    /\ tick[t].pc = "observe"
    /\ LET o == tick[t]
       IN  \/ FirstObservation(o)
           \/ LaterObservation(o)
           \/ checkpoint.at # None /\ Replay(o) /\ UNCHANGED <<checkpoint, rewards, blind>>
    /\ seen' = seen \cup {tick[t].now}
    /\ tick' = [tick EXCEPT ![t] = Idle]
    /\ UNCHANGED <<clock, online, place>>

Next ==
    /\ Second \/ \E t \in Tickers : StartTick(t) \/ Query(t) \/ Abort(t) \/ Observe(t)
    /\ UNCHANGED policy

Spec == Init /\ [][Next]_vars

-----------------------------------------------------------------------------
(* Properties.                                                             *)
HasRow(d) == days[d].streak > 0

(* The variables stay in their sets; a row of a day has active seconds.    *)
TypeOK ==
    /\ clock \in 0..MaxClock /\ place \in Places
    /\ checkpoint.at \in {None} \cup 0..MaxClock
    /\ checkpoint.hours \in 0..MaxHours /\ checkpoint.active \in 0..MaxClock
    /\ \A d \in AllDays : HasRow(d) <=> days[d].seconds > 0
    /\ \A c \in claims : c[1] \in Kinds

(* Active time is counted once: days and weeks add up to the same, and to  *)
(* no more than passed between the first and the last observation, however *)
(* the ticks of two threads interleave (observe_engagement).               *)
ActiveTimeIsReal ==
    LET total == Total([d \in AllDays |-> days[d].seconds], AllDays)
    IN  /\ total = Total(weeks, AllWeeks)
        /\ total <= IF seen = {} THEN 0 ELSE Max(seen) - Min(seen)

(* The streak of a day is the length of the unbroken run of active days    *)
(* that ends with it.                                                      *)
StreakIsARun ==
    \A d \in AllDays : HasRow(d) =>
        LET run == {e \in AllDays : e <= d /\ \A x \in e..d : HasRow(x)}
        IN  days[d].streak = Cardinality(run)

(* What is claimed follows from what was played: one daily tier for each   *)
(* active day, every weekly goal that was reached and no other.            *)
ClaimsMatchActivity ==
    /\ \A d \in AllDays :
          {c \in claims : c[1] = "daily" /\ c[2] = d} =
              IF ~HasRow(d) THEN {}
              ELSE {<<"daily", d, Max(Tier(days[d].streak))>> :
                       x \in {y \in Tier(days[d].streak) :
                                 RepeatLast \/ Max(Tier(days[d].streak)) = days[d].streak}}
    /\ \A w \in AllWeeks :
          {c \in claims : c[1] = "weekly" /\ c[2] = w} =
              {<<"weekly", w, g>> : g \in {g \in WeekGoals : g <= weeks[w]}}

(* The hours of the session that goes on are rewarded up to what it has    *)
(* earned, each once, and no reward is granted twice.                      *)
HoursAreEarned ==
    /\ checkpoint.session # None =>
          {c \in claims : c[1] = "hourly" /\ c[2] = checkpoint.session} =
              HourlyGrants(checkpoint.session, 0, HoursOf(checkpoint.active))
    /\ \A g, h \in grants : g[1] = h[1] => g = h

-----------------------------------------------------------------------------
(* What the documentation says of it, and the code does not do.            *)

(* "Missing coordinates ... never creates active time." *)
NothingFromNowhere == ~blind
=============================================================================
