------------------------------ MODULE Playtime ------------------------------
(***************************************************************************)
(* Playtime accrual and reward tracks of the community store, driven by    *)
(* community_delivery_tick: the worker and operators tick at any time, in  *)
(* threads of one process. A tick fixes its observation time first and     *)
(* then visits the linked accounts one by one: it reads the presence,      *)
(* credits the time in one transaction and adds the track progress in a    *)
(* second one. Each transaction of the store is one step.                  *)
(*                                                                         *)
(* Credits of the intervals are appended to the ledger in the transaction  *)
(* that counts them (module CommunityRewards has the ledger); here the     *)
(* number of credited intervals stands for them. Levels of a track and     *)
(* their deliveries follow its xp.                                         *)
(***************************************************************************)
EXTENDS Naturals, Sequences, FiniteSets, FiniteSetsExt

CONSTANTS
    Accounts,   \* linked accounts
    Order,      \* linked_accounts(), the order a tick visits them in
    Tickers,    \* threads that tick: the worker, an operator's request
    Interval,   \* intervalSeconds
    MaxGap,     \* maxObservationGapSeconds
    LevelXp,    \* the xp that unlocks level n of the track
    MaxClock,   \* bound: time
    MaxFaults, \* bound: ticks that raise, panel deaths
    None

PlaytimeAssumption ==
    /\ Order \in Seq(Accounts) /\ Accounts = {Order[i] : i \in DOMAIN Order}
    /\ {Interval, MaxGap, MaxClock} \subseteq Nat \ {0} /\ MaxFaults \in Nat
    /\ LevelXp \in Seq(Nat) /\ None \notin Nat

VARIABLES
    present,    \* who is online in the game
    clock,
    checkpoint, \* playtime_checkpoints
    xp,         \* track_progress
    markers,    \* metadata keys of track progress
    claims,     \* track_claims: <<account, level>>
    deliveries, \* number of track-claim deliveries queued per <<account, level>>
    tick,       \* Tickers -> where the tick is
    counted,    \* history: seconds counted per account
    seen,       \* history: observation times of an account
    sighted,    \* history: those at which it was found online
    late,       \* history: observations no later than one that had been made
    back,       \* history: seconds that they set the row back
    repeated,   \* history: a repeated observation time counted some seconds
    faults      \* ticks that raised and panel deaths so far

store == <<checkpoint, xp, markers, claims, deliveries>>
history == <<counted, seen, sighted, late, back, repeated>>
vars == <<present, clock, store, tick, history, faults>>

NoCheckpoint == [at |-> None, online |-> FALSE, rest |-> 0, intervals |-> 0]
Idle == [pc |-> "idle", now |-> 0, left |-> << >>, online |-> FALSE, earned |-> 0]

Init ==
    /\ present \in SUBSET Accounts /\ clock = 0
    /\ checkpoint = [a \in Accounts |-> NoCheckpoint]
    /\ xp = [a \in Accounts |-> 0] /\ markers = {}
    /\ claims = {} /\ deliveries = [c \in Accounts \X DOMAIN LevelXp |-> 0]
    /\ tick = [t \in Tickers |-> Idle]
    /\ counted = [a \in Accounts |-> 0]
    /\ seen = [a \in Accounts |-> {}] /\ sighted = [a \in Accounts |-> {}]
    /\ late = [a \in Accounts |-> 0] /\ back = [a \in Accounts |-> 0] /\ repeated = FALSE
    /\ faults = 0

-----------------------------------------------------------------------------
(* Players come and go between seconds. *)
Second ==
    /\ clock < MaxClock /\ clock' = clock + 1
    /\ present' \in SUBSET Accounts
    /\ UNCHANGED <<store, tick, history, faults>>

-----------------------------------------------------------------------------
(* community_delivery_tick *)
StartTick(t) ==
    /\ tick[t].pc = "idle"
    /\ tick' = [tick EXCEPT ![t] = [Idle EXCEPT !.pc = "look", !.now = clock, !.left = Order]]
    /\ UNCHANGED <<present, clock, store, history, faults>>

Look(t) ==
    /\ tick[t].pc = "look"
    /\ tick' = [tick EXCEPT ![t] =
                   IF tick[t].left = << >> THEN Idle
                   ELSE [tick[t] EXCEPT !.pc = "credit", !.online = Head(tick[t].left) \in present]]
    /\ UNCHANGED <<present, clock, store, history, faults>>

(* The query or a transaction raises: the tick is over. *)
Raise(t) ==
    /\ tick[t].pc \in {"look", "credit", "track"} /\ tick[t].left # << >>
    /\ tick' = [tick EXCEPT ![t] = Idle]
    /\ faults < MaxFaults /\ faults' = faults + 1
    /\ UNCHANGED <<present, clock, store, history>>

(* observe_playtime: the seconds since the checkpoint count when it was an *)
(* online one, up to the gap that is allowed.                              *)
Longest == Max({MaxGap, Interval})

(* Fault: what the checkpoint saw does not matter. *)
Elapsed_AnyRow(c, now) == IF now < c.at THEN 0 ELSE Min({now - c.at, Longest})
Elapsed(c, now) ==
    IF ~c.online \/ now < c.at THEN 0 ELSE Min({now - c.at, Longest})

Accrued(c, seconds) ==
    [intervals |-> (c.rest + seconds) \div Interval, rest |-> (c.rest + seconds) % Interval]

(* An observation of this time or a later one was made. *)
Overtaken(a, now) == \E s \in seen[a] : now <= s

Observe(t) ==
    /\ tick[t].pc = "credit"
    /\ LET a == Head(tick[t].left)
           c == checkpoint[a]
           now == tick[t].now
           seconds == IF c.at = None THEN 0 ELSE Elapsed(c, now)
           new == Accrued(c, seconds)
       IN  /\ checkpoint' = [checkpoint EXCEPT ![a] =
                                [at |-> now, online |-> tick[t].online, rest |-> new.rest,
                                 intervals |-> c.intervals + new.intervals]]
           /\ tick' = [tick EXCEPT ![t] =
                          IF new.intervals > 0
                          THEN [tick[t] EXCEPT !.pc = "track", !.earned = new.intervals]
                          ELSE [tick[t] EXCEPT !.pc = "look", !.left = Tail(tick[t].left)]]
           /\ counted' = [counted EXCEPT ![a] = @ + seconds]
           /\ seen' = [seen EXCEPT ![a] = @ \cup {now}]
           /\ sighted' = IF tick[t].online THEN [sighted EXCEPT ![a] = @ \cup {now}] ELSE sighted
           /\ late' = IF now # c.at /\ Overtaken(a, now) THEN [late EXCEPT ![a] = @ + 1] ELSE late
           /\ back' = IF c.at # None /\ now < c.at
                      THEN [back EXCEPT ![a] = @ + (c.at - now)] ELSE back
           /\ repeated' = (repeated \/ (now \in seen[a] /\ seconds > 0))
    /\ UNCHANGED <<present, clock, xp, markers, claims, deliveries, faults>>

(* add_track_progress, under a reference that names the interval.          *)
AddProgress(t) ==
    /\ tick[t].pc = "track"
    /\ LET a == Head(tick[t].left)
           ref == tick[t].now \div Interval
       IN  /\ xp' = [xp EXCEPT ![a] = @ + IF ref \in markers THEN 0 ELSE tick[t].earned]
           /\ markers' = markers \cup {ref}
    /\ tick' = [tick EXCEPT ![t] =
                   [@ EXCEPT !.pc = "look", !.left = Tail(tick[t].left), !.earned = 0]]
    /\ UNCHANGED <<present, clock, checkpoint, claims, deliveries, history, faults>>

(* claim_track_level: a repeated claim is answered with the first one.     *)
ClaimedBefore(a, n) == <<a, n>> \in claims

ClaimLevel(a, n) ==
    /\ xp[a] >= LevelXp[n] /\ ~ClaimedBefore(a, n)
    /\ claims' = claims \cup {<<a, n>>}
    /\ deliveries' = [deliveries EXCEPT ![<<a, n>>] = @ + 1]
    /\ UNCHANGED <<present, clock, checkpoint, xp, markers, tick, history, faults>>

-----------------------------------------------------------------------------
(* The panel dies; the store keeps what was committed. *)
Crash ==
    /\ faults < MaxFaults /\ faults' = faults + 1
    /\ tick' = [t \in Tickers |-> Idle]
    /\ UNCHANGED <<present, clock, store, history>>

Next ==
    \/ Second
    \/ \E t \in Tickers : StartTick(t) \/ Look(t) \/ Raise(t) \/ Observe(t) \/ AddProgress(t)
    \/ \E a \in Accounts, n \in DOMAIN LevelXp : ClaimLevel(a, n)
    \/ Crash

Spec == Init /\ [][Next]_vars

-----------------------------------------------------------------------------
(* Properties.                                                             *)

(* The variables stay in their sets; a remainder is less than an interval. *)
TypeOK ==
    /\ present \subseteq Accounts /\ clock \in 0..MaxClock
    /\ checkpoint \in [Accounts -> [at : {None} \cup 0..MaxClock, online : BOOLEAN,
                                    rest : 0..(Interval - 1), intervals : Nat]]
    /\ xp \in [Accounts -> Nat] /\ markers \subseteq 0..MaxClock
    /\ claims \subseteq Accounts \X DOMAIN LevelXp

OneTicks == \A t, u \in Tickers : t = u

(* Every counted second is in a credited interval or in the remainder; and *)
(* no more seconds were counted than lie between the first observation and *)
(* the row, and those that a thread which was overtaken set it back        *)
(* (observe_playtime).                                                     *)
SecondsAreKept ==
    \A a \in Accounts :
        /\ counted[a] = checkpoint[a].intervals * Interval + checkpoint[a].rest
        /\ seen[a] # {} => counted[a] + Min(seen[a]) <= checkpoint[a].at + back[a]

(* Downtime earns at most the allowed gap (maxObservationGapSeconds): it   *)
(* is earned once from each time the account was found online at, and once *)
(* more for each observation that came late.                               *)
DowntimeIsBounded ==
    \A a \in Accounts : counted[a] <= (Cardinality(sighted[a]) + late[a]) * Longest

(* Nothing comes late when one thread ticks, whatever raises or dies.      *)
OneThreadIsInTime ==
    OneTicks => \A a \in Accounts : late[a] = 0 /\ back[a] = 0

(* One delivery for a claimed level, however often it is claimed.          *)
OneDeliveryPerLevel ==
    \A c \in DOMAIN deliveries : deliveries[c] = IF c \in claims THEN 1 ELSE 0

-----------------------------------------------------------------------------
(* What the documentation says of it, and the code does not do.            *)

(* "Repeating an observation timestamp grants nothing." *)
RepeatGrantsNothing == ~repeated

(* "trackXpPerInterval": while nothing raised or crashed, the track has    *)
(* the xp of every credited interval once the ticks are over.              *)
XpPerInterval ==
    (\A t \in Tickers : tick[t].pc = "idle") =>
        \A a \in Accounts : xp[a] = checkpoint[a].intervals
=============================================================================
