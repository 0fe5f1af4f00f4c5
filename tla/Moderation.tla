----------------------------- MODULE Moderation -----------------------------
(***************************************************************************)
(* Bans, the allowlist policy and presence sessions: admin/moderation.py   *)
(* and moderation_tick of admin/admin_panel.py.                            *)
(*                                                                         *)
(* A tick is run by the worker every few seconds, and by every handler     *)
(* thread that has created a ban or is asked for one.  Each store call is  *)
(* a transaction of its own; the players are read once, at the beginning.  *)
(* A kick is a message to the game, which does not answer.  All mutation   *)
(* gates are open.                                                         *)
(***************************************************************************)
EXTENDS Naturals, FiniteSets

CONSTANTS
    Accounts,  \* player accounts
    Bans,      \* ban ids
    Tickers,   \* threads that run ticks
    Lists,     \* TRUE if the allowlist policy is used
    MaxFaults, \* bound: deaths of the panel, and records that raise
    None

Policy == "allowlist"
Causes == Bans \cup {Policy}

ModerationAssumption ==
    /\ None \notin Accounts \cup Bans \cup Tickers
    /\ Policy \notin Bans /\ Lists \in BOOLEAN /\ MaxFaults \in Nat

VARIABLES
    online,    \* accounts in the game
    ban,       \* bans table
    enforced,  \* allowlist_enforcement
    listed,    \* accounts the allowlist covers
    cooling,   \* enforcement events younger than the cooldown
    session,   \* accounts with an open presence session
    tick,      \* by thread, the tick it runs
    faults,
    recent,    \* history: how often each kick was published within a cooldown
    unkept,    \* history: how often its record was lost within that cooldown
    unjust,    \* history: by ban, kicks published after it was revoked
    left       \* history: accounts that left since their session was opened

store == <<ban, enforced, listed, cooling, session>>
history == <<recent, unkept, unjust, left>>
vars == <<online, store, tick, faults, history>>

(* "newer" is history: accounts whose session was opened since the sample. *)
Idle == [pc |-> "idle", players |-> {}, newer |-> {}, blocks |-> FALSE,
         account |-> None, cause |-> None]

Kick(cause, a) == [cause |-> cause, account |-> a]
Kicks == [cause : Causes, account : Accounts]

Init ==
    /\ online = {}
    /\ ban = [b \in Bans |-> [state |-> "none", covers |-> {}, lapsed |-> FALSE]]
    /\ enforced = FALSE /\ listed = {}
    /\ cooling = {} /\ session = {}
    /\ tick = [p \in Tickers |-> Idle]
    /\ faults = 0
    /\ recent = [k \in Kicks |-> 0] /\ unkept = [k \in Kicks |-> 0]
    /\ unjust = [b \in Bans |-> 0] /\ left = {}

(* active_ban: not revoked, not expired, whatever expire_bans has done yet. *)
InForce(b, a) == ban[b].state = "active" /\ ~ ban[b].lapsed /\ a \in ban[b].covers

-----------------------------------------------------------------------------
(* Operators' requests. *)

(* A ban covers every account that matches one of its identities. *)
CreateBan(b) ==
    /\ ban[b].state = "none"
    /\ \E covers \in (SUBSET Accounts) \ {{}} :
         ban' = [ban EXCEPT ![b] = [@ EXCEPT !.state = "active", !.covers = covers]]
    /\ UNCHANGED <<online, enforced, listed, cooling, session, tick, faults, history>>

(* unban: of a ban whose row is active, expired or not. *)
Unban(b) ==
    /\ ban[b].state = "active"
    /\ ban' = [ban EXCEPT ![b].state = "revoked"]
    /\ UNCHANGED <<online, enforced, listed, cooling, session, tick, faults, history>>

SetAllowlist(a) ==
    /\ Lists
    /\ listed' \in {listed \cup {a}, listed \ {a}}
    /\ UNCHANGED <<online, ban, enforced, cooling, session, tick, faults, history>>

SetEnforcement ==
    /\ Lists
    /\ enforced' = ~ enforced
    /\ UNCHANGED <<online, ban, listed, cooling, session, tick, faults, history>>

-----------------------------------------------------------------------------
(* moderation_tick. *)

Step(p, from, to) ==
    /\ tick[p].pc = from
    /\ tick' = [tick EXCEPT ![p].pc = to]

(* The online players, from the game's database. *)
ReadPlayers(p) ==
    /\ tick[p].pc = "idle"
    /\ tick' = [tick EXCEPT ![p] = [Idle EXCEPT !.pc = "presence", !.players = online]]
    /\ UNCHANGED <<online, store, faults, history>>

(* The players a sample shows. *)
Seen(players) == players

(* record_presence: sessions of absent players end, others begin or go on. *)
RecordPresence(p) ==
    LET opened == Seen(tick[p].players) \ session IN
    /\ tick[p].pc = "presence"
    /\ tick' = [q \in Tickers |-> IF q = p THEN [tick[q] EXCEPT !.pc = "expire"]
                                  ELSE IF tick[q].pc = "presence"
                                  THEN [tick[q] EXCEPT !.newer = @ \cup opened]
                                  ELSE tick[q]]
    /\ session' = Seen(tick[p].players)
    /\ left' = left \ (opened \cap online)
    /\ UNCHANGED <<online, ban, enforced, listed, cooling, faults, recent, unkept, unjust>>

(* expire_bans, in one transaction. *)
ExpireBans(p) ==
    LET over == {b \in Bans : ban[b].state = "active" /\ ban[b].lapsed} IN
    /\ Step(p, "expire", "policy")
    /\ ban' = [b \in Bans |-> IF b \in over THEN [ban[b] EXCEPT !.state = "expired"]
                                            ELSE ban[b]]
    /\ UNCHANGED <<online, enforced, listed, cooling, session, faults, history>>

ReadPolicy(p) ==
    /\ tick[p].pc = "policy"
    /\ tick' = [tick EXCEPT ![p].pc = "judge", ![p].blocks = enforced]
    /\ UNCHANGED <<online, store, faults, history>>

(* recently_enforced, recently_policy_enforced. *)
CoolingDown(cause, a) == Kick(cause, a) \in cooling

(* The next player of the sample: active_ban, the newest in force, here any
   of them.  The allowlist is read after that, if the policy is enforced. *)
Judge(p) ==
    /\ tick[p].pc = "judge"
    /\ \E a \in tick[p].players :
         LET bans == {b \in Bans : InForce(b, a)} IN
         \E c \in IF bans = {} THEN {None} ELSE bans :
             tick' = [tick EXCEPT ![p] = [@ EXCEPT
                        !.players = @ \ {a}, !.account = a, !.cause = c,
                        !.pc = IF tick[p].blocks THEN "list"
                               ELSE IF c = None THEN "judge" ELSE "cooldown"]]
    /\ UNCHANGED <<online, store, faults, history>>

(* allowlisted: who is not on the list is kicked for that, if not for a ban. *)
ReadList(p) ==
    /\ tick[p].pc = "list"
    /\ \/ /\ tick[p].cause # None
          /\ tick' = [tick EXCEPT ![p].pc = "cooldown"]
       \/ /\ tick[p].cause = None /\ tick[p].account \notin listed
          /\ tick' = [tick EXCEPT ![p].pc = "cooldown", ![p].cause = Policy]
       \/ /\ tick[p].cause = None /\ tick[p].account \in listed
          /\ tick' = [tick EXCEPT ![p].pc = "judge"]
    /\ UNCHANGED <<online, store, faults, history>>

LeaveAlone(p) ==
    /\ CoolingDown(tick[p].cause, tick[p].account)
    /\ Step(p, "cooldown", "judge")
    /\ UNCHANGED <<online, store, faults, history>>

DecideKick(p) ==
    /\ ~ CoolingDown(tick[p].cause, tick[p].account)
    /\ Step(p, "cooldown", "kick")
    /\ UNCHANGED <<online, store, faults, history>>

Kicked(p) == Kick(tick[p].cause, tick[p].account)
Revoked(c) == c # Policy /\ ban[c].state = "revoked"

(* KickPlayer is queued. *)
PublishKick(p) ==
    LET c == tick[p].cause IN
    /\ Step(p, "kick", "record")
    /\ recent' = [recent EXCEPT ![Kicked(p)] = @ + 1]
    /\ unjust' = IF Revoked(c) THEN [unjust EXCEPT ![c] = @ + 1] ELSE unjust
    /\ UNCHANGED <<online, store, faults, unkept, left>>

(* The message cannot be queued, or the account has no Funcom id. *)
PublishFails(p) ==
    /\ Step(p, "kick", "record")
    /\ UNCHANGED <<online, store, faults, history>>

(* Fault: the receipt is left to the next tick. *)
RecordKick_Not(p) ==
    /\ Step(p, "record", "judge")
    /\ UNCHANGED <<online, store, faults, history>>

(* record_enforcement: success and failure alike start the cooldown. *)
RecordKick(p) ==
    /\ Step(p, "record", "judge")
    /\ cooling' = cooling \cup {Kicked(p)}
    /\ UNCHANGED <<online, ban, enforced, listed, session, faults, history>>

(* It raises, and so does the attempt to record that: the tick ends. *)
Spend == faults < MaxFaults /\ faults' = faults + 1

RecordRaises(p) ==
    /\ tick[p].pc = "record" /\ Spend
    /\ tick' = [tick EXCEPT ![p] = Idle]
    /\ unkept' = [unkept EXCEPT ![Kicked(p)] = @ + 1]
    /\ UNCHANGED <<online, store, recent, unjust, left>>

(* Logs are ingested and old rows pruned; the next tick comes. *)
EndTick(p) ==
    /\ tick[p].pc = "judge" /\ tick[p].players = {}
    /\ tick' = [tick EXCEPT ![p] = Idle]
    /\ UNCHANGED <<online, store, faults, history>>

-----------------------------------------------------------------------------
(* Players, time and the panel. *)

LogIn(a) ==
    /\ a \notin online /\ online' = online \cup {a}
    /\ UNCHANGED <<store, tick, faults, history>>

LogOut(a) ==
    /\ a \in online /\ online' = online \ {a}
    /\ left' = left \cup {a}
    /\ UNCHANGED <<store, tick, faults, recent, unkept, unjust>>

(* expires_at of a temporary ban passes. *)
Lapse(b) ==
    /\ ban[b].state = "active" /\ ~ ban[b].lapsed
    /\ ban' = [ban EXCEPT ![b].lapsed = TRUE]
    /\ UNCHANGED <<online, enforced, listed, cooling, session, tick, faults, history>>

CoolOff(k) ==
    /\ k \in cooling \/ recent[k] > 0
    /\ cooling' = cooling \ {k}
    /\ recent' = [recent EXCEPT ![k] = 0] /\ unkept' = [unkept EXCEPT ![k] = 0]
    /\ UNCHANGED <<online, ban, enforced, listed, session, tick, faults, unjust, left>>

Recording(k) == {p \in Tickers : tick[p].pc = "record" /\ Kicked(p) = k}

Crash ==
    /\ Spend
    /\ tick' = [p \in Tickers |-> Idle]
    /\ unkept' = [k \in Kicks |-> unkept[k] + Cardinality(Recording(k))]
    /\ UNCHANGED <<online, store, recent, unjust, left>>

Ticking(p) ==
    \/ ReadPlayers(p) \/ RecordPresence(p) \/ ExpireBans(p) \/ ReadPolicy(p)
    \/ Judge(p) \/ ReadList(p) \/ LeaveAlone(p) \/ DecideKick(p)
    \/ PublishKick(p) \/ PublishFails(p) \/ RecordKick(p) \/ RecordRaises(p) \/ EndTick(p)

Next ==
    \/ \E b \in Bans : CreateBan(b) \/ Unban(b) \/ Lapse(b)
    \/ \E a \in Accounts : SetAllowlist(a) \/ LogIn(a) \/ LogOut(a)
    \/ SetEnforcement \/ Crash
    \/ \E p \in Tickers : Ticking(p)
    \/ \E k \in Kicks : CoolOff(k)

Spec == Init /\ [][Next]_vars

(* The worker ticks for ever, its calls return, the broker does not refuse
   the same kick for ever, and cooldowns pass. *)
FairSpec ==
    /\ Spec
    /\ \A p \in Tickers : WF_vars(Ticking(p)) /\ \A a \in Accounts, c \in Causes :
         SF_vars(PublishKick(p) /\ tick[p].account = a /\ tick[p].cause = c)
    /\ \A k \in Kicks : WF_vars(CoolOff(k))

-----------------------------------------------------------------------------
(* Properties. *)

(* Type invariant: bans, sessions and ticks keep their shape. *)
TypeOK ==
    /\ online \subseteq Accounts /\ listed \subseteq Accounts /\ session \subseteq Accounts
    /\ ban \in [Bans -> [state : {"none", "active", "revoked", "expired"},
                         covers : SUBSET Accounts, lapsed : BOOLEAN]]
    /\ \A b \in Bans : ban[b].state # "none" => ban[b].covers # {}
    /\ enforced \in BOOLEAN /\ cooling \subseteq Kicks /\ left \subseteq Accounts
    /\ \A p \in Tickers :
         /\ tick[p].players \subseteq Accounts /\ tick[p].newer \subseteq Accounts
         /\ tick[p].pc \in {"cooldown", "kick", "record"} =>
              tick[p].account \in Accounts \ tick[p].players /\ tick[p].cause \in Causes

(* Within a cooldown, an account is kicked for one cause at most once by each
   thread that runs ticks, and once more for each record that a death or an
   error lost (recently_enforced, record_enforcement). *)
KicksAreFew == \A k \in Kicks : recent[k] <= Cardinality(Tickers) + unkept[k]

(* A revoked ban ejects at most one more player for each thread that was past
   active_ban, whatever the sample and however many it covers (unban). *)
RevokedBansEnd == \A b \in Bans : unjust[b] <= Cardinality(Tickers) + faults

(* A session ends only if the player has left since it began, or by a sample
   that was read before it was opened (record_presence). *)
ClosedByLeaving(p) == session \ session' \subseteq left \cup tick[p].newer
SessionsEndForCause == \A p \in Tickers : RecordPresence(p) => ClosedByLeaving(p)

(* docs/moderation-history.md: "enforcement retries after a cooldown": no
   account is kicked twice for the same cause within one. *)
CooldownHolds == \A k \in Kicks : recent[k] <= 1

(* docs/moderation-history.md: "unban stops future ejection": nothing is
   published for a ban after it has been revoked. *)
UnbanStops == \A b \in Bans : unjust[b] = 0

(* docs/moderation-history.md: presence sessions are "Join/last-seen/leave
   intervals": a session ends only if the player has left. *)
SessionsAreVisits == [][session \ session' \subseteq left]_vars

(* A player who is banned and stays online is kicked, again and again, even
   if kicks fail and other players are covered by the same ban (lines
   12452-12484). *)
EjectsBanned ==
    \A a \in Accounts :
      a \in online /\ (\E b \in Bans : InForce(b, a)) ~>
        \/ a \notin online \/ ~ \E b \in Bans : InForce(b, a)
        \/ \E k \in Kicks : recent[k] > 0 /\ k.account = a

=============================================================================
