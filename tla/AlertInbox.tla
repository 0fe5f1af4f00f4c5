----------------------------- MODULE AlertInbox -----------------------------
(***************************************************************************)
(* The alert inbox: admin/alert_inbox.py, and alert_inbox_poll with the    *)
(* acknowledgement route of admin/admin_panel.py.                          *)
(*                                                                         *)
(* A poll holds ALERT_INBOX_POLL_LOCK while it asks Prometheus for the     *)
(* active alerts, writes the answer to the inbox in one transaction, and   *)
(* then tells the audit ledger (and so the webhooks) of every transition   *)
(* the transaction recorded.  The worker polls for ever, and so does a     *)
(* reader who asks for a refresh; who finds the lock taken gives up.       *)
(* Operators acknowledge meanwhile: one transaction, then the telling.     *)
(***************************************************************************)
EXTENDS Naturals, Sequences, FiniteSets

CONSTANTS
    Alerts,     \* label fingerprints
    Pollers,    \* threads that poll
    Worker,     \* the one that does so for ever
    Operators,  \* operators who acknowledge
    MaxFires,   \* bound: times an alert becomes active
    MaxDeaths,  \* bound: restarts of the panel
    None

ASSUME AlertInboxAssumption ==
    /\ Worker \in Pollers /\ None \notin Pollers \cup Operators
    /\ MaxFires \in Nat /\ MaxDeaths \in Nat

VARIABLES
    source,   \* Prometheus: the state of every alert
    fires,    \* history: how often it became active
    row,      \* alerts table
    failing,  \* metadata lastError: the last poll failed
    log,      \* transitions table, by alert, nothing pruned
    lock,     \* ALERT_INBOX_POLL_LOCK
    poll,     \* by poller, the poll it is in
    duty,     \* by operator, the acknowledgement still to be told
    told,     \* audit events of the inbox, by alert
    deaths

prometheus == <<source, fires>>
inbox == <<row, log, failing>>
vars == <<prometheus, inbox, lock, poll, duty, told, deaths>>

Active == {"pending", "firing"}
NoRow == [state |-> "none", gen |-> 0, owner |-> None]
Idle == [pc |-> "idle", answer |-> <<>>, todo |-> {}]

Init ==
    /\ source = [a \in Alerts |-> "absent"] /\ fires = [a \in Alerts |-> 0]
    /\ row = [a \in Alerts |-> NoRow]
    /\ failing = FALSE
    /\ log = [a \in Alerts |-> <<>>]
    /\ lock = None
    /\ poll = [p \in Pollers |-> Idle]
    /\ duty = [o \in Operators |-> {}]
    /\ told = [a \in Alerts |-> <<>>]
    /\ deaths = 0

-----------------------------------------------------------------------------
(* Prometheus: an alert is pending, then firing, or fires at once. *)

Fire(a) ==
    /\ source[a] = "absent" /\ fires[a] < MaxFires
    /\ \E s \in Active : source' = [source EXCEPT ![a] = s]
    /\ fires' = [fires EXCEPT ![a] = @ + 1]
    /\ UNCHANGED <<inbox, lock, poll, duty, told, deaths>>

Worsen(a) ==
    /\ source[a] = "pending"
    /\ source' = [source EXCEPT ![a] = "firing"]
    /\ UNCHANGED <<fires, inbox, lock, poll, duty, told, deaths>>

Cease(a) ==
    /\ source[a] \in Active
    /\ source' = [source EXCEPT ![a] = "absent"]
    /\ UNCHANGED <<fires, inbox, lock, poll, duty, told, deaths>>

-----------------------------------------------------------------------------
(* Polls. *)

(* Fault: a poll does not ask for the lock. *)
Begin_Unlocked(p) ==
    /\ poll[p].pc = "idle"
    /\ lock' = p
    /\ poll' = [poll EXCEPT ![p].pc = "fetch"]
    /\ UNCHANGED <<prometheus, inbox, duty, told, deaths>>

Begin(p) ==
    /\ poll[p].pc = "idle" /\ lock = None
    /\ lock' = p
    /\ poll' = [poll EXCEPT ![p].pc = "fetch"]
    /\ UNCHANGED <<prometheus, inbox, duty, told, deaths>>

Fetch(p) ==
    /\ poll[p].pc = "fetch"
    /\ poll' = [poll EXCEPT ![p].pc = "sync", ![p].answer = source]
    /\ UNCHANGED <<prometheus, inbox, lock, duty, told, deaths>>

(* Fault: the lock is kept when a poll fails. *)
PollFails_KeepsLock(p) ==
    /\ poll[p].pc \in {"fetch", "sync"}
    /\ failing' = TRUE
    /\ poll' = [poll EXCEPT ![p] = Idle]
    /\ UNCHANGED <<prometheus, row, log, lock, duty, told, deaths>>

(* No answer, one that normalize_alert refuses, or a database that rolls
   back: record_poll_error, and the lock is given back. *)
PollFails(p) ==
    /\ poll[p].pc \in {"fetch", "sync"}
    /\ failing' = TRUE
    /\ lock' = None
    /\ poll' = [poll EXCEPT ![p] = Idle]
    /\ UNCHANGED <<prometheus, row, log, duty, told, deaths>>

(* Fault: a poll keeps the acknowledgement of the generation before. *)
Merged_Keeps(r, s) ==
    CASE r.state = "none"     -> [state |-> s, gen |-> 1, owner |-> None]
      [] r.state = "resolved" -> [r EXCEPT !.state = s, !.gen = @ + 1]
      [] OTHER                -> [r EXCEPT !.state = s]

(* The row r of an alert that Prometheus reports in state s. *)
Merged(r, s) ==
    CASE r.state = "none"     -> [state |-> s, gen |-> 1, owner |-> None]
      [] r.state = "resolved" -> [state |-> s, gen |-> r.gen + 1, owner |-> None]
      [] OTHER                -> [r EXCEPT !.state = s]

(* What the transitions table says of a row that was r and is now n. *)
Transition(r, n) ==
    [kind |-> IF r.state = "resolved" THEN "refiring" ELSE n.state,
     gen |-> n.gen, by |-> None]

(* The row of an alert after a poll with this answer. *)
After(a, answer) ==
    IF answer[a] \in Active THEN Merged(row[a], answer[a])
    ELSE IF row[a].state \in Active THEN [row[a] EXCEPT !.state = "resolved"]
    ELSE row[a]

(* The transitions a poll has recorded, by number. *)
Numbered(changed) == {<<a, Len(log'[a])>> : a \in changed}

(* sync: one transaction, with the retention of resolved alerts. *)
Sync(p) ==
    LET after == [a \in Alerts |-> After(a, poll[p].answer)]
        changed == {a \in Alerts : after[a].state # row[a].state}
        resolved == {a \in Alerts \ changed : after[a].state = "resolved"}
    IN
    /\ poll[p].pc = "sync"
    /\ \E retired \in SUBSET resolved :
         row' = [a \in Alerts |-> IF a \in retired THEN NoRow ELSE after[a]]
    /\ log' = [a \in Alerts |->
                 IF a \in changed THEN Append(log[a], Transition(row[a], after[a])) ELSE log[a]]
    /\ failing' = FALSE
    /\ poll' = [poll EXCEPT ![p] = [Idle EXCEPT !.pc = "tell", !.todo = Numbered(changed)]]
    /\ UNCHANGED <<prometheus, lock, duty, told, deaths>>

Tell(p) ==
    /\ poll[p].pc = "tell"
    /\ \E t \in poll[p].todo :
         /\ poll' = [poll EXCEPT ![p].todo = @ \ {t}]
         /\ told' = [told EXCEPT ![t[1]] = Append(@, t[2])]
    /\ UNCHANGED <<prometheus, inbox, lock, duty, deaths>>

EndPoll(p) ==
    /\ poll[p].pc = "tell" /\ poll[p].todo = {}
    /\ lock' = None
    /\ poll' = [poll EXCEPT ![p] = Idle]
    /\ UNCHANGED <<prometheus, inbox, duty, told, deaths>>

Polling(p) == Begin(p) \/ Fetch(p) \/ PollFails(p) \/ Sync(p) \/ Tell(p) \/ EndPoll(p)

-----------------------------------------------------------------------------
(* Operators, and the panel's death. *)

(* An acknowledgement names the alert, not the generation; one of an owned
   alert changes nothing. *)
Acknowledge(o, a) ==
    /\ duty[o] = {}
    /\ row[a].state \in Active /\ row[a].owner = None
    /\ row' = [row EXCEPT ![a].owner = o]
    /\ log' = [log EXCEPT ![a] = Append(@, [kind |-> "acknowledged", gen |-> row[a].gen, by |-> o])]
    /\ duty' = [duty EXCEPT ![o] = {<<a, Len(log'[a])>>}]
    /\ UNCHANGED <<prometheus, failing, lock, poll, told, deaths>>

TellAcknowledged(o) ==
    /\ \E t \in duty[o] : told' = [told EXCEPT ![t[1]] = Append(@, t[2])]
    /\ duty' = [duty EXCEPT ![o] = {}]
    /\ UNCHANGED <<prometheus, inbox, lock, poll, deaths>>

Die ==
    /\ deaths < MaxDeaths
    /\ deaths' = deaths + 1
    /\ lock' = None
    /\ poll' = [p \in Pollers |-> Idle]
    /\ duty' = [o \in Operators |-> {}]
    /\ UNCHANGED <<prometheus, inbox, told>>

Next ==
    \/ \E a \in Alerts : Fire(a) \/ Worsen(a) \/ Cease(a)
    \/ \E p \in Pollers : Polling(p)
    \/ \E o \in Operators : TellAcknowledged(o) \/ \E a \in Alerts : Acknowledge(o, a)
    \/ Die

Spec == Init /\ [][Next]_vars

(* The worker sleeps a bounded time, a fetch and a transaction have timeouts,
   and Prometheus does not fail for ever. *)
FairSpec ==
    /\ Spec
    /\ WF_vars(Begin(Worker))
    /\ \A p \in Pollers :
         /\ SF_vars(Fetch(p)) /\ SF_vars(Sync(p))
         /\ WF_vars(Tell(p)) /\ WF_vars(EndPoll(p))

-----------------------------------------------------------------------------
States == Active \cup {"absent"}
Kinds == Active \cup {"refiring", "resolved", "acknowledged"}
Entries == [kind : Kinds, gen : Nat, by : Operators \cup {None}]
Rows == [state : Active \cup {"none", "resolved"}, gen : Nat, owner : Operators \cup {None}]

Tasks == Alerts \X Nat
Polls == [pc : {"idle", "fetch", "sync", "tell"},
          answer : [Alerts -> States] \cup {<<>>}, todo : SUBSET Tasks]

(* Transitions that are on record. *)
OnRecord(t) == t[2] \in DOMAIN log[t[1]]

(* The variables have their types. *)
TypeOK ==
    /\ source \in [Alerts -> States]
    /\ fires \in [Alerts -> Nat]
    /\ row \in [Alerts -> Rows]
    /\ failing \in BOOLEAN
    /\ log \in [Alerts -> Seq(Entries)]
    /\ lock \in Pollers \cup {None}
    /\ poll \in [Pollers -> Polls]
    /\ \A p \in Pollers : /\ poll[p].pc = "sync" => poll[p].answer \in [Alerts -> States]
                          /\ \A t \in poll[p].todo : OnRecord(t)
    /\ duty \in [Operators -> SUBSET Tasks]
    /\ \A o \in Operators : \A t \in duty[o] : OnRecord(t)
    /\ told \in [Alerts -> Seq(Nat)]
    /\ \A a \in Alerts : \A i \in DOMAIN told[a] : told[a][i] \in DOMAIN log[a]
    /\ deaths \in Nat

(* The transitions since the alert became active the last time. *)
Episode(a) ==
    LET over == {i \in DOMAIN log[a] : log[a][i].kind = "resolved" /\ i # Len(log[a])} IN
    {i \in DOMAIN log[a] : \A j \in over : j < i}

(* The transitions of an alert tell of one generation after the other: each
   is opened once and acknowledged at most once, and says nothing more once
   it is resolved, with polls and acknowledgements in any order. *)
OneStory ==
    \A a \in Alerts :
      /\ \A i \in 1..(Len(log[a]) - 1) :
           LET this == log[a][i]  next == log[a][i + 1] IN
           IF this.kind = "resolved"
           THEN \/ next.kind = "refiring" /\ next.gen = this.gen + 1
                \/ next.kind \in Active /\ next.gen = 1
           ELSE next.gen = this.gen /\ next.kind # "refiring"
      /\ Cardinality({i \in Episode(a) : log[a][i].kind = "acknowledged"}) <= 1

(* An alert has the owner who acknowledged this generation of it: an
   acknowledgement is neither lost to a later poll nor carried into the next
   generation (docs/alert-inbox.md:19, "clears the old acknowledgement"). *)
OwnerIsOnRecord ==
    \A a \in Alerts : row[a].state \in Active =>
      {o \in Operators : row[a].owner = o} =
        {log[a][i].by : i \in {j \in Episode(a) : log[a][j].kind = "acknowledged"}}

(* The inbox counts no more generations than there were: no answer is written
   after a later one, so no alert is resolved and fired again by the polls
   themselves. *)
GenerationsAreReal == \A a \in Alerts : row[a].gen <= fires[a]

(* The audit ledger and the webhooks hear of what polls found in the order
   in which it was found. *)
ToldInOrder ==
    \A a \in Alerts : \A i, j \in DOMAIN told[a] :
        /\ i < j
        /\ log[a][told[a][i]].kind # "acknowledged" /\ log[a][told[a][j]].kind # "acknowledged"
        => told[a][i] < told[a][j]

(* Whatever the inbox recorded is told, once, or is about to be, as long as
   the panel has not died. *)
ToldOnce ==
    deaths = 0 => \A a \in Alerts : \A i \in DOMAIN log[a] :
      Cardinality({j \in DOMAIN told[a] : told[a][j] = i})
        + Cardinality({p \in Pollers : <<a, i>> \in poll[p].todo})
        + Cardinality({o \in Operators : <<a, i>> \in duty[o]}) = 1

(* The transitions of an alert are one story of generations that Prometheus
   really showed, the owner is the one who took this generation, and all of
   it is told once. *)
InboxIsTrue == TypeOK /\ GenerationsAreReal /\ OneStory /\ OwnerIsOnRecord /\ ToldOnce

(* The inbox shows what Prometheus shows. *)
Current ==
    \A a \in Alerts : IF source[a] = "absent" THEN row[a].state \notin Active
                                              ELSE row[a].state = source[a]

(* Once Prometheus is at rest the inbox comes to show what it shows and never
   leaves it, although polls fail, readers poll too and the panel may die. *)
Converges == <>[]Current
=============================================================================
