------------------------- MODULE OperationsBriefing -------------------------
(***************************************************************************)
(* The signed operator briefing: run_operations_briefing, its worker and   *)
(* request_operations_briefing_refresh of admin/admin_panel.py, with the   *)
(* store and the policy of admin/operations_briefing.py.                   *)
(*                                                                         *)
(* A thread that changes what the briefing reports says so in an audit     *)
(* event, and that marks the briefing: three writes to a dictionary that   *)
(* the worker reads and writes without a lock, and an event that wakes the *)
(* worker.  Collecting the sources takes long.  A source is its category,  *)
(* which the fingerprint covers, and its detail, which it does not.        *)
(***************************************************************************)
EXTENDS Naturals, FiniteSets

CONSTANTS
    Cats,         \* categorical states of the sources
    Notifiers,    \* threads that change sources and say so
    Silent,       \* TRUE if sources change unobserved, too
    MaxChanges,   \* bound: changes
    MaxRefreshes, \* bound: receipts that grow old
    MaxDeaths,    \* bound: restarts of the panel
    None

(* What the authorities may report; None is no report. *)
Sources == [cat : Cats, detail : 0..MaxChanges]

OperationsBriefingAssumption ==
    /\ None \notin Cats \cup Sources /\ Cats # {} /\ IsFiniteSet(Notifiers) /\ Silent \in BOOLEAN
    /\ {MaxChanges, MaxRefreshes, MaxDeaths} \subseteq Nat

VARIABLES
    source,   \* what the authorities would report: category and detail
    fp,       \* RUNTIME currentFingerprint
    pending,  \* RUNTIME refreshPending
    forced,   \* RUNTIME forceRefreshPending
    count,    \* RUNTIME invalidations
    failed,   \* RUNTIME lastError
    wake,     \* OPERATIONS_BRIEFING_WAKE_EVENT
    receipt,  \* the latest signed receipt
    age,      \* how old it is
    note,     \* by notifier, its request_operations_briefing_refresh
    work,     \* the worker's run
    made,     \* history: receipts made
    changes, refreshes, deaths

marks == <<fp, pending, forced, count>>
runtime == <<marks, failed>>
store == <<receipt, age, made>>
bounds == <<changes, refreshes, deaths>>
vars == <<source, runtime, wake, store, note, work, bounds>>

NoNote == [pc |-> "idle", force |-> FALSE, count |-> 0]
NoWork == [pc |-> "begin", count |-> 0, force |-> FALSE, seen |-> None]

Init ==
    /\ source \in [cat : Cats, detail : {0}]
    /\ fp = None /\ pending = FALSE /\ forced = FALSE /\ count = 0 /\ failed = FALSE
    /\ wake = FALSE
    /\ receipt = None /\ age = "new"
    /\ note = [n \in Notifiers |-> NoNote]
    /\ work = NoWork
    /\ made = 0
    /\ changes = 0 /\ refreshes = 0 /\ deaths = 0

-----------------------------------------------------------------------------
(* Changes, and how they are announced. *)

(* A change of category, or one of the backup schedule and its detail. *)
Change(n) ==
    /\ note[n].pc = "idle" /\ changes < MaxChanges
    /\ \E force \in BOOLEAN :
         /\ IF force THEN source' = [source EXCEPT !.detail = @ + 1]
                     ELSE \E c \in Cats \ {source.cat} : source' = [source EXCEPT !.cat = c]
         /\ note' = [note EXCEPT ![n] = [NoNote EXCEPT !.pc = "read", !.force = force]]
    /\ changes' = changes + 1
    /\ UNCHANGED <<runtime, wake, store, work, refreshes, deaths>>

(* The new count is computed before the dictionary is updated. *)
ReadCount(n) ==
    /\ note[n].pc = "read"
    /\ note' = [note EXCEPT ![n].pc = "mark", ![n].count = count]
    /\ UNCHANGED <<source, runtime, wake, store, work, bounds>>

Mark(n) ==
    /\ note[n].pc = "mark"
    /\ fp' = None /\ pending' = TRUE /\ count' = note[n].count + 1
    /\ note' = [note EXCEPT ![n].pc = IF note[n].force THEN "force" ELSE "wake"]
    /\ UNCHANGED <<source, forced, failed, wake, store, work, bounds>>

Force(n) ==
    /\ note[n].pc = "force"
    /\ forced' = TRUE
    /\ note' = [note EXCEPT ![n].pc = "wake"]
    /\ UNCHANGED <<source, fp, pending, count, failed, wake, store, work, bounds>>

Wake(n) ==
    /\ note[n].pc = "wake"
    /\ wake' = TRUE
    /\ note' = [note EXCEPT ![n] = NoNote]
    /\ UNCHANGED <<source, runtime, store, work, bounds>>

(* A provider's state or a file that nobody announces. *)
Drift ==
    /\ Silent /\ changes < MaxChanges
    /\ \E c \in Cats \ {source.cat} : source' = [source EXCEPT !.cat = c]
    /\ changes' = changes + 1
    /\ UNCHANGED <<runtime, wake, store, note, work, refreshes, deaths>>

(* The receipt is older than the interval of changes, then than a day. *)
GrowOld ==
    /\ receipt # None
    /\ \/ age = "new" /\ age' = "settled" /\ UNCHANGED refreshes
       \/ /\ age = "settled" /\ age' = "old"
          /\ refreshes < MaxRefreshes /\ refreshes' = refreshes + 1
    /\ UNCHANGED <<source, runtime, wake, receipt, note, work, made, changes, deaths>>

-----------------------------------------------------------------------------
(* The worker. *)

At(pc) == work.pc = pc
Waiting == At("wait") \/ At("retry")
Goto(pc) == work' = [work EXCEPT !.pc = pc]

(* The event: cleared before the run, and then the debounce. *)
Woken ==
    /\ Waiting /\ wake
    /\ wake' = FALSE
    /\ Goto("begin")
    /\ UNCHANGED <<source, runtime, store, note, bounds>>

(* The poll interval, or what is left of the interval of changes, is over. *)
TimedOut ==
    /\ Waiting /\ ~ wake
    /\ Goto("begin")
    /\ UNCHANGED <<source, runtime, wake, store, note, bounds>>

Begin ==
    /\ At("begin")
    /\ work' = [work EXCEPT !.pc = "force", !.count = count]
    /\ UNCHANGED <<source, runtime, wake, store, note, bounds>>

ReadForce ==
    /\ At("force")
    /\ work' = [work EXCEPT !.pc = "collect", !.force = forced]
    /\ UNCHANGED <<source, runtime, wake, store, note, bounds>>

(* operations_briefing_sources *)
Collect ==
    /\ At("collect")
    /\ work' = [work EXCEPT !.pc = "publish", !.seen = source]
    /\ UNCHANGED <<source, runtime, wake, store, note, bounds>>

Publish ==
    /\ At("publish")
    /\ fp' = work.seen.cat
    /\ Goto("decide")
    /\ UNCHANGED <<source, pending, forced, count, failed, wake, store, note, bounds>>

(* generation_policy *)
Due == receipt # None => receipt.cat # work.seen.cat \/ age = "old"
Cooldown == receipt # None /\ age = "new"

Record ==
    /\ At("decide")
    /\ work.force \/ (Due /\ ~ Cooldown)
    /\ receipt' = work.seen /\ age' = "new"
    /\ made' = made + 1
    /\ failed' = FALSE
    /\ Goto("check")
    /\ UNCHANGED <<source, marks, wake, note, bounds>>

(* It is due, but too soon: the worker comes back for it. *)
Postpone ==
    /\ At("decide") /\ ~ work.force /\ Due /\ Cooldown
    /\ pending' = TRUE /\ failed' = FALSE
    /\ Goto("retry")
    /\ UNCHANGED <<source, fp, forced, count, wake, store, note, bounds>>

Skip ==
    /\ At("decide") /\ ~ work.force /\ ~ Due
    /\ failed' = FALSE
    /\ Goto("check")
    /\ UNCHANGED <<source, marks, wake, store, note, bounds>>

(* The store cannot be read or written: the marks stay. *)
Fail ==
    /\ At("decide")
    /\ failed' = TRUE
    /\ Goto("wait")
    /\ UNCHANGED <<source, marks, wake, store, note, bounds>>

(* Fault: the event is cleared at the end of the run, too. *)
Check_ClearsWake ==
    /\ At("check")
    /\ wake' = FALSE
    /\ Goto(IF count = work.count THEN "clear" ELSE "wait")
    /\ UNCHANGED <<source, runtime, store, note, bounds>>

Check ==
    /\ At("check")
    /\ Goto(IF count = work.count THEN "clear" ELSE "wait")
    /\ UNCHANGED <<source, runtime, wake, store, note, bounds>>

Clear ==
    /\ At("clear")
    /\ pending' = FALSE
    /\ Goto(IF work.force THEN "unforce" ELSE "wait")
    /\ UNCHANGED <<source, fp, forced, count, failed, wake, store, note, bounds>>

Unforce ==
    /\ At("unforce")
    /\ forced' = FALSE
    /\ Goto("wait")
    /\ UNCHANGED <<source, fp, pending, count, failed, wake, store, note, bounds>>

(* A death of the panel takes the dictionary with it; the worker of the next
   one collects at once. *)
Die ==
    /\ deaths < MaxDeaths
    /\ deaths' = deaths + 1
    /\ fp' = None /\ pending' = FALSE /\ forced' = FALSE /\ count' = 0
    /\ failed' = FALSE /\ wake' = FALSE
    /\ note' = [n \in Notifiers |-> NoNote]
    /\ work' = NoWork
    /\ UNCHANGED <<source, store, changes, refreshes>>

Announce(n) == ReadCount(n) \/ Mark(n) \/ Force(n) \/ Wake(n)

Work == \/ Woken \/ TimedOut \/ Begin \/ ReadForce \/ Collect \/ Publish
        \/ Record \/ Postpone \/ Skip \/ Fail \/ Check \/ Clear \/ Unforce

Next ==
    \/ \E n \in Notifiers : Change(n) \/ Announce(n)
    \/ Drift \/ GrowOld \/ Work \/ Die

Spec == Init /\ [][Next]_vars

(* Threads go on, collecting ends, waits have a timeout, intervals pass, and
   the store does not fail for ever. *)
FairSpec ==
    /\ Spec
    /\ \A n \in Notifiers : WF_vars(Announce(n))
    /\ WF_vars(Work) /\ SF_vars(Record)
    /\ WF_vars(GrowOld /\ age = "new")

-----------------------------------------------------------------------------
Stages == {"begin", "force", "collect", "publish", "decide", "check", "clear", "unforce", "wait", "retry"}
NotePc == {"idle", "read", "mark", "force", "wake"}

(* The variables have their types, and a run has collected what it uses. *)
TypeOK ==
    /\ source \in Sources
    /\ fp \in Cats \cup {None} /\ {pending, forced, failed, wake} \subseteq BOOLEAN
    /\ count \in 0..MaxChanges
    /\ receipt \in Sources \cup {None} /\ age \in {"new", "settled", "old"}
    /\ note \in [Notifiers -> [pc : NotePc, force : BOOLEAN, count : 0..MaxChanges]]
    /\ work \in [pc : Stages, count : 0..MaxChanges, force : BOOLEAN, seen : Sources \cup {None}]
    /\ work.pc \in {"publish", "decide"} => work.seen # None
    /\ changes \in 0..MaxChanges /\ refreshes \in 0..MaxRefreshes /\ deaths \in 0..MaxDeaths

(* The worker sleeps until the next poll and nobody is about to wake it. *)
Quiet ==
    /\ At("wait") /\ ~ wake /\ ~ failed
    /\ \A n \in Notifiers : note[n].pc = "idle"

(* No announced change of category is forgotten: when the worker sleeps and
   no retry is due, nothing is pending and the receipt reports every source as
   it is, however the announcements fell into the run before. *)
NothingForgotten == Quiet => ~ pending /\ receipt # None /\ receipt.cat = source.cat

(* docs/operations-briefing.md:129: backup completions and schedule changes
   "force one coalesced replacement receipt even when backup health remains
   `verified`, ensuring the signed next-run detail reflects the current
   schedule". *)
DetailIsCurrent == Quiet => receipt.detail = source.detail

(* What the endpoint presents as current. *)
ShownCurrent == fp # None /\ receipt # None /\ receipt.cat = fp

(* docs/operations-briefing.md:154: "An invalidation clears that fingerprint,
   so the endpoint cannot present the preceding receipt as current while the
   event-driven rebuild is pending." *)
NotShownAgain ==
    [][pending /\ ~ ShownCurrent /\ receipt # None /\ receipt' = receipt
       /\ source.cat # receipt.cat /\ (\A n \in Notifiers : note[n].pc \notin {"read", "mark"})
       => ~ ShownCurrent']_vars

(* Receipts are made for changes, for a day gone by, and at first: polls,
   failures and restarts make none of their own.  An announcement that falls
   into the beginning of a run makes two. *)
NoChurn == made <= 1 + 2 * changes + refreshes

(* After the last change the endpoint comes to show a receipt of the sources
   as they are, with unobserved changes, failures and restarts. *)
ShowsTheTruth == <>[](receipt # None /\ receipt.cat = source.cat) /\ <>[]ShownCurrent
=============================================================================
