-------------------------- MODULE FlightRecorder --------------------------
(***************************************************************************)
(* The life of a privileged request in admin/admin_panel.py: do_POST seals *)
(* an admission before it runs the route, complete_privileged_audit seals  *)
(* the outcome, and reconcile_privileged_request lets an operator close a  *)
(* request whose outcome is unknown.                                       *)
(*                                                                         *)
(* The ledger is used through its promise, SealedLog.  An append holds the *)
(* store's lock over its commit and its seal; it may fail at either.       *)
(* A reconciliation is itself a privileged request whose route holds       *)
(* AUDIT_RECONCILIATION_LOCK; completions do not take that lock.           *)
(***************************************************************************)
EXTENDS Naturals, Sequences

CONSTANTS
    Threads,   \* handler threads
    Requests,  \* request ids
    None

ASSUME ConstantsAssumption == None \notin Threads /\ None \notin Requests

VARIABLES
    log, sealed, acked,  \* the audit ledger
    lock,     \* holder of the ledger's lock
    recLock,  \* holder of AUDIT_RECONCILIATION_LOCK
    task,     \* the request each thread handles
    ran       \* history: requests whose route has been run

vars == <<log, sealed, acked, lock, recLock, task, ran>>

Kinds == {"admitted", "completed", "reconciled"}
Event(kind, r) == [kind |-> kind, request |-> r]
Events == [kind : Kinds, request : Requests]

L == INSTANCE SealedLog

Idle == [pc |-> "idle", request |-> None, subject |-> None, step |-> "commit"]

Init ==
    /\ L!Init
    /\ lock = None /\ recLock = None
    /\ task = [t \in Threads |-> Idle]
    /\ ran = {}

Logged(kind, r) == Event(kind, r) \in {log[k] : k \in DOMAIN log}

(* Fault: a reconciled request still counts as open. *)
Open_Reconciled(r) == Logged("admitted", r) /\ ~ Logged("completed", r)

(* request_state: admitted, and neither completed nor reconciled. *)
Open(r) ==
    Logged("admitted", r) /\ ~ Logged("completed", r) /\ ~ Logged("reconciled", r)

-----------------------------------------------------------------------------
(* A handler takes a POST: of a domain route, or the reconciliation of an
   earlier request (an unknown one is refused like a closed one); the
   request id is random. *)
Begin(t) ==
    /\ task[t].pc = "idle"
    /\ \E r \in Requests, subject \in Requests \cup {None} :
         /\ ~ Logged("admitted", r)
         /\ subject # None => Logged("admitted", subject)
         /\ \A u \in Threads : task[u].request # r
         /\ task' = [task EXCEPT ![t] =
                       [pc |-> "admit", request |-> r, subject |-> subject,
                        step |-> "commit"]]
    /\ UNCHANGED <<log, sealed, acked, lock, recLock, ran>>

(* The event a thread is appending. *)
Pending(t) ==
    CASE task[t].pc = "admit"     -> Event("admitted", task[t].request)
      [] task[t].pc = "complete"  -> Event("completed", task[t].request)
      [] task[t].pc = "reconcile" -> Event("reconciled", task[t].subject)

Appending == {"admit", "complete", "reconcile"}

AppendCommit(t) ==
    /\ task[t].pc \in Appending /\ task[t].step = "commit"
    /\ lock = None
    /\ L!Commit(Pending(t))
    /\ lock' = t
    /\ task' = [task EXCEPT ![t] = [@ EXCEPT !.step = "seal"]]
    /\ UNCHANGED <<recLock, ran>>

AppendSeal(t) ==
    /\ task[t].pc \in Appending /\ task[t].step = "seal"
    /\ L!Seal
    /\ task' = [task EXCEPT ![t] = [@ EXCEPT !.step = "return"]]
    /\ UNCHANGED <<lock, recLock, ran>>

(* What follows a successful append. *)
Follows(pc) ==
    CASE pc = "admit" -> "run" [] pc = "reconcile" -> "recheck"
      [] pc = "complete" -> "idle"

Goto(t, pc) ==
    task' = [task EXCEPT ![t] = IF pc = "idle" THEN Idle
                                ELSE [@ EXCEPT !.pc = pc, !.step = "commit"]]

AppendReturn(t) ==
    /\ task[t].pc \in Appending /\ task[t].step = "return"
    /\ L!Acknowledge(Pending(t))
    /\ lock' = None
    /\ Goto(t, Follows(task[t].pc))
    /\ UNCHANGED <<recLock, ran>>

(* Fault: an exception leaves the lock held. *)
Released_Never(l, t) == l

Released(l, t) == IF l = t THEN None ELSE l

(* Fault: admission is best effort. *)
AfterFailure_BestEffort(pc) ==
    CASE pc = "admit" -> "run" [] pc = "reconcile" -> "complete"
      [] pc = "complete" -> "idle"

AfterFailure(pc) == IF pc = "reconcile" THEN "complete" ELSE "idle"

(* append() raises.  An unsealed admission refuses the request before it
   has a completion to write; a failed reconciliation is answered with an
   error; a failed completion is swallowed. *)
AppendFails(t) ==
    /\ task[t].pc \in Appending
    /\ task[t].step = "commit" => lock = None
    /\ lock' = Released(lock, t)
    /\ recLock' = Released(recLock, t)
    /\ Goto(t, AfterFailure(task[t].pc))
    /\ UNCHANGED <<log, sealed, acked, ran>>

-----------------------------------------------------------------------------

(* The route of an ordinary mutation runs, to whatever result. *)
Run(t) ==
    /\ task[t].pc = "run" /\ task[t].subject = None
    /\ ran' = ran \cup {task[t].request}
    /\ Goto(t, "complete")
    /\ UNCHANGED <<log, sealed, acked, lock, recLock>>

(* A gate behind the admission (four-eyes, feature, confirmation) refuses:
   the error response is the completion. *)
Refuse(t) ==
    /\ task[t].pc = "run" /\ task[t].subject = None
    /\ Goto(t, "complete")
    /\ UNCHANGED <<log, sealed, acked, lock, recLock, ran>>

(* reconcile_privileged_request: under its lock, the subject must be open;
   request_state() also verifies the ledger, under the store's lock. *)
ReconcileCheck(t) ==
    /\ task[t].pc = "run" /\ task[t].subject # None
    /\ recLock = None /\ lock = None
    /\ ran' = ran \cup {task[t].request}
    /\ IF L!Intact /\ Open(task[t].subject)
         THEN recLock' = t /\ Goto(t, "reconcile")
         ELSE recLock' = None /\ Goto(t, "complete")
    /\ UNCHANGED <<log, sealed, acked, lock>>

(* The state is read again for the response; then the lock is released. *)
ReconcileReturn(t) ==
    /\ task[t].pc = "recheck" /\ lock = None
    /\ recLock' = None
    /\ Goto(t, "complete")
    /\ UNCHANGED <<log, sealed, acked, lock, ran>>

(* The panel reloads itself or is recreated: daemon threads vanish. *)
Restart ==
    /\ lock' = None /\ recLock' = None
    /\ task' = [t \in Threads |-> Idle]
    /\ UNCHANGED <<log, sealed, acked, ran>>

Step(t) ==
    \/ AppendCommit(t) \/ AppendSeal(t) \/ AppendReturn(t) \/ AppendFails(t)
    \/ Run(t) \/ Refuse(t) \/ ReconcileCheck(t) \/ ReconcileReturn(t)

Next == Restart \/ \E t \in Threads : Begin(t) \/ Step(t)

Spec == Init /\ [][Next]_vars

(* A thread that can take a step takes one: the interpreter runs it. *)
FairSpec == Spec /\ \A t \in Threads : WF_vars(Step(t))

-----------------------------------------------------------------------------
(* Properties. *)

TaskType ==
    [pc : {"idle", "admit", "run", "reconcile", "recheck", "complete"},
     request : Requests \cup {None}, subject : Requests \cup {None},
     step : {"commit", "seal", "return"}]

(* Type invariant: the ledger, the locks and the tasks keep their shape. *)
TypeOK ==
    /\ log \in Seq(Events) /\ sealed \in Nat /\ acked \subseteq Events
    /\ lock \in Threads \cup {None} /\ recLock \in Threads \cup {None}
    /\ task \in [Threads -> TaskType]
    /\ \A t \in Threads : task[t].pc # "idle" => task[t].request \in Requests
    /\ \A t \in Threads : task[t].pc = "reconcile" =>
         task[t].subject \in Requests
    /\ ran \subseteq Requests

(* No route runs before its admission is sealed, whatever appends fail and
   whenever the panel restarts (do_POST, lines 13502-13533). *)
RunIsSealed ==
    \A r \in ran : \E k \in 1..sealed : log[k] = Event("admitted", r)

(* The ledger tells each request once and in order: one admission first,
   at most one completion and at most one reconciliation after it, although
   threads complete and reconcile at the same time. *)
OneStoryPerRequest ==
    \A j, k \in DOMAIN log :
      /\ log[j] = log[k] => j = k
      /\ log[j].request = log[k].request /\ log[k].kind = "admitted" => k <= j

(* Two locks nest here (reconciliation, then ledger): every request is
   answered all the same, failures of the ledger included. *)
EveryRequestReturns ==
    \A t \in Threads : task[t].pc # "idle" ~> task[t].pc = "idle"

(* docs/audit-ledger.md: "It rejects an unknown or already terminal
   request." *)
ReconcileRejectsTerminal ==
    [][\A r \in Requests :
         ~ Logged("reconciled", r) /\ Logged("reconciled", r)'
           => Open(r)]_vars

=============================================================================
