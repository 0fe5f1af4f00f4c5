----------------------- MODULE FlightRecorder_proofs -----------------------
(***************************************************************************)
(* Theorems about the privileged request recorder, for every set of        *)
(* threads and requests: whatever appends fail and whenever the panel      *)
(* restarts, no route runs unsealed and the ledger tells each request once *)
(* and in order.                                                           *)
(***************************************************************************)
EXTENDS FlightRecorder, TLAPS

USE ConstantsAssumption

(* A request past its admission finds it under the seal.                   *)
Admitted(t) ==
    task[t].pc \in {"run", "reconcile", "recheck", "complete"} =>
      \E k \in 1..sealed : log[k] = Event("admitted", task[t].request)

Reconciling(t) == task[t].pc \in {"reconcile", "recheck"} => recLock = t

(* What a thread is about to append is not in the log, and a reconciler's  *)
(* subject is.                                                             *)
NotYet(t) ==
    /\ task[t].pc = "admit" /\ task[t].step = "commit"
         => ~ Logged("admitted", task[t].request)
    /\ (task[t].pc \in {"admit", "run", "reconcile", "recheck"}
          \/ (task[t].pc = "complete" /\ task[t].step = "commit"))
         => ~ Logged("completed", task[t].request)
    /\ task[t].pc = "reconcile" /\ task[t].step = "commit"
         => ~ Logged("reconciled", task[t].subject) /\ Logged("admitted", task[t].subject)

InOrder(t) == Admitted(t) /\ Reconciling(t) /\ NotYet(t)

OwnRequest ==
    \A t, u \in Threads :
      t # u /\ task[t].pc # "idle" => task[u].request # task[t].request

SealedInLog == sealed <= Len(log)

AdmittedFirst ==
    \A j \in DOMAIN log : \E i \in 1..j : log[i] = Event("admitted", log[j].request)

Distinct == \A j, k \in DOMAIN log : log[j] = log[k] => j = k

IInv ==
    /\ TypeOK /\ SealedInLog /\ OwnRequest /\ AdmittedFirst /\ Distinct /\ RunIsSealed
    /\ \A t \in Threads : InOrder(t)

-----------------------------------------------------------------------------
LEMMA IdleType == Idle \in TaskType /\ Idle.pc = "idle" /\ Idle.request = None
  BY DEF Idle, TaskType

(* What is appended is an event of the thread's request, or of the one it  *)
(* reconciles.                                                             *)
LEMMA PendingEvent ==
    ASSUME TypeOK, NEW t \in Threads, task[t].pc \in Appending
    PROVE  /\ Pending(t) \in Events
           /\ task[t].pc = "admit" => Pending(t) = Event("admitted", task[t].request)
           /\ task[t].pc = "complete" => Pending(t) = Event("completed", task[t].request)
           /\ task[t].pc = "reconcile" => Pending(t) = Event("reconciled", task[t].subject)
  BY DEF TypeOK, Appending, Pending, Event, Events, Kinds

LEMMA EventEquality ==
    ASSUME NEW k1, NEW r1, NEW k2, NEW r2
    PROVE  (Event(k1, r1) = Event(k2, r2)) <=> (k1 = k2 /\ r1 = r2)
<1>1. Event(k1, r1).kind = k1 /\ Event(k1, r1).request = r1
  BY DEF Event
<1>2. Event(k2, r2).kind = k2 /\ Event(k2, r2).request = r2
  BY DEF Event
<1> QED  BY <1>1, <1>2

(* A commit adds one event, after all the others.                          *)
LEMMA CommitLog ==
    ASSUME TypeOK, NEW e \in Events, L!Commit(e)
    PROVE  /\ log' \in Seq(Events) /\ Len(log') = Len(log) + 1 /\ log'[Len(log) + 1] = e
           /\ \A k \in 1..Len(log) : log'[k] = log[k]
           /\ sealed' = sealed /\ acked' = acked /\ sealed = Len(log)
           /\ \A kind, r : Logged(kind, r)' <=> Logged(kind, r) \/ e = Event(kind, r)
<1>1. /\ log' \in Seq(Events) /\ Len(log') = Len(log) + 1 /\ log'[Len(log) + 1] = e
      /\ \A k \in 1..Len(log) : log'[k] = log[k]
      /\ sealed' = sealed /\ acked' = acked /\ sealed = Len(log)
  BY DEF L!Commit, L!Intact, TypeOK
<1>2. DOMAIN log = 1..Len(log) /\ DOMAIN log' = 1..(Len(log) + 1) /\ Len(log) \in Nat
  BY <1>1 DEF TypeOK
<1>3. DOMAIN log' = DOMAIN log \cup {Len(log) + 1}
  BY <1>2
<1>4. ASSUME NEW kind, NEW r
      PROVE  Logged(kind, r)' <=> Logged(kind, r) \/ e = Event(kind, r)
  BY <1>1, <1>2, <1>3 DEF Logged, Event
<1> QED  BY <1>1, <1>4

(* Moving on changes one task only, and keeps its request and subject.     *)
LEMMA GotoTask ==
    ASSUME TypeOK, NEW t \in Threads, task[t].pc # "idle",
           NEW pc \in {"idle", "run", "reconcile", "recheck", "complete"}, Goto(t, pc),
           pc = "reconcile" => task[t].subject \in Requests
    PROVE  /\ task' \in [Threads -> TaskType]
           /\ \A u \in Threads : u # t => task'[u] = task[u]
           /\ task'[t].pc = pc
           /\ pc # "idle" => /\ task'[t].request = task[t].request
                             /\ task'[t].subject = task[t].subject
                             /\ task'[t].step = "commit"
           /\ pc = "idle" => task'[t].request = None
           /\ \A u \in Threads : task'[u].pc # "idle" => task'[u].request \in Requests
           /\ \A u \in Threads : task'[u].pc = "reconcile" => task'[u].subject \in Requests
<1>1. CASE pc = "idle"
  BY <1>1, IdleType DEF TypeOK, Goto
<1>2. CASE pc # "idle"
  <2>1. task' = [task EXCEPT ![t] = [@ EXCEPT !.pc = pc, !.step = "commit"]]
    BY <1>2 DEF Goto
  <2>2. task[t] \in TaskType /\ task[t].request \in Requests
    BY DEF TypeOK
  <2>3. /\ [task[t] EXCEPT !.pc = pc, !.step = "commit"] \in TaskType
        /\ [task[t] EXCEPT !.pc = pc, !.step = "commit"].pc = pc
        /\ [task[t] EXCEPT !.pc = pc, !.step = "commit"].step = "commit"
        /\ [task[t] EXCEPT !.pc = pc, !.step = "commit"].request = task[t].request
        /\ [task[t] EXCEPT !.pc = pc, !.step = "commit"].subject = task[t].subject
    BY <2>2 DEF TaskType
  <2> QED  BY <1>2, <2>1, <2>2, <2>3 DEF TypeOK
<1> QED  BY <1>1, <1>2

(* Within an append only the step changes.                                 *)
LEMMA StepTask ==
    ASSUME TypeOK, NEW t \in Threads, NEW s \in {"commit", "seal", "return"},
           task' = [task EXCEPT ![t] = [@ EXCEPT !.step = s]]
    PROVE  /\ task' \in [Threads -> TaskType]
           /\ \A u \in Threads : u # t => task'[u] = task[u]
           /\ \A u \in Threads : /\ task'[u].pc = task[u].pc
                                 /\ task'[u].request = task[u].request
                                 /\ task'[u].subject = task[u].subject
           /\ task'[t].step = s
<1>1. task[t] \in TaskType
  BY DEF TypeOK
<1>2. /\ [task[t] EXCEPT !.step = s] \in TaskType
      /\ [task[t] EXCEPT !.step = s].pc = task[t].pc
      /\ [task[t] EXCEPT !.step = s].step = s
      /\ [task[t] EXCEPT !.step = s].request = task[t].request
      /\ [task[t] EXCEPT !.step = s].subject = task[t].subject
  BY <1>1 DEF TaskType
<1> QED  BY <1>1, <1>2 DEF TypeOK

-----------------------------------------------------------------------------
(* A step of thread t that leaves the log alone keeps the invariant when   *)
(* it keeps the types, does not take back the seal, leaves the lock of     *)
(* another reconciler alone, and leaves t in order.                        *)
LEMMA QuietStep ==
    ASSUME IInv, NEW t \in Threads, TypeOK', log' = log, sealed <= sealed', sealed' <= Len(log),
           \A u \in Threads : u # t => task'[u] = task[u],
           task'[t].request \in {task[t].request, None},
           task'[t].pc # "idle" => task[t].pc # "idle",
           recLock' = recLock \/ recLock' = t \/ recLock = t,
           recLock' # recLock /\ recLock' = t => recLock = None,
           InOrder(t)', RunIsSealed'
    PROVE  IInv'
<1>1. SealedInLog' /\ AdmittedFirst' /\ Distinct'
  BY DEF IInv, SealedInLog, AdmittedFirst, Distinct
<1>2. OwnRequest'
  BY DEF IInv, OwnRequest, TypeOK
<1>3. ASSUME NEW u \in Threads, u # t PROVE InOrder(u)'
  <2>1. Admitted(u)'
    BY <1>3 DEF IInv, TypeOK, InOrder, Admitted
  <2>2. Reconciling(u)'
    BY <1>3 DEF IInv, InOrder, Reconciling
  <2>3. NotYet(u)'
    BY <1>3 DEF IInv, InOrder, NotYet, Logged
  <2> QED  BY <2>1, <2>2, <2>3 DEF InOrder
<1> QED  BY <1>1, <1>2, <1>3 DEF IInv

(* Init. *)
LEMMA InitIInv == Init => IInv
<1> SUFFICES ASSUME Init PROVE IInv
  OBVIOUS
<1>1. log = << >> /\ sealed = 0 /\ acked = {} /\ ran = {} /\ DOMAIN log = {}
  BY DEF Init, L!Init
<1>2. \A t \in Threads : task[t] = Idle
  BY DEF Init
<1>3. TypeOK
  BY <1>1, <1>2, IdleType DEF Init, TypeOK
<1>4. SealedInLog /\ AdmittedFirst /\ Distinct /\ RunIsSealed
  BY <1>1 DEF SealedInLog, AdmittedFirst, Distinct, RunIsSealed
<1>5. OwnRequest /\ \A t \in Threads : InOrder(t)
  BY <1>2, IdleType DEF OwnRequest, InOrder, Admitted, Reconciling, NotYet
<1> QED  BY <1>3, <1>4, <1>5 DEF IInv

(* A new request: its admission is in nobody else's hands, and the ledger  *)
(* knows nothing of it.                                                    *)
LEMMA BeginIInv == ASSUME IInv, NEW t \in Threads, Begin(t) PROVE IInv'
<1>1. PICK r \in Requests, subject \in Requests \cup {None} :
        /\ ~ Logged("admitted", r)
        /\ subject # None => Logged("admitted", subject)
        /\ \A u \in Threads : task[u].request # r
        /\ task' = [task EXCEPT ![t] =
                      [pc |-> "admit", request |-> r, subject |-> subject, step |-> "commit"]]
  BY DEF Begin
<1>2. UNCHANGED <<log, sealed, acked, lock, recLock, ran>> /\ task[t].pc = "idle"
  BY DEF Begin
<1>3. /\ task' \in [Threads -> TaskType]
      /\ \A u \in Threads : u # t => task'[u] = task[u]
      /\ task'[t].pc = "admit" /\ task'[t].request = r /\ task'[t].step = "commit"
  BY <1>1 DEF IInv, TypeOK, TaskType
<1>4. TypeOK'
  BY <1>2, <1>3 DEF IInv, TypeOK
<1>5. SealedInLog' /\ AdmittedFirst' /\ Distinct' /\ RunIsSealed'
  BY <1>2 DEF IInv, SealedInLog, AdmittedFirst, Distinct, RunIsSealed
<1>6. OwnRequest'
  BY <1>1, <1>3 DEF IInv, OwnRequest
<1>7. ~ Logged("completed", r)
  <2>1. SUFFICES ASSUME Logged("completed", r) PROVE FALSE
    OBVIOUS
  <2>2. PICK j \in DOMAIN log : log[j] = Event("completed", r)
    BY <2>1 DEF Logged
  <2>3. log[j].request = r
    BY <2>2 DEF Event
  <2>4. PICK i \in 1..j : log[i] = Event("admitted", r)
    BY <2>3 DEF IInv, AdmittedFirst
  <2>5. i \in DOMAIN log
    BY DEF IInv, TypeOK
  <2> QED  BY <1>1, <2>4, <2>5 DEF Logged
<1>8. InOrder(t)'
  BY <1>1, <1>2, <1>3, <1>7 DEF InOrder, Admitted, Reconciling, NotYet, Logged
<1>9. ASSUME NEW u \in Threads, u # t PROVE InOrder(u)'
  BY <1>2, <1>3, <1>9 DEF IInv, InOrder, Admitted, Reconciling, NotYet, Logged
<1> QED  BY <1>4, <1>5, <1>6, <1>8, <1>9 DEF IInv

(* The one step that writes the log. *)
LEMMA AppendCommitIInv == ASSUME IInv, NEW t \in Threads, AppendCommit(t) PROVE IInv'
<1> DEFINE e == Pending(t)
<1>1. /\ task[t].pc \in Appending /\ task[t].step = "commit" /\ L!Commit(e) /\ lock' = t
      /\ task' = [task EXCEPT ![t] = [@ EXCEPT !.step = "seal"]]
      /\ recLock' = recLock /\ ran' = ran
  BY DEF AppendCommit
<1>2. /\ e \in Events
      /\ task[t].pc = "admit" => e = Event("admitted", task[t].request)
      /\ task[t].pc = "complete" => e = Event("completed", task[t].request)
      /\ task[t].pc = "reconcile" => e = Event("reconciled", task[t].subject)
  BY <1>1, PendingEvent DEF IInv
<1> HIDE DEF e
<1>3. /\ log' \in Seq(Events) /\ Len(log') = Len(log) + 1 /\ log'[Len(log) + 1] = e
      /\ \A k \in 1..Len(log) : log'[k] = log[k]
      /\ sealed' = sealed /\ acked' = acked /\ sealed = Len(log)
      /\ \A kind, r : Logged(kind, r)' <=> Logged(kind, r) \/ e = Event(kind, r)
  BY <1>1, <1>2, CommitLog DEF IInv
<1>4. /\ task' \in [Threads -> TaskType]
      /\ \A u \in Threads : u # t => task'[u] = task[u]
      /\ \A u \in Threads : /\ task'[u].pc = task[u].pc
                            /\ task'[u].request = task[u].request
                            /\ task'[u].subject = task[u].subject
      /\ task'[t].step = "seal"
  BY <1>1, StepTask DEF IInv
<1>5. DOMAIN log = 1..Len(log) /\ DOMAIN log' = 1..(Len(log) + 1) /\ Len(log) \in Nat
  BY <1>3 DEF IInv, TypeOK
<1>6. TypeOK'
  BY <1>1, <1>3, <1>4 DEF IInv, TypeOK
<1>7. SealedInLog' /\ RunIsSealed'
  BY <1>1, <1>3, <1>5 DEF SealedInLog, RunIsSealed, IInv
<1>8. OwnRequest'
  BY <1>4 DEF IInv, OwnRequest
<1>9. \E i \in 1..(Len(log) + 1) : log'[i] = Event("admitted", e.request)
  <2>1. CASE task[t].pc = "admit"
    <3>1. e.request = task[t].request
      BY <1>2, <2>1 DEF Event
    <3> QED  BY <1>2, <1>3, <1>5, <2>1, <3>1
  <2>2. CASE task[t].pc = "complete"
    <3>1. e.request = task[t].request
      BY <1>2, <2>2 DEF Event
    <3>2. PICK k \in 1..sealed : log[k] = Event("admitted", task[t].request)
      BY <2>2 DEF IInv, InOrder, Admitted
    <3> QED  BY <1>3, <1>5, <3>1, <3>2
  <2>3. CASE task[t].pc = "reconcile"
    <3>1. e.request = task[t].subject
      BY <1>2, <2>3 DEF Event
    <3>2. Logged("admitted", task[t].subject)
      BY <1>1, <2>3 DEF IInv, InOrder, NotYet
    <3>3. PICK k \in DOMAIN log : log[k] = Event("admitted", task[t].subject)
      BY <3>2 DEF Logged
    <3> QED  BY <1>3, <1>5, <3>1, <3>3
  <2> QED  BY <1>1, <2>1, <2>2, <2>3 DEF Appending
<1>10. AdmittedFirst'
  <2>1. SUFFICES ASSUME NEW j \in 1..(Len(log) + 1)
                 PROVE  \E i \in 1..j : log'[i] = Event("admitted", log'[j].request)
    BY <1>5 DEF AdmittedFirst, Event
  <2>2. CASE j = Len(log) + 1
    BY <1>3, <1>9, <2>2
  <2>3. CASE j \in 1..Len(log)
    <3>1. PICK i \in 1..j : log[i] = Event("admitted", log[j].request)
      BY <1>5, <2>3 DEF IInv, AdmittedFirst
    <3> QED  BY <1>3, <1>5, <2>3, <3>1
  <2> QED  BY <1>5, <2>2, <2>3
<1>11. \A k \in DOMAIN log : log[k] # e
  <2>1. CASE task[t].pc = "admit"
    BY <1>1, <1>2, <2>1 DEF IInv, InOrder, NotYet, Logged
  <2>2. CASE task[t].pc = "complete"
    BY <1>1, <1>2, <2>2 DEF IInv, InOrder, NotYet, Logged
  <2>3. CASE task[t].pc = "reconcile"
    BY <1>1, <1>2, <2>3 DEF IInv, InOrder, NotYet, Logged
  <2> QED  BY <1>1, <2>1, <2>2, <2>3 DEF Appending
<1>12. Distinct'
  BY <1>3, <1>5, <1>11 DEF IInv, Distinct
<1>13. ASSUME NEW u \in Threads PROVE Admitted(u)'
  <2>1. SUFFICES ASSUME task[u].pc \in {"run", "reconcile", "recheck", "complete"}
                 PROVE  \E k \in 1..sealed : log'[k] = Event("admitted", task[u].request)
    BY <1>3, <1>4 DEF Admitted, Event
  <2>2. PICK k \in 1..sealed : log[k] = Event("admitted", task[u].request)
    BY <2>1 DEF IInv, InOrder, Admitted
  <2> QED  BY <1>3, <1>5, <2>2
<1>14. ASSUME NEW u \in Threads PROVE Reconciling(u)'
  BY <1>1, <1>4 DEF IInv, InOrder, Reconciling
<1>15. NotYet(t)'
  <2>1. ASSUME task[t].pc \in {"admit", "reconcile"}
        PROVE  ~ Logged("completed", task[t].request)'
    <3>1. ~ Logged("completed", task[t].request)
      BY <2>1 DEF IInv, InOrder, NotYet
    <3>2. e # Event("completed", task[t].request)
      BY <1>2, <2>1, EventEquality
    <3> QED  BY <1>3, <1>4, <3>1, <3>2 DEF Logged, Event
  <2> QED  BY <1>1, <1>4, <2>1 DEF NotYet, Appending, Logged, Event
<1>16. ASSUME NEW u \in Threads, u # t PROVE NotYet(u)'
  <2>1. NotYet(u) /\ Reconciling(u) /\ Reconciling(t) /\ task'[u] = task[u]
    BY <1>4, <1>16 DEF IInv, InOrder
  <2>2. task[u].pc # "idle" => task[u].request # task[t].request
    BY <1>16 DEF IInv, OwnRequest
  <2>3. task[u].pc # "idle" => e # Event("admitted", task[u].request)
    BY <1>1, <1>2, <2>2, EventEquality DEF Appending
  <2>4. task[u].pc # "idle" => e # Event("completed", task[u].request)
    BY <1>1, <1>2, <2>2, EventEquality DEF Appending
  <2>5. task[u].pc = "reconcile" => e # Event("reconciled", task[u].subject)
    BY <1>1, <1>2, <1>16, <2>1, EventEquality DEF Appending, Reconciling
  <2>6. /\ task[u].pc # "idle" /\ ~ Logged("admitted", task[u].request)
              => ~ Logged("admitted", task[u].request)'
        /\ task[u].pc # "idle" /\ ~ Logged("completed", task[u].request)
              => ~ Logged("completed", task[u].request)'
        /\ task[u].pc = "reconcile" /\ ~ Logged("reconciled", task[u].subject)
              => ~ Logged("reconciled", task[u].subject)'
        /\ Logged("admitted", task[u].subject) => Logged("admitted", task[u].subject)'
    BY <1>3, <2>1, <2>3, <2>4, <2>5 DEF Logged, Event
  <2> QED  BY <2>1, <2>6 DEF NotYet
<1> QED  BY <1>6, <1>7, <1>8, <1>10, <1>12, <1>13, <1>14, <1>15, <1>16 DEF IInv, InOrder

LEMMA AppendSealIInv == ASSUME IInv, NEW t \in Threads, AppendSeal(t) PROVE IInv'
<1>1. /\ task[t].pc \in Appending /\ task[t].step = "seal"
      /\ sealed' = Len(log) /\ log' = log /\ acked' = acked
      /\ task' = [task EXCEPT ![t] = [@ EXCEPT !.step = "return"]]
      /\ lock' = lock /\ recLock' = recLock /\ ran' = ran
  BY DEF AppendSeal, L!Seal
<1>2. /\ task' \in [Threads -> TaskType]
      /\ \A u \in Threads : u # t => task'[u] = task[u]
      /\ \A u \in Threads : /\ task'[u].pc = task[u].pc
                            /\ task'[u].request = task[u].request
                            /\ task'[u].subject = task[u].subject
      /\ task'[t].step = "return"
  BY <1>1, StepTask DEF IInv
<1>3. sealed \in Nat /\ Len(log) \in Nat /\ sealed <= Len(log)
  BY DEF IInv, TypeOK, SealedInLog
<1>4. TypeOK'
  BY <1>1, <1>2, <1>3 DEF IInv, TypeOK
<1>5. RunIsSealed' /\ Admitted(t)'
  BY <1>1, <1>2, <1>3 DEF IInv, RunIsSealed, InOrder, Admitted
<1>6. Reconciling(t)' /\ NotYet(t)'
  BY <1>1, <1>2 DEF IInv, InOrder, Reconciling, NotYet, Logged
<1> QED  BY <1>1, <1>2, <1>3, <1>4, <1>5, <1>6, QuietStep DEF InOrder

LEMMA AppendReturnIInv == ASSUME IInv, NEW t \in Threads, AppendReturn(t) PROVE IInv'
<1> DEFINE pc == Follows(task[t].pc)
<1>1. /\ task[t].pc \in Appending /\ task[t].step = "return"
      /\ \E k \in 1..sealed : log[k] = Pending(t)
      /\ acked' = acked \cup {Pending(t)} /\ log' = log /\ sealed' = sealed
      /\ lock' = None /\ Goto(t, pc) /\ recLock' = recLock /\ ran' = ran
  BY DEF AppendReturn, L!Acknowledge
<1>2. /\ pc \in {"run", "recheck", "idle"} /\ task[t].pc # "idle"
      /\ task[t].pc = "admit" => pc = "run"
      /\ task[t].pc = "reconcile" => pc = "recheck"
      /\ task[t].pc = "complete" => pc = "idle"
  BY <1>1 DEF Follows, Appending
<1> HIDE DEF pc
<1>3. /\ task' \in [Threads -> TaskType]
      /\ \A u \in Threads : u # t => task'[u] = task[u]
      /\ task'[t].pc = pc
      /\ pc # "idle" => /\ task'[t].request = task[t].request
                        /\ task'[t].subject = task[t].subject
                        /\ task'[t].step = "commit"
      /\ pc = "idle" => task'[t].request = None
      /\ \A u \in Threads : task'[u].pc # "idle" => task'[u].request \in Requests
      /\ \A u \in Threads : task'[u].pc = "reconcile" => task'[u].subject \in Requests
  BY <1>1, <1>2, GotoTask DEF IInv
<1>4. /\ Pending(t) \in Events
      /\ task[t].pc = "admit" => Pending(t) = Event("admitted", task[t].request)
  BY <1>1, PendingEvent DEF IInv
<1>5. TypeOK'
  BY <1>1, <1>3, <1>4 DEF IInv, TypeOK
<1>6. RunIsSealed'
  BY <1>1 DEF IInv, RunIsSealed
<1>7. Admitted(t)'
  <2>1. CASE task[t].pc = "admit"
    BY <1>1, <1>2, <1>3, <1>4, <2>1 DEF Admitted, Event
  <2>2. CASE task[t].pc = "reconcile"
    BY <1>1, <1>2, <1>3, <2>2 DEF IInv, InOrder, Admitted, Event
  <2>3. CASE task[t].pc = "complete"
    BY <1>2, <1>3, <2>3 DEF Admitted
  <2> QED  BY <1>1, <2>1, <2>2, <2>3 DEF Appending
<1>8. Reconciling(t)' /\ NotYet(t)'
  BY <1>1, <1>2, <1>3 DEF IInv, InOrder, Reconciling, NotYet, Logged, Appending
<1>9. sealed <= sealed' /\ sealed' <= Len(log)
  BY <1>1 DEF IInv, SealedInLog, TypeOK
<1> QED  BY <1>1, <1>2, <1>3, <1>5, <1>6, <1>7, <1>8, <1>9, QuietStep DEF InOrder

(* Every other step of a task leaves the ledger as it is and moves on.  It *)
(* must say why the next stage is in order, and why a route it has run was *)
(* sealed.                                                                 *)
LEMMA MovesOn ==
    ASSUME IInv, NEW t \in Threads, task[t].pc # "idle",
           NEW pc \in {"idle", "run", "reconcile", "recheck", "complete"}, Goto(t, pc),
           UNCHANGED <<log, sealed, acked>>, lock' \in {lock, None},
           recLock' \in {recLock, None, t}, recLock' # recLock => recLock \in {None, t},
           ran' \subseteq ran \cup {task[t].request},
           ran' # ran \/ pc \in {"reconcile", "recheck"} \/ (pc = "complete" /\ task[t].pc # "reconcile")
             => task[t].pc \in {"run", "recheck"},
           pc = "reconcile" => /\ recLock' = t /\ Open(task[t].subject)
                               /\ task[t].subject \in Requests,
           pc = "recheck" => recLock' = t,
           pc # "run"
    PROVE  IInv'
<1>1. /\ task' \in [Threads -> TaskType]
      /\ \A u \in Threads : u # t => task'[u] = task[u]
      /\ task'[t].pc = pc
      /\ pc # "idle" => /\ task'[t].request = task[t].request
                        /\ task'[t].subject = task[t].subject
                        /\ task'[t].step = "commit"
      /\ pc = "idle" => task'[t].request = None
      /\ \A u \in Threads : task'[u].pc # "idle" => task'[u].request \in Requests
      /\ \A u \in Threads : task'[u].pc = "reconcile" => task'[u].subject \in Requests
  BY GotoTask DEF IInv
<1>2. task[t].request \in Requests
  BY DEF IInv, TypeOK
<1>3. TypeOK'
  BY <1>1, <1>2 DEF IInv, TypeOK
<1>4. pc # "idle" \/ ran' # ran =>
        /\ task[t].pc \in {"run", "reconcile", "recheck"}
        /\ \E k \in 1..sealed : log[k] = Event("admitted", task[t].request)
        /\ ~ Logged("completed", task[t].request)
  BY DEF IInv, InOrder, Admitted, NotYet
<1>5. RunIsSealed'
  BY <1>4 DEF IInv, RunIsSealed
<1>6. Admitted(t)'
  BY <1>1, <1>4 DEF Admitted, Event
<1>7. Reconciling(t)'
  BY <1>1 DEF Reconciling
<1>8. NotYet(t)'
  BY <1>1, <1>4 DEF NotYet, Logged, Open
<1>9. sealed <= sealed' /\ sealed' <= Len(log) /\ log' = log
  BY DEF IInv, SealedInLog, TypeOK
<1> QED  BY <1>1, <1>3, <1>5, <1>6, <1>7, <1>8, <1>9, QuietStep DEF InOrder

LEMMA AppendFailsIInv == ASSUME IInv, NEW t \in Threads, AppendFails(t) PROVE IInv'
<1>1. /\ task[t].pc \in Appending
      /\ lock' \in {lock, None}
      /\ recLock' \in {recLock, None} /\ (recLock' # recLock => recLock = t)
      /\ Goto(t, AfterFailure(task[t].pc))
      /\ UNCHANGED <<log, sealed, acked>> /\ ran' = ran
  BY DEF AppendFails, Released
<1>2. CASE task[t].pc = "reconcile"
  BY <1>1, <1>2, MovesOn DEF AfterFailure
<1>3. CASE task[t].pc \in {"admit", "complete"}
  BY <1>1, <1>3, MovesOn DEF AfterFailure
<1> QED  BY <1>1, <1>2, <1>3 DEF Appending

LEMMA RunIInv == ASSUME IInv, NEW t \in Threads, Run(t) \/ Refuse(t) PROVE IInv'
  BY MovesOn DEF Run, Refuse

LEMMA ReconcileIInv ==
    ASSUME IInv, NEW t \in Threads, ReconcileCheck(t) \/ ReconcileReturn(t)
    PROVE  IInv'
<1>1. CASE ReconcileCheck(t)
  <2>1. task[t].subject \in Requests
    BY <1>1 DEF ReconcileCheck, IInv, TypeOK, TaskType
  <2>2. CASE L!Intact /\ Open(task[t].subject)
    BY <1>1, <2>1, <2>2, MovesOn DEF ReconcileCheck
  <2>3. CASE ~ (L!Intact /\ Open(task[t].subject))
    BY <1>1, <2>3, MovesOn DEF ReconcileCheck
  <2> QED  BY <2>2, <2>3
<1>2. CASE ReconcileReturn(t)
  <2>1. recLock = t
    BY <1>2 DEF ReconcileReturn, IInv, InOrder, Reconciling
  <2> QED  BY <1>2, <2>1, MovesOn DEF ReconcileReturn
<1> QED  BY <1>1, <1>2

LEMMA RestartIInv == ASSUME IInv, Restart PROVE IInv'
<1>1. /\ UNCHANGED <<log, sealed, acked, ran>> /\ lock' = None /\ recLock' = None
      /\ \A t \in Threads : task'[t] = Idle
      /\ task' = [t \in Threads |-> Idle]
  BY DEF Restart
<1>2. TypeOK'
  BY <1>1, IdleType DEF IInv, TypeOK
<1>3. SealedInLog' /\ AdmittedFirst' /\ Distinct' /\ RunIsSealed'
  BY <1>1 DEF IInv, SealedInLog, AdmittedFirst, Distinct, RunIsSealed
<1>4. OwnRequest' /\ \A t \in Threads : InOrder(t)'
  BY <1>1, IdleType DEF OwnRequest, InOrder, Admitted, Reconciling, NotYet
<1> QED  BY <1>2, <1>3, <1>4 DEF IInv

LEMMA NextIInv == IInv /\ [Next]_vars => IInv'
<1> SUFFICES ASSUME IInv, [Next]_vars PROVE IInv'
  OBVIOUS
<1>1. CASE Restart
  BY <1>1, RestartIInv
<1>2. ASSUME NEW t \in Threads, Begin(t) PROVE IInv'
  BY <1>2, BeginIInv
<1>3. ASSUME NEW t \in Threads, Step(t) PROVE IInv'
  BY <1>3, AppendCommitIInv, AppendSealIInv, AppendReturnIInv, AppendFailsIInv, RunIInv,
     ReconcileIInv DEF Step
<1>4. CASE UNCHANGED vars
  BY <1>4 DEF vars, IInv, TypeOK, SealedInLog, OwnRequest, AdmittedFirst, Distinct,
     RunIsSealed, InOrder, Admitted, Reconciling, NotYet, Logged
<1> QED  BY <1>1, <1>2, <1>3, <1>4 DEF Next

(* The story is in order: an admission of a request is its first event,    *)
(* since it is the only one and one comes first.                           *)
LEMMA StoryFollows == IInv => OneStoryPerRequest
<1> SUFFICES ASSUME IInv, NEW j \in DOMAIN log, NEW k \in DOMAIN log
             PROVE  /\ log[j] = log[k] => j = k
                    /\ log[j].request = log[k].request /\ log[k].kind = "admitted" => k <= j
  BY DEF OneStoryPerRequest
<1>1. log[j] = log[k] => j = k
  BY DEF IInv, Distinct
<1>2. ASSUME log[j].request = log[k].request, log[k].kind = "admitted" PROVE k <= j
  <2>1. PICK i \in 1..j : log[i] = Event("admitted", log[j].request)
    BY DEF IInv, AdmittedFirst
  <2>2. DOMAIN log = 1..Len(log) /\ Len(log) \in Nat /\ log[k] \in Events
    BY DEF IInv, TypeOK
  <2>3. log[k] = Event("admitted", log[k].request)
    BY <1>2, <2>2 DEF Events, Event
  <2>4. i = k
    BY <1>2, <2>1, <2>2, <2>3 DEF IInv, Distinct
  <2> QED  BY <2>1, <2>2, <2>4
<1> QED  BY <1>1, <1>2

-----------------------------------------------------------------------------
(* The recorder keeps its types: the ledger, the two locks and every       *)
(* handler's task (do_POST, append).                                       *)
THEOREM TypeCorrect == Spec => []TypeOK
<1>1. IInv => TypeOK
  BY DEF IInv
<1> QED  BY <1>1, InitIInv, NextIInv, PTL DEF Spec

(* do_POST seals the admission before it runs the route: no failure of an  *)
(* append and no restart lets a route run unsealed.                        *)
THEOREM SealedBeforeRun == Spec => []RunIsSealed
<1>1. IInv => RunIsSealed
  BY DEF IInv
<1> QED  BY <1>1, InitIInv, NextIInv, PTL DEF Spec

(* Completions and reconciliations of many threads tell each request once, *)
(* after its admission (complete_privileged_audit and                      *)
(* reconcile_privileged_request).                                          *)
THEOREM ToldOnce == Spec => []OneStoryPerRequest
  BY StoryFollows, InitIInv, NextIInv, PTL DEF Spec
=============================================================================
