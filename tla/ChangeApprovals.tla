-------------------------- MODULE ChangeApprovals --------------------------
(***************************************************************************)
(* The four-eyes approval store of admin/change_approvals.py (class Store) *)
(* as the handler threads of the admin panel use it.                       *)
(*                                                                         *)
(* Every mutating method reads the wall clock, opens a connection, takes   *)
(* the SQLite write lock ("begin immediate"), expires overdue requests,    *)
(* checks its row, updates it, appends to the event ledger and commits; it *)
(* then calls get(), a second transaction with a second clock reading.     *)
(* The clock is read BEFORE the lock is held, so a transaction may run     *)
(* with a reading that is up to BusyTimeout old; a longer wait fails with  *)
(* "database is locked".  An exception closes the connection: everything   *)
(* since "begin immediate", the expiries included, is rolled back.         *)
(*                                                                         *)
(* HMACs are left out: rows are only written by this store.                *)
(***************************************************************************)
EXTENDS Integers, Sequences

CONSTANTS
    Threads,      \* handler threads of the admin panel
    Operators,    \* authenticated named identities (principal["id"])
    Ids,          \* approval ids
    Mutations,    \* governed requests: path, body, capability and risk
    Lifetimes,    \* requested ttl_seconds, already clamped to 60..3600
    BusyTimeout,  \* sqlite busy_timeout
    MaxClock,     \* bound on the wall clock
    None          \* SQL null

ASSUME ConstantsAssumption ==
    /\ Lifetimes \subseteq Nat \ {0}
    /\ BusyTimeout \in Nat
    /\ MaxClock \in Nat
    /\ None \notin Operators
    /\ None \notin Mutations
    /\ None \notin Ids
    /\ "system" \notin Operators
    /\ \A m, n \in Mutations :
          /\ m.path = n.path /\ m.body = n.body
          /\ m.capability = n.capability /\ m.risk = n.risk
          => m = n

VARIABLES
    clock,    \* time.time()
    rows,     \* table approval_requests
    events,   \* table approval_events, split by request id
    call,     \* the store call each handler thread is in
    granted   \* history: by id, the consume() calls that returned to the
              \* dispatcher, which then runs the mutation

vars == <<clock, rows, events, call, granted>>

Live     == {"pending", "approved"}
Terminal == {"consumed", "rejected", "cancelled", "expired"}
Reads    == {"get", "list"}        \* list() and status() are alike here
Writes   == {"create", "approve", "reject", "cancel", "consume"}

NoRow == [state |-> "none", requester |-> None, what |-> None, expires |-> 0,
          approver |-> None, approvedAt |-> 0,
          consumedBy |-> None, consumedAt |-> 0]

Idle == [pc |-> "idle", kind |-> "get", id |-> None, actor |-> None,
         what |-> None, now |-> 0]

Event(actor, action, previous, state, at) ==
    [actor |-> actor, action |-> action, previous |-> previous,
     state |-> state, at |-> at]

Init ==
    /\ clock = 0
    /\ rows = [i \in Ids |-> NoRow]
    /\ events = [i \in Ids |-> << >>]
    /\ call = [t \in Threads |-> Idle]
    /\ granted = [i \in Ids |-> << >>]

-----------------------------------------------------------------------------
(* _expire: inside every transaction, with that transaction's clock. *)

Overdue_PendingOnly(row, now) == row.state = "pending" /\ row.expires <= now

Overdue(row, now) == row.state \in Live /\ row.expires <= now

Expire(now) ==
    [i \in Ids |-> IF Overdue(rows[i], now)
                     THEN [rows[i] EXCEPT !.state = "expired"]
                     ELSE rows[i]]

(* Fault: an expiry is not recorded. *)
ExpireEvents_Silent(now) == events

ExpireEvents(now) ==
    [i \in Ids |-> IF Overdue(rows[i], now)
                     THEN Append(events[i], Event("system", "expire",
                                      rows[i].state, "expired", now))
                     ELSE events[i]]

-----------------------------------------------------------------------------
(* What each method demands of the row after the expiry. *)

MayApprove(row, c) == row.state = "pending" /\ row.requester # c.actor

MayReject(row, c) == row.state = "pending" /\ row.requester # c.actor

(* Fault: a consumed request can still be cancelled. *)
MayCancel_Closed(row, c) == row.requester = c.actor /\ row.state # "none"

MayCancel(row, c) == row.requester = c.actor /\ row.state \in Live

(* Fault: an approval that was consumed is good again. *)
MayConsume_Twice(row, c) ==
    /\ row.state \in {"approved", "consumed"}
    /\ row.requester = c.actor /\ row.what = c.what

MayConsume(row, c) ==
    /\ row.state = "approved"
    /\ row.requester = c.actor
    /\ row.what.path = c.what.path
    /\ row.what.body = c.what.body
    /\ row.what.capability = c.what.capability
    /\ row.what.risk = c.what.risk

Accepts(row, c) ==
    \/ c.kind \in {"create", "list"}
    \/ c.kind = "get" /\ row.state # "none"
    \/ c.kind = "approve" /\ MayApprove(row, c)
    \/ c.kind = "reject" /\ MayReject(row, c)
    \/ c.kind = "cancel" /\ MayCancel(row, c)
    \/ c.kind = "consume" /\ MayConsume(row, c)

-----------------------------------------------------------------------------
(* The steps of a call. *)

(* A handler enters a store method: the clock is read, no lock is held. *)
Call(t) ==
    /\ call[t].pc = "idle"
    /\ \E kind \in Reads \cup Writes, i \in Ids, a \in Operators,
          m \in Mutations :
         call' = [call EXCEPT ![t] =
                   [pc |-> IF kind \in Reads THEN "read" ELSE "write",
                    kind |-> kind, id |-> i, actor |-> a, what |-> m,
                    now |-> clock]]
    /\ UNCHANGED <<clock, rows, events, granted>>

(* The write lock was obtained in time. *)
Locks(t, pc) == call[t].pc = pc /\ clock - call[t].now <= BusyTimeout

(* One transaction of a mutating method: row r and event e replace those
   of request i, on top of the expiry; the commit ends the step. *)
Commit(t, i, row, action) ==
    LET c == call[t] IN
    /\ rows' = [Expire(c.now) EXCEPT ![i] = row]
    /\ events' = [ExpireEvents(c.now) EXCEPT ![i] =
                    Append(@, Event(c.actor, action, Expire(c.now)[i].state,
                                    row.state, c.now))]
    /\ call' = [call EXCEPT ![t] = [@ EXCEPT !.pc = "committed", !.id = i]]
    /\ UNCHANGED <<clock, granted>>

Create(t) ==
    /\ Locks(t, "write") /\ call[t].kind = "create"
    /\ \E i \in Ids, ttl \in Lifetimes :
         /\ rows[i] = NoRow
         /\ Commit(t, i, [NoRow EXCEPT !.state = "pending",
                                       !.requester = call[t].actor,
                                       !.what = call[t].what,
                                       !.expires = call[t].now + ttl],
                   "request")

Approve(t) ==
    LET c == call[t]  row == Expire(c.now)[c.id] IN
    /\ Locks(t, "write") /\ c.kind = "approve" /\ MayApprove(row, c)
    /\ Commit(t, c.id, [row EXCEPT !.state = "approved",
                                   !.approver = c.actor,
                                   !.approvedAt = c.now], "approve")

Reject(t) ==
    LET c == call[t]  row == Expire(c.now)[c.id] IN
    /\ Locks(t, "write") /\ c.kind = "reject" /\ MayReject(row, c)
    /\ Commit(t, c.id, [row EXCEPT !.state = "rejected"], "reject")

Cancel(t) ==
    LET c == call[t]  row == Expire(c.now)[c.id] IN
    /\ Locks(t, "write") /\ c.kind = "cancel" /\ MayCancel(row, c)
    /\ Commit(t, c.id, [row EXCEPT !.state = "cancelled"], "cancel")

Consume(t) ==
    LET c == call[t]  row == Expire(c.now)[c.id] IN
    /\ Locks(t, "write") /\ c.kind = "consume" /\ MayConsume(row, c)
    /\ Commit(t, c.id, [row EXCEPT !.state = "consumed",
                                   !.consumedBy = c.actor,
                                   !.consumedAt = c.now], "consume")

(* The method calls get() on its way out: a second clock reading. *)
Reread(t) ==
    /\ call[t].pc = "committed"
    /\ call' = [call EXCEPT ![t] = [@ EXCEPT !.pc = "read", !.now = clock]]
    /\ UNCHANGED <<clock, rows, events, granted>>

(* get(), list() and status(): expire, read, commit, return. *)
Read(t) ==
    LET c == call[t] IN
    /\ Locks(t, "read")
    /\ c.kind = "get" => rows[c.id].state # "none"
    /\ rows' = Expire(c.now)
    /\ events' = ExpireEvents(c.now)
    /\ granted' = IF c.kind = "consume"
                    THEN [granted EXCEPT ![c.id] =
                            Append(@, [actor |-> c.actor, what |-> c.what])]
                    ELSE granted
    /\ call' = [call EXCEPT ![t] = Idle]
    /\ UNCHANGED clock

(* A check fails: the exception rolls the transaction back. *)
Refuse(t) ==
    LET c == call[t] IN
    /\ \/ Locks(t, "write")
       \/ Locks(t, "read") /\ c.kind = "get"
    /\ ~ Accepts(Expire(c.now)[c.id], c)
    /\ call' = [call EXCEPT ![t] = Idle]
    /\ UNCHANGED <<clock, rows, events, granted>>

(* sqlite3.OperationalError: the write lock was not free in time. *)
Locked(t) ==
    /\ call[t].pc \in {"read", "write"}
    /\ clock - call[t].now >= BusyTimeout
    /\ call' = [call EXCEPT ![t] = Idle]
    /\ UNCHANGED <<clock, rows, events, granted>>

(* The panel is recreated: calls vanish, committed rows stay. *)
Restart ==
    /\ call' = [t \in Threads |-> Idle]
    /\ UNCHANGED <<clock, rows, events, granted>>

Tick ==
    /\ clock < MaxClock
    /\ clock' = clock + 1
    /\ UNCHANGED <<rows, events, call, granted>>

Next ==
    \/ Tick
    \/ Restart
    \/ \E t \in Threads :
         \/ Call(t) \/ Create(t) \/ Approve(t) \/ Reject(t) \/ Cancel(t)
         \/ Consume(t) \/ Reread(t) \/ Read(t) \/ Refuse(t) \/ Locked(t)

Spec == Init /\ [][Next]_vars

-----------------------------------------------------------------------------
(* Properties. *)

RowType ==
    [state : {"none"} \cup Live \cup Terminal,
     requester : Operators \cup {None}, what : Mutations \cup {None},
     expires : Nat, approver : Operators \cup {None}, approvedAt : Nat,
     consumedBy : Operators \cup {None}, consumedAt : Nat]

EventType ==
    [actor : Operators \cup {"system"},
     action : {"request", "approve", "reject", "cancel", "consume", "expire"},
     previous : {"none"} \cup Live, state : Live \cup Terminal, at : Nat]

CallType ==
    [pc : {"idle", "read", "write", "committed"}, kind : Reads \cup Writes,
     id : Ids \cup {None}, actor : Operators \cup {None},
     what : Mutations \cup {None}, now : Nat]

GrantType == [actor : Operators, what : Mutations]

(* Type invariant: the tables, the calls and the history keep their shape. *)
TypeOK ==
    /\ clock \in Nat
    /\ rows \in [Ids -> RowType]
    /\ events \in [Ids -> Seq(EventType)]
    /\ call \in [Threads -> CallType]
    /\ \A t \in Threads : call[t].pc # "idle" =>
         call[t].id \in Ids /\ call[t].actor \in Operators
           /\ call[t].what \in Mutations
    /\ granted \in [Ids -> Seq(GrantType)]

(* However approve, consume, cancel and expiry interleave over the panel's
   threads and restarts, an execution that consume() let through was asked
   for by its own actor, with exactly the mutation being run, and was agreed
   to by another operator (approve and consume, lines 417-506). *)
ExecutionsAreFourEyed ==
    \A i \in Ids : \A k \in DOMAIN granted[i] :
      /\ rows[i].state = "consumed"
      /\ granted[i][k] = [actor |-> rows[i].requester, what |-> rows[i].what]
      /\ rows[i].approver \in Operators \ {rows[i].requester}
      /\ rows[i].consumedBy = rows[i].requester

(* The strengthening that makes the two execution properties inductive: a
   row keeps the record of who agreed, and a thread between the commit of
   consume() and its return is the only one for its id, with nothing
   granted for that id so far. *)
RowOK(row) ==
    /\ row.state # "none" => row.what \in Mutations
    /\ row.state \in {"approved", "consumed"} =>
         row.approver \in Operators \ {row.requester}
    /\ row.state = "consumed" => row.consumedBy = row.requester

Holding(t) == call[t].kind = "consume" /\ call[t].pc \in {"committed", "read"}

HoldOK(t) ==
    LET c == call[t] IN
    /\ rows[c.id].state = "consumed"
    /\ rows[c.id].requester = c.actor
    /\ rows[c.id].what = c.what
    /\ granted[c.id] = << >>

GrantsInv ==
    /\ \A i \in Ids : RowOK(rows[i])
    /\ \A t \in Threads : Holding(t) => HoldOK(t)
    /\ \A t, u \in Threads :
         Holding(t) /\ Holding(u) /\ call[t].id = call[u].id => t = u

(* One approval lets at most one execution attempt pass, even when several
   threads consume it at once or the panel restarts between the commit and
   the return of consume() (lines 475-506). *)
SingleUse == \A i \in Ids : Len(granted[i]) <= 1

(* The two together are the two-person rule the panel's mutations are under:
   every execution was agreed to by a second person, and once. *)
TwoPersonRule == ExecutionsAreFourEyed /\ SingleUse

(* The ledger tells the whole story of each row: replaying a request's
   events from "none" links state to state, ends in the row's state, and
   names the requester, the approver and the consumer that the row names
   (_append_event and its callers, lines 299-506). *)
LedgerReplaysToRow ==
    \A i \in Ids :
      LET log == events[i]
          By(action) == {log[k].actor : k \in {j \in DOMAIN log :
                                                  log[j].action = action}}
          Named(who) == IF who = None THEN {} ELSE {who}
      IN
      /\ rows[i].state = IF log = << >> THEN "none" ELSE log[Len(log)].state
      /\ \A k \in DOMAIN log :
           log[k].previous = IF k = 1 THEN "none" ELSE log[k - 1].state
      /\ By("request") = Named(rows[i].requester)
      /\ By("approve") = Named(rows[i].approver)
      /\ By("consume") = Named(rows[i].consumedBy)

(* The clock is read before the write lock is held, so ledger times can run
   backwards; they never do by more than the lock wait (line 244 and the
   clock reading of each method). *)
LedgerSkewBounded ==
    \A i \in Ids : \A j, k \in DOMAIN events[i] :
      j < k => events[i][j].at <= events[i][k].at + BusyTimeout

(* What an auditor reads: the shape of the tables, the story, its order. *)
LedgerTellsTheStory == TypeOK /\ LedgerReplaysToRow /\ LedgerSkewBounded

(* For the same reason an approval can be consumed after it expired, but
   never later than the lock wait allows (consume, lines 475-480). *)
ConsumedInTime ==
    [][\A i \in Ids :
         rows[i].state # "consumed" /\ rows'[i].state = "consumed"
           => clock < rows[i].expires + BusyTimeout]_vars

(* The store implements the abstract four-eyes specification. *)
Abstract(row) ==
    [state |-> IF row.state = "consumed" THEN "spent"
               ELSE IF row.state \in Terminal THEN "closed"
               ELSE row.state,
     requester |-> row.requester, what |-> row.what,
     approver |-> row.approver]

DC == INSTANCE DualControl WITH
        requests <- [i \in Ids |-> Abstract(rows[i])],
        executed <- granted

(* Each committed transaction is a step the abstract specification allows:
   no request is ever moved twice in one transaction, closed ones stay
   closed, and the execution handed out is the one that was agreed to. *)
ImplementsDualControl == DC!Spec

=============================================================================
