----------------------- MODULE ChangeApprovals_proofs -----------------------
(***************************************************************************)
(* Theorems about the approval store, for every set of threads, operators, *)
(* ids and mutations and every value of the time bounds.                   *)
(***************************************************************************)
EXTENDS ChangeApprovals, TLAPS

(* A thread outside the store. *)
LEMMA IdleType == Idle \in CallType /\ Idle.pc = "idle"
  BY DEF Idle, CallType, Reads

(* Expiry keeps the types of both tables. *)
LEMMA ExpireType ==
    ASSUME TypeOK, NEW now \in Nat
    PROVE  /\ Expire(now) \in [Ids -> RowType]
           /\ ExpireEvents(now) \in [Ids -> Seq(EventType)]
<1>1. ASSUME NEW i \in Ids
      PROVE  (IF Overdue(rows[i], now)
                THEN [rows[i] EXCEPT !.state = "expired"]
                ELSE rows[i]) \in RowType
  BY DEF TypeOK, RowType, Live, Terminal, Overdue
<1>2. ASSUME NEW i \in Ids
      PROVE  (IF Overdue(rows[i], now)
                THEN Append(events[i], Event("system", "expire",
                                 rows[i].state, "expired", now))
                ELSE events[i]) \in Seq(EventType)
  <2>1. CASE Overdue(rows[i], now)
    <3>1. Event("system", "expire", rows[i].state, "expired", now)
             \in EventType
      BY <2>1 DEF Event, EventType, Overdue, Live, Terminal, TypeOK
    <3>2. events[i] \in Seq(EventType)
      BY DEF TypeOK
    <3> QED BY <3>1, <3>2, <2>1
  <2>2. CASE ~ Overdue(rows[i], now)
    BY <2>2 DEF TypeOK
  <2> QED BY <2>1, <2>2
<1> QED BY <1>1, <1>2 DEF Expire, ExpireEvents

(* A commit that writes a well-typed row and a well-typed event keeps the
   type invariant. *)
LEMMA CommitType ==
    ASSUME TypeOK, NEW t \in Threads, NEW i \in Ids, NEW row \in RowType,
           NEW action \in {"request", "approve", "reject", "cancel",
                           "consume"},
           call[t].pc = "write",
           Expire(call[t].now)[i].state \in {"none"} \cup Live,
           row.state \in Live \cup Terminal,
           Commit(t, i, row, action)
    PROVE  TypeOK'
<1> DEFINE c == call[t]
           e == Event(c.actor, action, Expire(c.now)[i].state, row.state,
                      c.now)
<1>1. c \in CallType /\ c.now \in Nat /\ c.actor \in Operators
        /\ c.what \in Mutations
  BY DEF TypeOK, CallType
<1>2. /\ Expire(c.now) \in [Ids -> RowType]
      /\ ExpireEvents(c.now) \in [Ids -> Seq(EventType)]
  BY <1>1, ExpireType
<1>3. e \in EventType
  BY <1>1 DEF EventType, Event
<1>4. rows' \in [Ids -> RowType]
  BY <1>2 DEF Commit
<1>5. events' \in [Ids -> Seq(EventType)]
  <2>1. Append(ExpireEvents(c.now)[i], e) \in Seq(EventType)
    BY <1>2, <1>3
  <2> QED BY <2>1, <1>2 DEF Commit
<1>6. call' \in [Threads -> CallType] /\
      \A u \in Threads : call[u].pc # "idle" =>
         call'[u].id \in Ids /\ call'[u].actor \in Operators
           /\ call'[u].what \in Mutations
  BY <1>1 DEF Commit, TypeOK, CallType
<1>7. \A u \in Threads : call'[u].pc # "idle" => call[u].pc # "idle"
  BY <1>1 DEF Commit, TypeOK, CallType
<1> QED BY <1>4, <1>5, <1>6, <1>7 DEF Commit, TypeOK

(* The rows that the five mutating methods write are well typed. *)
LEMMA TypeStep == TypeOK /\ [Next]_vars => TypeOK'
<1> SUFFICES ASSUME TypeOK, [Next]_vars PROVE TypeOK'
  OBVIOUS
<1>1. CASE UNCHANGED vars
  BY <1>1 DEF vars, TypeOK
<1>2. CASE Tick
  <2>1. clock' \in Nat
    BY <1>2 DEF Tick, TypeOK
  <2> QED BY <1>2, <2>1 DEF Tick, TypeOK
<1>3. CASE Restart
  BY <1>3 DEF Restart, TypeOK, CallType, Idle, Reads
<1>4. ASSUME NEW t \in Threads, Call(t) PROVE TypeOK'
  <2>1. call' \in [Threads -> CallType]
    BY <1>4 DEF Call, TypeOK, CallType
  <2>2. \A u \in Threads : call'[u].pc # "idle" =>
          call'[u].id \in Ids /\ call'[u].actor \in Operators
            /\ call'[u].what \in Mutations
    BY <1>4 DEF Call, TypeOK
  <2> QED BY <1>4, <2>1, <2>2 DEF Call, TypeOK
<1>5. ASSUME NEW t \in Threads, Create(t) PROVE TypeOK'
  <2>1. PICK i \in Ids, ttl \in Lifetimes :
          /\ rows[i] = NoRow
          /\ Commit(t, i, [NoRow EXCEPT !.state = "pending",
                                        !.requester = call[t].actor,
                                        !.what = call[t].what,
                                        !.expires = call[t].now + ttl],
                    "request")
    BY <1>5 DEF Create
  <2> DEFINE row == [NoRow EXCEPT !.state = "pending",
                                  !.requester = call[t].actor,
                                  !.what = call[t].what,
                                  !.expires = call[t].now + ttl]
  <2>2. call[t].pc = "write" /\ call[t].now \in Nat
          /\ call[t].actor \in Operators /\ call[t].what \in Mutations
    BY <1>5 DEF Create, Locks, TypeOK, CallType
  <2>3. row \in RowType /\ row.state \in Live \cup Terminal
    <3>1. call[t].now + ttl \in Nat
      BY <2>2, ConstantsAssumption
    <3> QED BY <2>2, <3>1 DEF RowType, NoRow, Live
  <2>4. Expire(call[t].now)[i].state \in {"none"} \cup Live
    BY <2>1 DEF Expire, Overdue, NoRow, Live
  <2> HIDE DEF row
  <2> QED BY <2>1, <2>2, <2>3, <2>4, CommitType DEF row
<1>6. ASSUME NEW t \in Threads,
             Approve(t) \/ Reject(t) \/ Cancel(t) \/ Consume(t)
      PROVE  TypeOK'
  <2> DEFINE c == call[t]
             row == Expire(c.now)[c.id]
  <2>1. c.pc = "write" /\ c.now \in Nat /\ c.id \in Ids
          /\ c.actor \in Operators
    BY <1>6 DEF Approve, Reject, Cancel, Consume, Locks, TypeOK, CallType
  <2>2. row \in RowType
    BY <2>1, ExpireType
  <2>3. row.state \in Live
    BY <1>6 DEF Approve, Reject, Cancel, Consume, MayApprove, MayReject,
                MayCancel, MayConsume, Live
  <2>4. CASE Approve(t)
    <3> DEFINE new == [row EXCEPT !.state = "approved", !.approver = c.actor,
                                  !.approvedAt = c.now]
    <3>1. new \in RowType /\ new.state \in Live \cup Terminal
      BY <2>1, <2>2 DEF RowType, Live
    <3>2. Commit(t, c.id, new, "approve")
      BY <2>4 DEF Approve
    <3> HIDE DEF new
    <3> QED BY <2>1, <2>3, <3>1, <3>2, CommitType
  <2>5. CASE Reject(t)
    <3> DEFINE new == [row EXCEPT !.state = "rejected"]
    <3>1. new \in RowType /\ new.state \in Live \cup Terminal
      BY <2>1, <2>2 DEF RowType, Terminal
    <3>2. Commit(t, c.id, new, "reject")
      BY <2>5 DEF Reject
    <3> HIDE DEF new
    <3> QED BY <2>1, <2>3, <3>1, <3>2, CommitType
  <2>6. CASE Cancel(t)
    <3> DEFINE new == [row EXCEPT !.state = "cancelled"]
    <3>1. new \in RowType /\ new.state \in Live \cup Terminal
      BY <2>1, <2>2 DEF RowType, Terminal
    <3>2. Commit(t, c.id, new, "cancel")
      BY <2>6 DEF Cancel
    <3> HIDE DEF new
    <3> QED BY <2>1, <2>3, <3>1, <3>2, CommitType
  <2>7. CASE Consume(t)
    <3> DEFINE new == [row EXCEPT !.state = "consumed",
                                  !.consumedBy = c.actor,
                                  !.consumedAt = c.now]
    <3>1. new \in RowType /\ new.state \in Live \cup Terminal
      BY <2>1, <2>2 DEF RowType, Terminal
    <3>2. Commit(t, c.id, new, "consume")
      BY <2>7 DEF Consume
    <3> HIDE DEF new
    <3> QED BY <2>1, <2>3, <3>1, <3>2, CommitType
  <2> QED BY <1>6, <2>4, <2>5, <2>6, <2>7
<1>7. ASSUME NEW t \in Threads, Reread(t) PROVE TypeOK'
  <2>1. call' \in [Threads -> CallType]
    BY <1>7 DEF Reread, TypeOK, CallType
  <2>2. \A u \in Threads : call'[u].pc # "idle" =>
          call'[u].id \in Ids /\ call'[u].actor \in Operators
            /\ call'[u].what \in Mutations
    BY <1>7 DEF Reread, TypeOK, CallType
  <2> QED BY <1>7, <2>1, <2>2 DEF Reread, TypeOK
<1>8. ASSUME NEW t \in Threads, Read(t) PROVE TypeOK'
  <2> DEFINE c == call[t]
  <2>1. c.now \in Nat /\ c.id \in Ids /\ c.actor \in Operators
          /\ c.what \in Mutations
    BY <1>8 DEF Read, Locks, TypeOK, CallType
  <2>2. rows' \in [Ids -> RowType] /\ events' \in [Ids -> Seq(EventType)]
    BY <1>8, <2>1, ExpireType DEF Read
  <2>3. granted' \in [Ids -> Seq(GrantType)]
    <3> DEFINE g == [actor |-> c.actor, what |-> c.what]
    <3>1. g \in GrantType
      BY <2>1 DEF GrantType
    <3>2. granted \in [Ids -> Seq(GrantType)]
      BY DEF TypeOK
    <3>3. Append(granted[c.id], g) \in Seq(GrantType)
      BY <2>1, <3>1, <3>2
    <3> QED BY <1>8, <3>2, <3>3 DEF Read
  <2>4. call' \in [Threads -> CallType]
          /\ \A u \in Threads : call'[u] = call[u] \/ call'[u].pc = "idle"
    BY <1>8, IdleType DEF Read, TypeOK
  <2> QED BY <1>8, <2>2, <2>3, <2>4 DEF Read, TypeOK
<1>9. ASSUME NEW t \in Threads, Refuse(t) \/ Locked(t) PROVE TypeOK'
  <2>1. /\ call' \in [Threads -> CallType]
        /\ \A u \in Threads : call'[u] = call[u] \/ call'[u].pc = "idle"
    BY <1>9, IdleType DEF Refuse, Locked, TypeOK
  <2> QED BY <1>9, <2>1 DEF Refuse, Locked, TypeOK
<1> QED BY <1>1, <1>2, <1>3, <1>4, <1>5, <1>6, <1>7, <1>8, <1>9 DEF Next

(* Every reachable state of the store is well typed. *)
THEOREM TypeCorrect == Spec => []TypeOK
<1>1. Init => TypeOK
  BY DEF Init, TypeOK, RowType, NoRow, CallType, Idle, Reads
<1> QED BY <1>1, TypeStep, PTL DEF Spec

-----------------------------------------------------------------------------
(* The execution properties. *)

(* Expiry never touches a consumed row and leaves who, what and by whom. *)
LEMMA ExpireKeeps ==
    ASSUME TypeOK, NEW now \in Nat, NEW i \in Ids
    PROVE  /\ rows[i].state = "consumed" => Expire(now)[i] = rows[i]
           /\ RowOK(rows[i]) => RowOK(Expire(now)[i])
<1>1. CASE Overdue(rows[i], now)
  <2>1. Expire(now)[i] = [rows[i] EXCEPT !.state = "expired"]
    BY <1>1 DEF Expire
  <2>2. rows[i] \in RowType
    BY DEF TypeOK
  <2>3. rows[i].state \in Live
    BY <1>1 DEF Overdue
  <2> QED BY <2>1, <2>2, <2>3 DEF RowType, RowOK, Live
<1>2. CASE ~ Overdue(rows[i], now)
  BY <1>2 DEF Expire
<1> QED BY <1>1, <1>2

(* A commit on a request that is not consumed keeps every consumed row. *)
LEMMA CommitKeeps ==
    ASSUME TypeOK, \A i \in Ids : RowOK(rows[i]),
           NEW t \in Threads, NEW i \in Ids, NEW row, NEW action,
           call[t].now \in Nat,
           Expire(call[t].now)[i].state # "consumed",
           RowOK(row), Commit(t, i, row, action)
    PROVE  /\ \A j \in Ids : RowOK(rows'[j])
           /\ \A j \in Ids : rows[j].state = "consumed" =>
                rows'[j] = rows[j] /\ j # i
<1>1. \A j \in Ids : rows'[j] = IF j = i THEN row
                                ELSE Expire(call[t].now)[j]
  BY ExpireType DEF Commit
<1>2. \A j \in Ids : rows[j].state = "consumed" =>
         Expire(call[t].now)[j] = rows[j]
  BY ExpireKeeps
<1>3. \A j \in Ids : RowOK(Expire(call[t].now)[j])
  BY ExpireKeeps
<1> QED BY <1>1, <1>2, <1>3

(* Every step keeps the consumed rows, and only Consume consumes. *)
LEMMA RowsStep ==
    ASSUME TypeOK, \A i \in Ids : RowOK(rows[i]), Next
    PROVE  /\ \A i \in Ids : RowOK(rows'[i])
           /\ \A i \in Ids : rows[i].state = "consumed" => rows'[i] = rows[i]
<1>1. CASE UNCHANGED rows
  BY <1>1
<1>2. ASSUME NEW t \in Threads, Create(t)
      PROVE  /\ \A i \in Ids : RowOK(rows'[i])
             /\ \A i \in Ids : rows[i].state = "consumed" =>
                  rows'[i] = rows[i]
  <2>1. PICK i \in Ids, ttl \in Lifetimes :
          /\ rows[i] = NoRow
          /\ Commit(t, i, [NoRow EXCEPT !.state = "pending",
                                        !.requester = call[t].actor,
                                        !.what = call[t].what,
                                        !.expires = call[t].now + ttl],
                    "request")
    BY <1>2 DEF Create
  <2> DEFINE row == [NoRow EXCEPT !.state = "pending",
                                  !.requester = call[t].actor,
                                  !.what = call[t].what,
                                  !.expires = call[t].now + ttl]
  <2>2. call[t].now \in Nat /\ call[t].what \in Mutations
    BY <1>2 DEF Create, Locks, TypeOK, CallType
  <2>3. RowOK(row)
    BY <2>2 DEF RowOK, NoRow
  <2>4. Expire(call[t].now)[i].state # "consumed"
    BY <2>1 DEF Expire, Overdue, NoRow, Live
  <2> HIDE DEF row
  <2> QED BY <2>1, <2>2, <2>3, <2>4, CommitKeeps DEF row
<1>3. ASSUME NEW t \in Threads,
             Approve(t) \/ Reject(t) \/ Cancel(t) \/ Consume(t)
      PROVE  /\ \A i \in Ids : RowOK(rows'[i])
             /\ \A i \in Ids : rows[i].state = "consumed" =>
                  rows'[i] = rows[i]
  <2> DEFINE c == call[t]
             row == Expire(c.now)[c.id]
  <2>1. c.now \in Nat /\ c.id \in Ids /\ c.actor \in Operators
    BY <1>3 DEF Approve, Reject, Cancel, Consume, Locks, TypeOK, CallType
  <2>2. row \in RowType /\ RowOK(row)
    BY <2>1, ExpireType, ExpireKeeps
  <2>3. row.state \in Live /\ row.state # "consumed"
    BY <1>3 DEF Approve, Reject, Cancel, Consume, MayApprove, MayReject,
                MayCancel, MayConsume, Live
  <2>4. PICK new, action : RowOK(new) /\ Commit(t, c.id, new, action)
    <3>1. CASE Approve(t)
      <4>1. RowOK([row EXCEPT !.state = "approved", !.approver = c.actor,
                              !.approvedAt = c.now])
        BY <3>1, <2>1, <2>2, <2>3
           DEF Approve, MayApprove, RowOK, RowType, Live
      <4> QED BY <3>1, <4>1 DEF Approve
    <3>2. CASE Reject(t)
      <4>1. RowOK([row EXCEPT !.state = "rejected"])
        BY <2>2, <2>3 DEF RowOK, RowType, Live
      <4> QED BY <3>2, <4>1 DEF Reject
    <3>3. CASE Cancel(t)
      <4>1. RowOK([row EXCEPT !.state = "cancelled"])
        BY <2>2, <2>3 DEF RowOK, RowType, Live
      <4> QED BY <3>3, <4>1 DEF Cancel
    <3>4. CASE Consume(t)
      <4>1. RowOK([row EXCEPT !.state = "consumed", !.consumedBy = c.actor,
                              !.consumedAt = c.now])
        BY <3>4, <2>2, <2>3 DEF Consume, MayConsume, RowOK, RowType
      <4> QED BY <3>4, <4>1 DEF Consume
    <3> QED BY <1>3, <3>1, <3>2, <3>3, <3>4
  <2> QED BY <2>1, <2>3, <2>4, CommitKeeps
<1>4. ASSUME NEW t \in Threads, Read(t)
      PROVE  /\ \A i \in Ids : RowOK(rows'[i])
             /\ \A i \in Ids : rows[i].state = "consumed" =>
                  rows'[i] = rows[i]
  <2>1. call[t].now \in Nat
    BY DEF TypeOK, CallType
  <2>2. rows' = Expire(call[t].now)
    BY <1>4 DEF Read
  <2> QED BY <2>1, <2>2, ExpireKeeps
<1> QED BY <1>1, <1>2, <1>3, <1>4
        DEF Next, Tick, Restart, Call, Reread, Refuse, Locked

(* What consume() found when it accepted: an approved request of the same
   operator for the same mutation. *)
LEMMA ConsumeFinds ==
    ASSUME TypeOK, \A i \in Ids : RowOK(rows[i]), NEW t \in Threads,
           Consume(t)
    PROVE  LET c == call[t] IN
           /\ c.id \in Ids /\ c.kind = "consume" /\ c.pc = "write"
           /\ rows[c.id].state = "approved"
           /\ rows'[c.id].state = "consumed"
           /\ rows'[c.id].requester = c.actor
           /\ rows'[c.id].what = c.what
           /\ call' = [call EXCEPT ![t] =
                         [@ EXCEPT !.pc = "committed", !.id = c.id]]
           /\ c.now < rows[c.id].expires
<1> DEFINE c == call[t]
           row == Expire(c.now)[c.id]
<1>1. c.now \in Nat /\ c.id \in Ids /\ c.what \in Mutations
        /\ c.pc = "write" /\ c.kind = "consume"
  BY DEF Consume, Locks, TypeOK, CallType
<1>2. row = rows[c.id] /\ row.state = "approved" /\ ~ Overdue(row, c.now)
  BY <1>1 DEF Consume, MayConsume, Expire, Overdue, TypeOK, RowType
<1>3. row \in RowType /\ row.what \in Mutations
  BY <1>1, <1>2 DEF TypeOK, RowOK
<1>4. row.requester = c.actor /\ row.what = c.what
  BY <1>1, <1>3, ConstantsAssumption DEF Consume, MayConsume
<1>5. rows'[c.id] = [row EXCEPT !.state = "consumed",
                                !.consumedBy = c.actor,
                                !.consumedAt = c.now]
  BY <1>1, ExpireType DEF Consume, Commit
<1>6. c.now < rows[c.id].expires
  BY <1>1, <1>2, <1>3 DEF Overdue, Live, RowType
<1>7. call' = [call EXCEPT ![t] = [@ EXCEPT !.pc = "committed", !.id = c.id]]
  BY DEF Consume, Commit
<1> QED BY <1>1, <1>2, <1>3, <1>4, <1>5, <1>6, <1>7 DEF RowType

Inv == TypeOK /\ GrantsInv /\ ExecutionsAreFourEyed /\ SingleUse

(* A step that hands out nothing and starts no hold keeps the invariant. *)
LEMMA QuietStep ==
    ASSUME Inv, Next, UNCHANGED granted,
           \A t \in Threads : Holding(t)' =>
             /\ Holding(t)
             /\ call'[t].id = call[t].id
             /\ call'[t].actor = call[t].actor
             /\ call'[t].what = call[t].what
    PROVE  (GrantsInv /\ ExecutionsAreFourEyed /\ SingleUse)'
<1>1. /\ \A i \in Ids : RowOK(rows'[i])
      /\ \A i \in Ids : rows[i].state = "consumed" => rows'[i] = rows[i]
  BY RowsStep DEF Inv, GrantsInv
<1>2. \A t \in Threads : Holding(t) => call[t].id \in Ids
  BY DEF Inv, TypeOK, Holding
<1>3. \A t \in Threads : Holding(t)' => HoldOK(t)'
  BY <1>1, <1>2 DEF Inv, GrantsInv, HoldOK
<1>4. GrantsInv'
  BY <1>1, <1>3 DEF Inv, GrantsInv
<1>5. ExecutionsAreFourEyed'
  <2> SUFFICES ASSUME NEW i \in Ids, NEW k \in DOMAIN granted[i]
               PROVE  /\ rows'[i].state = "consumed"
                      /\ granted[i][k] = [actor |-> rows'[i].requester,
                                          what |-> rows'[i].what]
                      /\ rows'[i].approver \in
                           Operators \ {rows'[i].requester}
                      /\ rows'[i].consumedBy = rows'[i].requester
    BY DEF ExecutionsAreFourEyed
  <2> QED BY <1>1 DEF Inv, ExecutionsAreFourEyed
<1>6. SingleUse'
  BY DEF Inv, SingleUse
<1> QED BY <1>4, <1>5, <1>6

LEMMA GrantsStep == Inv /\ [Next]_vars => Inv'
<1> SUFFICES ASSUME Inv, [Next]_vars
             PROVE  (GrantsInv /\ ExecutionsAreFourEyed /\ SingleUse)'
  BY TypeStep DEF Inv
<1>1. CASE UNCHANGED vars
  BY <1>1 DEF vars, Inv, GrantsInv, HoldOK, Holding, ExecutionsAreFourEyed,
              SingleUse
<1>2. CASE Tick \/ Restart
  BY <1>2, QuietStep DEF Next, Tick, Restart, Holding, Idle
<1>3. ASSUME NEW t \in Threads,
             Call(t) \/ Reread(t) \/ Refuse(t) \/ Locked(t)
      PROVE  (GrantsInv /\ ExecutionsAreFourEyed /\ SingleUse)'
  <2>1. Next /\ UNCHANGED granted
    BY <1>3 DEF Next, Call, Reread, Refuse, Locked
  <2>2. CASE Call(t)
    BY <2>1, <2>2, QuietStep
       DEF Call, Holding, Inv, TypeOK, CallType, Reads, Writes
  <2>3. CASE Reread(t)
    BY <2>1, <2>3, QuietStep DEF Reread, Holding, Inv, TypeOK, CallType
  <2>4. CASE Refuse(t) \/ Locked(t)
    <3>1. \A u \in Threads : call'[u] = IF u = t THEN Idle ELSE call[u]
      BY <2>4 DEF Refuse, Locked, Inv, TypeOK
    <3>2. \A u \in Threads : Holding(u)' => call'[u] = call[u] /\ Holding(u)
      BY <3>1, IdleType DEF Holding
    <3> QED BY <2>1, <3>2, QuietStep
  <2> QED BY <1>3, <2>2, <2>3, <2>4
<1>4. ASSUME NEW t \in Threads,
             Create(t) \/ Approve(t) \/ Reject(t) \/ Cancel(t)
      PROVE  (GrantsInv /\ ExecutionsAreFourEyed /\ SingleUse)'
  <2>1. Next /\ UNCHANGED granted
    BY <1>4 DEF Next, Create, Approve, Reject, Cancel, Commit
  <2>2. call[t].kind # "consume"
    BY <1>4 DEF Create, Approve, Reject, Cancel
  <2>3. PICK i : call' = [call EXCEPT ![t] =
                           [@ EXCEPT !.pc = "committed", !.id = i]]
    BY <1>4 DEF Create, Approve, Reject, Cancel, Commit
  <2> QED BY <2>1, <2>2, <2>3, QuietStep
          DEF Holding, Inv, TypeOK, CallType
<1>5. ASSUME NEW t \in Threads, Consume(t)
      PROVE  (GrantsInv /\ ExecutionsAreFourEyed /\ SingleUse)'
  <2> DEFINE c == call[t]
  <2>1. /\ c.id \in Ids /\ c.kind = "consume" /\ c.pc = "write"
        /\ rows[c.id].state = "approved"
        /\ rows'[c.id].state = "consumed"
        /\ rows'[c.id].requester = c.actor
        /\ rows'[c.id].what = c.what
        /\ call' = [call EXCEPT ![t] =
                      [@ EXCEPT !.pc = "committed", !.id = c.id]]
    BY <1>5, ConsumeFinds DEF Inv, GrantsInv
  <2>2. UNCHANGED granted
    BY <1>5 DEF Consume, Commit
  <2>3. /\ \A i \in Ids : RowOK(rows'[i])
        /\ \A i \in Ids : rows[i].state = "consumed" => rows'[i] = rows[i]
    BY <1>5, RowsStep DEF Inv, GrantsInv, Next
  <2>4. granted[c.id] = << >>
    <3>1. \A k \in DOMAIN granted[c.id] : FALSE
      BY <2>1 DEF Inv, ExecutionsAreFourEyed
    <3>2. granted[c.id] \in Seq(GrantType)
      BY <2>1 DEF Inv, TypeOK
    <3>3. Len(granted[c.id]) \in Nat
            /\ DOMAIN granted[c.id] = 1..Len(granted[c.id])
      BY <3>2
    <3>4. Len(granted[c.id]) = 0
      <4>1. Len(granted[c.id]) # 0 => 1 \in DOMAIN granted[c.id]
        BY <3>3
      <4> QED BY <3>1, <4>1
    <3> QED BY <3>2, <3>4
  <2>5. \A u \in Threads : Holding(u) => call[u].id # c.id
    BY <2>1 DEF Inv, GrantsInv, HoldOK
  <2>6. \A u \in Threads \ {t} : call'[u] = call[u]
    BY <2>1
  <2>7. call'[t] = [c EXCEPT !.pc = "committed", !.id = c.id]
          /\ c \in CallType
    BY <2>1 DEF Inv, TypeOK
  <2>8. /\ call'[t].id = c.id /\ call'[t].actor = c.actor
        /\ call'[t].what = c.what
    BY <2>7 DEF CallType
  <2>9. HoldOK(t)'
    BY <2>1, <2>2, <2>4, <2>8 DEF HoldOK
  <2>10. \A u \in Threads : Holding(u) => call[u].id \in Ids
    BY DEF Inv, TypeOK, Holding
  <2>11. \A u \in Threads \ {t} : Holding(u)' => Holding(u) /\ HoldOK(u)'
    BY <2>2, <2>3, <2>6, <2>10 DEF Inv, GrantsInv, HoldOK, Holding
  <2>12. GrantsInv'
    BY <2>3, <2>5, <2>6, <2>8, <2>9, <2>11 DEF Inv, GrantsInv
  <2>13. ExecutionsAreFourEyed' /\ SingleUse'
    BY <2>2, <2>3 DEF Inv, ExecutionsAreFourEyed, SingleUse
  <2> QED BY <2>12, <2>13
<1>6. ASSUME NEW t \in Threads, Read(t)
      PROVE  (GrantsInv /\ ExecutionsAreFourEyed /\ SingleUse)'
  <2> DEFINE c == call[t]
  <2>1. \A u \in Threads : call'[u] = IF u = t THEN Idle ELSE call[u]
    BY <1>6 DEF Read, Inv, TypeOK
  <2>2. CASE c.kind # "consume"
    <3>1. \A u \in Threads : Holding(u)' => call'[u] = call[u] /\ Holding(u)
      BY <2>1, IdleType DEF Holding
    <3>2. UNCHANGED granted
      BY <1>6, <2>2 DEF Read
    <3> QED BY <1>6, <3>1, <3>2, QuietStep DEF Next
  <2>3. CASE c.kind = "consume"
    <3>1. Holding(t) /\ HoldOK(t) /\ c.id \in Ids
      BY <1>6, <2>3 DEF Read, Locks, Holding, Inv, GrantsInv, TypeOK
    <3>2. \A i \in Ids : granted'[i] =
            IF i = c.id THEN << [actor |-> c.actor, what |-> c.what] >>
                        ELSE granted[i]
      BY <1>6, <2>3, <3>1 DEF Read, HoldOK, Inv, TypeOK
    <3>3. /\ \A i \in Ids : RowOK(rows'[i])
          /\ \A i \in Ids : rows[i].state = "consumed" =>
               rows'[i] = rows[i]
      BY <1>6, RowsStep DEF Inv, GrantsInv, Next
    <3>4. \A u \in Threads : Holding(u)' =>
            Holding(u) /\ call'[u] = call[u] /\ call[u].id \in Ids
              /\ call[u].id # c.id
      BY <2>1, <3>1 DEF Holding, Idle, Inv, GrantsInv, TypeOK
    <3>5. GrantsInv'
      BY <3>2, <3>3, <3>4 DEF Inv, GrantsInv, HoldOK
    <3>6. ExecutionsAreFourEyed'
      <4> SUFFICES ASSUME NEW i \in Ids, NEW k \in DOMAIN granted'[i]
                   PROVE  /\ rows'[i].state = "consumed"
                          /\ granted'[i][k] =
                               [actor |-> rows'[i].requester,
                                what |-> rows'[i].what]
                          /\ rows'[i].approver \in
                               Operators \ {rows'[i].requester}
                          /\ rows'[i].consumedBy = rows'[i].requester
        BY DEF ExecutionsAreFourEyed
      <4>1. CASE i = c.id
        BY <4>1, <3>1, <3>2, <3>3 DEF HoldOK, RowOK
      <4>2. CASE i # c.id
        <5>1. granted'[i] = granted[i]
          BY <4>2, <3>2
        <5>2. /\ rows[i].state = "consumed"
              /\ granted[i][k] = [actor |-> rows[i].requester,
                                  what |-> rows[i].what]
              /\ rows[i].approver \in Operators \ {rows[i].requester}
              /\ rows[i].consumedBy = rows[i].requester
          BY <5>1 DEF Inv, ExecutionsAreFourEyed
        <5> QED BY <5>1, <5>2, <3>3
      <4> QED BY <4>1, <4>2
    <3>7. SingleUse'
      <4>1. \A x : Len(<< x >>) = 1
        OBVIOUS
      <4>2. ASSUME NEW i \in Ids PROVE Len(granted'[i]) <= 1
        <5>1. CASE i = c.id
          <6> DEFINE g == [actor |-> c.actor, what |-> c.what]
          <6>1. granted'[i] = << g >>
            BY <5>1, <3>2
          <6>2. Len(<< g >>) = 1
            BY <4>1
          <6> HIDE DEF g
          <6> QED BY <6>1, <6>2
        <5>2. CASE i # c.id
          BY <5>2, <3>2 DEF Inv, SingleUse
        <5> QED BY <5>1, <5>2
      <4> QED BY <4>2 DEF SingleUse
    <3> QED BY <3>5, <3>6, <3>7
  <2> QED BY <2>2, <2>3
<1> QED BY <1>1, <1>2, <1>3, <1>4, <1>5, <1>6 DEF Next

LEMMA InvAlways == Spec => []Inv
<1>1. Init => Inv
  <2>1. Init => TypeOK
    BY DEF Init, TypeOK, RowType, NoRow, CallType, Idle, Reads
  <2> QED BY <2>1 DEF Init, Inv, GrantsInv, RowOK, NoRow, Holding, Idle,
                      ExecutionsAreFourEyed, SingleUse
<1> QED BY <1>1, GrantsStep, PTL DEF Spec

(* Whatever the interleaving and the restarts, every execution that the
   store let through was asked for by its actor, matches the reviewed
   mutation, was agreed to by somebody else, and is the only one of its
   approval. *)
THEOREM FourEyed == Spec => []TwoPersonRule
<1>1. Inv => TwoPersonRule
  BY DEF Inv, TwoPersonRule
<1> QED BY <1>1, InvAlways, PTL

-----------------------------------------------------------------------------
(* Expiry against the clock. *)

(* A row becomes consumed in no other step than consume() on its id. *)
LEMMA OnlyConsume ==
    ASSUME TypeOK, Next, NEW i \in Ids,
           rows[i].state # "consumed", rows'[i].state = "consumed"
    PROVE  \E t \in Threads : Consume(t) /\ call[t].id = i
<1> DEFINE Quiet(now) == Expire(now)[i].state # "consumed"
<1>1. \A now : Quiet(now)
  BY DEF Expire, TypeOK, RowType
<1>2. ASSUME NEW t \in Threads, NEW j \in Ids, NEW row, NEW action,
             row.state # "consumed", Commit(t, j, row, action)
      PROVE  FALSE
  <2>1. call[t].now \in Nat
    BY DEF TypeOK, CallType
  <2>2. rows'[i] = IF i = j THEN row ELSE Expire(call[t].now)[i]
    BY <1>2, <2>1, ExpireType DEF Commit
  <2> QED BY <1>1, <1>2, <2>2
<1>3. ASSUME NEW t \in Threads, Create(t) PROVE FALSE
  <2>1. PICK j \in Ids, ttl \in Lifetimes :
          Commit(t, j, [NoRow EXCEPT !.state = "pending",
                                     !.requester = call[t].actor,
                                     !.what = call[t].what,
                                     !.expires = call[t].now + ttl],
                 "request")
    BY <1>3 DEF Create
  <2>2. [NoRow EXCEPT !.state = "pending", !.requester = call[t].actor,
                      !.what = call[t].what,
                      !.expires = call[t].now + ttl].state # "consumed"
    BY DEF NoRow
  <2> QED BY <1>2, <2>1, <2>2
<1>4. ASSUME NEW t \in Threads, Approve(t) \/ Reject(t) \/ Cancel(t)
      PROVE  FALSE
  <2> DEFINE c == call[t]
             row == Expire(c.now)[c.id]
  <2>1. c.now \in Nat /\ c.id \in Ids
    BY <1>4 DEF Approve, Reject, Cancel, Locks, TypeOK, CallType
  <2>2. row \in RowType
    BY <2>1, ExpireType
  <2>3. /\ [row EXCEPT !.state = "approved", !.approver = c.actor,
                       !.approvedAt = c.now].state # "consumed"
        /\ [row EXCEPT !.state = "rejected"].state # "consumed"
        /\ [row EXCEPT !.state = "cancelled"].state # "consumed"
    BY <2>2 DEF RowType
  <2> HIDE DEF row
  <2> QED BY <1>2, <1>4, <2>1, <2>3 DEF Approve, Reject, Cancel, row
<1>5. ASSUME NEW t \in Threads, Read(t) PROVE FALSE
  BY <1>1, <1>5 DEF Read
<1>6. ASSUME NEW t \in Threads, Consume(t) PROVE call[t].id = i
  <2> DEFINE c == call[t]
  <2>1. c.now \in Nat /\ c.id \in Ids
    BY <1>6 DEF Consume, Locks, TypeOK, CallType
  <2>2. c.id # i => rows'[i] = Expire(c.now)[i]
    BY <1>6, <2>1, ExpireType DEF Consume, Commit
  <2> QED BY <1>1, <2>2
<1> QED BY <1>3, <1>4, <1>5, <1>6
        DEF Next, Tick, Restart, Call, Reread, Refuse, Locked

(* An approval is never consumed later than its expiry plus the time a
   transaction may wait for the write lock. *)
THEOREM ConsumedOnTime == Spec => ConsumedInTime
<1>1. ASSUME Inv, [Next]_vars
      PROVE  [\A i \in Ids :
                rows[i].state # "consumed" /\ rows'[i].state = "consumed"
                  => clock < rows[i].expires + BusyTimeout]_vars
  <2> SUFFICES ASSUME Next, NEW i \in Ids, rows[i].state # "consumed",
                      rows'[i].state = "consumed"
               PROVE  clock < rows[i].expires + BusyTimeout
    BY <1>1 DEF vars
  <2>1. PICK t \in Threads : Consume(t) /\ call[t].id = i
    BY <1>1, OnlyConsume DEF Inv
  <2>2. call[t].now < rows[i].expires
    BY <1>1, <2>1, ConsumeFinds DEF Inv, GrantsInv
  <2>3. clock - call[t].now <= BusyTimeout
    BY <2>1 DEF Consume, Locks
  <2>4. clock \in Nat /\ call[t].now \in Nat /\ rows[i].expires \in Nat
    BY <1>1 DEF Inv, TypeOK, CallType, RowType
  <2> QED BY <2>2, <2>3, <2>4, ConstantsAssumption
<1> QED BY <1>1, InvAlways, PTL DEF Spec, ConsumedInTime

-----------------------------------------------------------------------------
(* Refinement of DualControl. *)

(* Expiry closes a request or leaves it alone. *)
LEMMA ExpireMoves ==
    ASSUME TypeOK, NEW now \in Nat, NEW i \in Ids
    PROVE  DC!Moves(Abstract(rows[i]), Abstract(Expire(now)[i]))
<1>1. CASE Overdue(rows[i], now)
  <2>1. Expire(now)[i] = [rows[i] EXCEPT !.state = "expired"]
    BY <1>1 DEF Expire
  <2>2. rows[i] \in RowType /\ rows[i].state \in Live
    BY <1>1 DEF TypeOK, Overdue
  <2>3. Abstract(Expire(now)[i]) = [Abstract(rows[i]) EXCEPT !.state = "closed"]
    BY <2>1, <2>2 DEF Abstract, RowType, Terminal
  <2>4. Abstract(rows[i]).state \in {"pending", "approved"}
    BY <2>2 DEF Abstract, Live, Terminal
  <2> QED BY <2>3, <2>4 DEF DC!Moves, DC!Close
<1>2. CASE ~ Overdue(rows[i], now)
  BY <1>2 DEF Expire, DC!Moves
<1> QED BY <1>1, <1>2

(* A commit whose own row moves legally moves every row legally. *)
LEMMA CommitMoves ==
    ASSUME TypeOK, NEW t \in Threads, NEW i \in Ids, NEW row, NEW action,
           DC!Moves(Abstract(rows[i]), Abstract(row)),
           Commit(t, i, row, action)
    PROVE  \A j \in Ids : DC!Moves(Abstract(rows[j]), Abstract(rows'[j]))
<1>1. call[t].now \in Nat
  BY DEF TypeOK, CallType
<1>2. \A j \in Ids : rows'[j] = IF j = i THEN row
                                ELSE Expire(call[t].now)[j]
  BY <1>1, ExpireType DEF Commit
<1> QED BY <1>1, <1>2, ExpireMoves

LEMMA RowsMove ==
    ASSUME TypeOK, Next
    PROVE  \A i \in Ids : DC!Moves(Abstract(rows[i]), Abstract(rows'[i]))
<1>1. CASE UNCHANGED rows
  BY <1>1 DEF DC!Moves
<1>2. ASSUME NEW t \in Threads, Create(t)
      PROVE  \A i \in Ids : DC!Moves(Abstract(rows[i]), Abstract(rows'[i]))
  <2> DEFINE c == call[t]
             new(ttl) == [NoRow EXCEPT !.state = "pending",
                                       !.requester = c.actor,
                                       !.what = c.what,
                                       !.expires = c.now + ttl]
  <2>1. PICK i \in Ids, ttl \in Lifetimes :
          rows[i] = NoRow /\ Commit(t, i, new(ttl), "request")
    BY <1>2 DEF Create
  <2>2. c.actor \in Operators /\ c.what \in Mutations
    BY <1>2 DEF Create, Locks, TypeOK
  <2>3. Abstract(rows[i]) = DC!Blank
    BY <2>1 DEF Abstract, NoRow, Terminal, DC!Blank
  <2>4. Abstract(new(ttl)) = [state |-> "pending", requester |-> c.actor,
                              what |-> c.what, approver |-> None]
    <3>1. /\ new(ttl).state = "pending"
          /\ new(ttl).requester = c.actor
          /\ new(ttl).what = c.what
          /\ new(ttl).approver = None
      BY DEF NoRow
    <3> HIDE DEF new
    <3> QED BY <3>1 DEF Abstract, Terminal
  <2>5. DC!Moves(Abstract(rows[i]), Abstract(new(ttl)))
    BY <2>2, <2>3, <2>4 DEF DC!Moves, DC!Ask
  <2> HIDE DEF new
  <2> QED BY <2>1, <2>5, CommitMoves
<1>3. ASSUME NEW t \in Threads,
             Approve(t) \/ Reject(t) \/ Cancel(t) \/ Consume(t)
      PROVE  \A i \in Ids : DC!Moves(Abstract(rows[i]), Abstract(rows'[i]))
  <2> DEFINE c == call[t]
             row == Expire(c.now)[c.id]
  <2>1. c.now \in Nat /\ c.id \in Ids /\ c.actor \in Operators
    BY <1>3 DEF Approve, Reject, Cancel, Consume, Locks, TypeOK, CallType
  <2>2. row.state \in Live
    BY <1>3 DEF Approve, Reject, Cancel, Consume, MayApprove, MayReject,
                MayCancel, MayConsume, Live
  <2>3. row = rows[c.id] /\ row \in RowType
    BY <2>1, <2>2 DEF Expire, Overdue, TypeOK, RowType, Live
  <2>4. Abstract(row) = [state |-> row.state, requester |-> row.requester,
                         what |-> row.what, approver |-> row.approver]
    BY <2>2 DEF Abstract, Live, Terminal
  <2> HIDE DEF row
  <2>5. CASE Approve(t)
    <3> DEFINE new == [row EXCEPT !.state = "approved", !.approver = c.actor,
                                  !.approvedAt = c.now]
    <3>1. Abstract(new) = [state |-> "approved",
                           requester |-> row.requester,
                           what |-> row.what, approver |-> c.actor]
      <4>1. /\ new.state = "approved" /\ new.approver = c.actor
            /\ new.requester = row.requester /\ new.what = row.what
        BY <2>3 DEF RowType
      <4> HIDE DEF new
      <4> QED BY <4>1 DEF Abstract, Terminal
    <3>2. row.state = "pending" /\ row.requester # c.actor
      BY <2>5 DEF Approve, MayApprove, row
    <3>3. DC!Moves(Abstract(rows[c.id]), Abstract(new))
      <4>1. /\ Abstract(row).state = "pending"
            /\ c.actor \in Operators \ {Abstract(row).requester}
        BY <2>1, <2>4, <3>2
      <4> HIDE DEF new
      <4>2. DC!Agree(Abstract(row), Abstract(new))
        BY <2>4, <3>1, <4>1 DEF DC!Agree
      <4> QED BY <2>3, <4>2 DEF DC!Moves
    <3>4. Commit(t, c.id, new, "approve")
      BY <2>5 DEF Approve, row
    <3> HIDE DEF new
    <3> QED BY <2>1, <3>3, <3>4, CommitMoves
  <2>6. ASSUME NEW state \in {"rejected", "cancelled"}, NEW action,
               Commit(t, c.id, [row EXCEPT !.state = state], action)
        PROVE  \A i \in Ids : DC!Moves(Abstract(rows[i]), Abstract(rows'[i]))
    <3> DEFINE new == [row EXCEPT !.state = state]
    <3>1. Abstract(new) = [Abstract(row) EXCEPT !.state = "closed"]
      BY <2>3, <2>4 DEF Abstract, RowType, Terminal
    <3>2. DC!Moves(Abstract(rows[c.id]), Abstract(new))
      BY <2>2, <2>3, <2>4, <3>1 DEF DC!Moves, DC!Close, Live
    <3>3. Commit(t, c.id, new, action)
      BY <2>6
    <3> HIDE DEF new
    <3> QED BY <2>1, <3>2, <3>3, CommitMoves
  <2>7. CASE Reject(t)
    BY <2>6, <2>7 DEF Reject, row
  <2>8. CASE Cancel(t)
    BY <2>6, <2>8 DEF Cancel, row
  <2>9. CASE Consume(t)
    <3> DEFINE new == [row EXCEPT !.state = "consumed",
                                  !.consumedBy = c.actor,
                                  !.consumedAt = c.now]
    <3>1. Abstract(new) = [Abstract(row) EXCEPT !.state = "spent"]
      BY <2>3, <2>4 DEF Abstract, RowType, Terminal
    <3>2. row.state = "approved"
      BY <2>9 DEF Consume, MayConsume, row
    <3>3. DC!Moves(Abstract(rows[c.id]), Abstract(new))
      BY <2>3, <2>4, <3>1, <3>2 DEF DC!Moves, DC!Spend
    <3>4. Commit(t, c.id, new, "consume")
      BY <2>9 DEF Consume, row
    <3> HIDE DEF new
    <3> QED BY <2>1, <3>3, <3>4, CommitMoves
  <2> QED BY <1>3, <2>5, <2>7, <2>8, <2>9
<1>4. ASSUME NEW t \in Threads, Read(t)
      PROVE  \A i \in Ids : DC!Moves(Abstract(rows[i]), Abstract(rows'[i]))
  <2>1. call[t].now \in Nat /\ rows' = Expire(call[t].now)
    BY <1>4 DEF Read, TypeOK, CallType
  <2> QED BY <2>1, ExpireMoves
<1> QED BY <1>1, <1>2, <1>3, <1>4
        DEF Next, Tick, Restart, Call, Reread, Refuse, Locked

(* Executions are handed out as DualControl allows. *)
LEMMA GrantsMove ==
    ASSUME Inv, Next
    PROVE  \/ UNCHANGED granted
           \/ \E i \in Ids : DC!Execute(i)
<1>1. CASE UNCHANGED granted
  BY <1>1
<1>2. ASSUME NEW t \in Threads, Read(t), call[t].kind = "consume"
      PROVE  \E i \in Ids : DC!Execute(i)
  <2> DEFINE c == call[t]
  <2>1. Holding(t) /\ HoldOK(t) /\ c.id \in Ids
    BY <1>2 DEF Read, Locks, Holding, Inv, GrantsInv, TypeOK
  <2>2. granted' = [granted EXCEPT ![c.id] =
                      << [actor |-> c.actor, what |-> c.what] >>]
    BY <1>2, <2>1 DEF Read, HoldOK, Inv, TypeOK
  <2>3. /\ Abstract(rows[c.id]).state = "spent"
        /\ Abstract(rows[c.id]).requester = c.actor
        /\ Abstract(rows[c.id]).what = c.what
    BY <2>1 DEF HoldOK, Abstract
  <2> QED BY <2>1, <2>2, <2>3 DEF DC!Execute, HoldOK
<1> QED BY <1>1, <1>2
        DEF Next, Tick, Restart, Call, Reread, Refuse, Locked, Read, Create,
            Approve, Reject, Cancel, Consume, Commit

(* Every behaviour of the store, lock waits, restarts and expiries
   included, is one that the abstract four-eyes specification allows. *)
THEOREM RefinesDualControl == Spec => ImplementsDualControl
<1>1. Init => DC!Init
  <2>1. Abstract(NoRow) = DC!Blank
    BY DEF Abstract, NoRow, Terminal, DC!Blank
  <2> QED BY <2>1 DEF Init, DC!Init
<1>2. ASSUME Inv, [Next]_vars
      PROVE  [DC!Next]_<< [i \in Ids |-> Abstract(rows[i])], granted >>
  <2>1. CASE UNCHANGED vars
    BY <2>1 DEF vars
  <2>2. CASE Next
    BY <1>2, <2>2, RowsMove, GrantsMove DEF DC!Next, Inv
  <2> QED BY <1>2, <2>1, <2>2
<1> QED BY <1>1, <1>2, InvAlways, PTL
          DEF Spec, DC!Spec, ImplementsDualControl

-----------------------------------------------------------------------------
(* The story the ledger tells. *)

(* What an event says of the row it moves. *)
Tells(row, e, new) ==
    /\ e.previous = row.state /\ e.state = new.state
    /\ new.requester = IF e.action = "request" THEN e.actor ELSE row.requester
    /\ new.approver = IF e.action = "approve" THEN e.actor ELSE row.approver
    /\ new.consumedBy = IF e.action = "consume" THEN e.actor
                                                ELSE row.consumedBy
    /\ e.action = "request" => row.requester = None
    /\ e.action = "approve" => row.approver = None
    /\ e.action = "consume" => row.consumedBy = None
    /\ e.action # "expire" => e.actor \in Operators

(* Nobody has approved what is pending, or consumed what is not consumed;
   this is not a property of the program but what makes the story inductive. *)
Unsigned(row) ==
    /\ row.state \in {"none", "pending"} => row.approver = None
    /\ row.state # "consumed" => row.consumedBy = None

(* Calls and events carry clock readings of the past. *)
PastCalls == \A t \in Threads : call[t].now <= clock
PastEvents == \A i \in Ids : \A k \in DOMAIN events[i] : events[i][k].at <= clock

(* The event e of this step is in the present, but for the lock wait. *)
InTime(e) == e.at <= clock /\ clock <= e.at + BusyTimeout

(* At most one event of a request in a step, and it tells what moved. *)
Moved(i) ==
    \/ rows'[i] = rows[i] /\ events'[i] = events[i]
    \/ \E e \in EventType : /\ events'[i] = Append(events[i], e)
                            /\ Tells(rows[i], e, rows'[i]) /\ InTime(e)

(* An expiry is told. *)
LEMMA ExpiryTells ==
    ASSUME TypeOK, PastCalls, \A i \in Ids : Unsigned(rows[i]),
           NEW now \in Nat, now <= clock, clock <= now + BusyTimeout,
           NEW i \in Ids
    PROVE  /\ Unsigned(Expire(now)[i])
           /\ \/ /\ Expire(now)[i] = rows[i]
                 /\ ExpireEvents(now)[i] = events[i]
              \/ \E e \in EventType :
                   /\ ExpireEvents(now)[i] = Append(events[i], e)
                   /\ Tells(rows[i], e, Expire(now)[i]) /\ InTime(e)
<1>1. CASE Overdue(rows[i], now)
  <2> DEFINE e == Event("system", "expire", rows[i].state, "expired", now)
  <2>1. rows[i] \in RowType /\ rows[i].state \in Live
    BY <1>1 DEF TypeOK, Overdue
  <2>2. e \in EventType
    BY <2>1 DEF Event, EventType, Live, Terminal
  <2>3. Expire(now)[i] = [rows[i] EXCEPT !.state = "expired"]
    BY <1>1 DEF Expire
  <2>4. ExpireEvents(now)[i] = Append(events[i], e)
    BY <1>1 DEF ExpireEvents
  <2>5. Tells(rows[i], e, Expire(now)[i]) /\ InTime(e)
    BY <2>1, <2>3 DEF Tells, InTime, Event, RowType
  <2>6. Unsigned(Expire(now)[i])
    BY <2>1, <2>3 DEF Unsigned, RowType, Live
  <2> HIDE DEF e
  <2> QED BY <2>2, <2>4, <2>5, <2>6
<1>2. CASE ~ Overdue(rows[i], now)
  BY <1>2 DEF Expire, ExpireEvents
<1> QED BY <1>1, <1>2

(* A commit tells of its own request what it did, and of the others what
   expired. *)
LEMMA CommitTells ==
    ASSUME TypeOK, PastCalls, \A i \in Ids : Unsigned(rows[i]),
           NEW t \in Threads, NEW i \in Ids, NEW row,
           NEW action \in {"request", "approve", "reject", "cancel", "consume"},
           Locks(t, "write"), ~ Overdue(rows[i], call[t].now),
           rows[i].state \in {"none"} \cup Live,
           row.state \in Live \cup Terminal,
           Commit(t, i, row, action), Unsigned(row),
           Tells(rows[i], Event(call[t].actor, action, rows[i].state, row.state,
                                call[t].now), row)
    PROVE  \A j \in Ids : Unsigned(rows'[j]) /\ Moved(j)
<1> DEFINE c == call[t]
           e == Event(c.actor, action, rows[i].state, row.state, c.now)
<1>1. /\ c.now \in Nat /\ c.actor \in Operators /\ c.now <= clock
      /\ clock <= c.now + BusyTimeout /\ clock \in Nat
  BY ConstantsAssumption DEF Locks, TypeOK, CallType, PastCalls
<1>2. Expire(c.now)[i] = rows[i] /\ ExpireEvents(c.now)[i] = events[i]
  BY DEF Expire, ExpireEvents
<1>3. /\ \A j \in Ids : rows'[j] = IF j = i THEN row ELSE Expire(c.now)[j]
      /\ \A j \in Ids : events'[j] = IF j = i THEN Append(events[i], e)
                                     ELSE ExpireEvents(c.now)[j]
  BY <1>1, <1>2, ExpireType DEF Commit
<1>4. e \in EventType /\ InTime(e)
  BY <1>1 DEF EventType, Event, InTime
<1>5. Unsigned(rows'[i]) /\ Moved(i)
  BY <1>3, <1>4 DEF Moved
<1>6. ASSUME NEW j \in Ids, j # i PROVE Unsigned(rows'[j]) /\ Moved(j)
  BY <1>1, <1>3, <1>6, ExpiryTells DEF Moved
<1> QED BY <1>5, <1>6

(* A row that a method writes for operator a keeps its shape and is told. *)
Says(row, action, a, now, new) ==
    /\ new.state \in Live \cup Terminal /\ Unsigned(new)
    /\ Tells(row, Event(a, action, row.state, new.state, now), new)

LEMMA MethodsSay ==
    ASSUME NEW row \in RowType, NEW a \in Operators, NEW now \in Nat,
           Unsigned(row), row.state \in Live
    PROVE  /\ row.state = "pending" =>
                Says(row, "approve", a, now,
                     [row EXCEPT !.state = "approved", !.approver = a, !.approvedAt = now])
           /\ row.state = "pending" =>
                Says(row, "reject", a, now, [row EXCEPT !.state = "rejected"])
           /\ Says(row, "cancel", a, now, [row EXCEPT !.state = "cancelled"])
           /\ row.state = "approved" =>
                Says(row, "consume", a, now,
                     [row EXCEPT !.state = "consumed", !.consumedBy = a, !.consumedAt = now])
  BY DEF Says, Tells, Unsigned, Event, RowType, Live, Terminal

(* Every step tells what it moves. *)
LEMMA StepTells ==
    ASSUME TypeOK, PastCalls, \A i \in Ids : Unsigned(rows[i]), Next
    PROVE  \A i \in Ids : Unsigned(rows'[i]) /\ Moved(i)
<1>1. CASE UNCHANGED <<rows, events>>
  BY <1>1 DEF Moved
<1>2. ASSUME NEW t \in Threads, Create(t)
      PROVE  \A i \in Ids : Unsigned(rows'[i]) /\ Moved(i)
  <2>1. PICK i \in Ids, ttl \in Lifetimes :
          /\ rows[i] = NoRow
          /\ Commit(t, i, [NoRow EXCEPT !.state = "pending",
                                        !.requester = call[t].actor,
                                        !.what = call[t].what,
                                        !.expires = call[t].now + ttl],
                    "request")
    BY <1>2 DEF Create
  <2> DEFINE row == [NoRow EXCEPT !.state = "pending",
                                  !.requester = call[t].actor,
                                  !.what = call[t].what,
                                  !.expires = call[t].now + ttl]
  <2>2. Locks(t, "write") /\ call[t].actor \in Operators
    BY <1>2 DEF Create, Locks, TypeOK
  <2>3. /\ ~ Overdue(rows[i], call[t].now) /\ rows[i].state = "none"
        /\ row.state \in Live \cup Terminal /\ Unsigned(row)
    BY <2>1 DEF Overdue, NoRow, Live, Unsigned
  <2>4. Tells(rows[i], Event(call[t].actor, "request", rows[i].state, row.state,
                             call[t].now), row)
    BY <2>1, <2>2 DEF Tells, Event, NoRow
  <2> HIDE DEF row
  <2> QED BY <2>1, <2>2, <2>3, <2>4, CommitTells DEF row
<1>3. ASSUME NEW t \in Threads,
             Approve(t) \/ Reject(t) \/ Cancel(t) \/ Consume(t)
      PROVE  \A i \in Ids : Unsigned(rows'[i]) /\ Moved(i)
  <2> DEFINE c == call[t]
             row == Expire(c.now)[c.id]
  <2>1. c.now \in Nat /\ c.id \in Ids /\ c.actor \in Operators /\ Locks(t, "write")
    BY <1>3 DEF Approve, Reject, Cancel, Consume, Locks, TypeOK, CallType
  <2>2. row.state \in Live
    BY <1>3 DEF Approve, Reject, Cancel, Consume, MayApprove, MayReject,
                MayCancel, MayConsume, Live
  <2>3. rows[c.id] \in RowType
    BY <2>1 DEF TypeOK
  <2>4. ~ Overdue(rows[c.id], c.now) /\ row = rows[c.id]
    BY <2>1, <2>2, <2>3 DEF Expire, Overdue, Live, RowType
  <2>5. Unsigned(row)
    BY <2>1, <2>4
  <2>6. row \in RowType
    BY <2>3, <2>4
  <2>7. /\ row.state = "pending" =>
             Says(row, "approve", c.actor, c.now,
                  [row EXCEPT !.state = "approved", !.approver = c.actor,
                              !.approvedAt = c.now])
        /\ row.state = "pending" =>
             Says(row, "reject", c.actor, c.now, [row EXCEPT !.state = "rejected"])
        /\ Says(row, "cancel", c.actor, c.now, [row EXCEPT !.state = "cancelled"])
        /\ row.state = "approved" =>
             Says(row, "consume", c.actor, c.now,
                  [row EXCEPT !.state = "consumed", !.consumedBy = c.actor,
                              !.consumedAt = c.now])
    <3> HIDE DEF row
    <3> QED BY <2>1, <2>2, <2>5, <2>6, MethodsSay
  <2>8. CASE Approve(t)
    <3>1. row.state = "pending"
            /\ Commit(t, c.id, [row EXCEPT !.state = "approved",
                                !.approver = c.actor, !.approvedAt = c.now],
                      "approve")
      BY <2>8 DEF Approve, MayApprove
    <3> HIDE DEF row
    <3> QED BY <2>1, <2>2, <2>4, <2>7, <3>1, CommitTells DEF Says
  <2>9. CASE Reject(t)
    <3>1. row.state = "pending"
            /\ Commit(t, c.id, [row EXCEPT !.state = "rejected"], "reject")
      BY <2>9 DEF Reject, MayReject
    <3> HIDE DEF row
    <3> QED BY <2>1, <2>2, <2>4, <2>7, <3>1, CommitTells DEF Says
  <2>10. CASE Cancel(t)
    <3>1. Commit(t, c.id, [row EXCEPT !.state = "cancelled"], "cancel")
      BY <2>10 DEF Cancel
    <3> HIDE DEF row
    <3> QED BY <2>1, <2>2, <2>4, <2>7, <3>1, CommitTells DEF Says
  <2>11. CASE Consume(t)
    <3>1. row.state = "approved"
            /\ Commit(t, c.id, [row EXCEPT !.state = "consumed",
                                !.consumedBy = c.actor, !.consumedAt = c.now],
                      "consume")
      BY <2>11 DEF Consume, MayConsume
    <3> HIDE DEF row
    <3> QED BY <2>1, <2>2, <2>4, <2>7, <3>1, CommitTells DEF Says
  <2> QED BY <1>3, <2>8, <2>9, <2>10, <2>11
<1>4. ASSUME NEW t \in Threads, Read(t)
      PROVE  \A i \in Ids : Unsigned(rows'[i]) /\ Moved(i)
  <2> DEFINE c == call[t]
  <2>1. c.now \in Nat /\ c.now <= clock /\ clock <= c.now + BusyTimeout
    BY <1>4, ConstantsAssumption DEF Read, Locks, TypeOK, CallType, PastCalls
  <2>2. rows' = Expire(c.now) /\ events' = ExpireEvents(c.now)
    BY <1>4 DEF Read
  <2> QED BY <2>1, <2>2, ExpiryTells DEF Moved
<1> QED BY <1>1, <1>2, <1>3, <1>4
        DEF Next, Tick, Restart, Call, Reread, Refuse, Locked

(* Clock readings stay in the past. *)
LEMMA PastStep ==
    ASSUME TypeOK, PastCalls, PastEvents, Next,
           \A i \in Ids : Moved(i)
    PROVE  PastCalls' /\ PastEvents'
<1> DEFINE Now(u) == call'[u].now \in {call[u].now, clock, 0}
<1>0. call \in [Threads -> CallType] /\ Idle.now = 0
  BY DEF TypeOK, Idle
<1>1. clock \in Nat /\ clock' \in Nat /\ clock <= clock'
  <2>1. CASE Tick
    BY <2>1 DEF Tick, TypeOK
  <2>2. ASSUME NEW t \in Threads,
               \/ Create(t) \/ Approve(t) \/ Reject(t) \/ Cancel(t) \/ Consume(t)
               \/ Call(t) \/ Reread(t) \/ Read(t) \/ Refuse(t) \/ Locked(t)
        PROVE  clock' = clock
    BY <2>2 DEF Call, Create, Approve, Reject, Cancel, Consume, Commit, Reread,
                Read, Refuse, Locked
  <2>3. CASE UNCHANGED clock
    BY <2>3 DEF TypeOK
  <2> QED BY <2>1, <2>2, <2>3 DEF Next, Restart
<1>2. \A u \in Threads : Now(u)
  <2>1. CASE UNCHANGED call
    BY <2>1
  <2>2. CASE Restart
    BY <1>0, <2>2 DEF Restart
  <2>3. ASSUME NEW t \in Threads, Call(t) PROVE \A u \in Threads : Now(u)
    <3>1. PICK kind \in Reads \cup Writes, i \in Ids, a \in Operators, m \in Mutations :
            call' = [call EXCEPT ![t] =
                      [pc |-> IF kind \in Reads THEN "read" ELSE "write",
                       kind |-> kind, id |-> i, actor |-> a, what |-> m, now |-> clock]]
      BY <2>3 DEF Call
    <3> QED BY <1>0, <3>1
  <2>4. ASSUME NEW t \in Threads, Reread(t) PROVE \A u \in Threads : Now(u)
    BY <1>0, <2>4 DEF Reread, CallType
  <2>5. ASSUME NEW t \in Threads,
               Create(t) \/ Approve(t) \/ Reject(t) \/ Cancel(t) \/ Consume(t)
        PROVE  \A u \in Threads : Now(u)
    <3>1. PICK i : call' = [call EXCEPT ![t] = [@ EXCEPT !.pc = "committed", !.id = i]]
      BY <2>5 DEF Create, Approve, Reject, Cancel, Consume, Commit
    <3> QED BY <1>0, <3>1 DEF CallType
  <2>6. ASSUME NEW t \in Threads, Read(t) \/ Refuse(t) \/ Locked(t)
        PROVE  \A u \in Threads : Now(u)
    <3>1. call' = [call EXCEPT ![t] = Idle]
      BY <2>6 DEF Read, Refuse, Locked
    <3> QED BY <1>0, <3>1
  <2> QED BY <2>1, <2>2, <2>3, <2>4, <2>5, <2>6 DEF Next, Tick
<1>3. PastCalls'
  <2> SUFFICES ASSUME NEW u \in Threads PROVE call'[u].now <= clock'
    BY DEF PastCalls
  <2>1. call[u].now \in Nat /\ call[u].now <= clock
    BY <1>0 DEF PastCalls, CallType
  <2> QED BY <1>1, <1>2, <2>1
<1>4. ASSUME NEW i \in Ids, NEW k \in DOMAIN events'[i]
      PROVE  events'[i][k].at <= clock'
  <2>1. events[i] \in Seq(EventType)
    BY DEF TypeOK
  <2>2. CASE events'[i] = events[i]
    <3>1. events[i][k] \in EventType /\ events[i][k].at <= clock
      BY <2>1, <2>2, <1>4 DEF PastEvents
    <3> QED BY <1>1, <2>2, <3>1 DEF EventType
  <2>3. ASSUME NEW e \in EventType, events'[i] = Append(events[i], e), InTime(e)
        PROVE  events'[i][k].at <= clock'
    <3>1. CASE k = Len(events[i]) + 1
      BY <1>1, <2>1, <2>3, <3>1 DEF InTime, EventType
    <3>2. CASE k \in DOMAIN events[i]
      <4>1. events'[i][k] = events[i][k] /\ events[i][k] \in EventType
              /\ events[i][k].at <= clock
        BY <2>1, <2>3, <3>2 DEF PastEvents
      <4> QED BY <1>1, <4>1 DEF EventType
    <3> QED BY <1>4, <2>1, <2>3, <3>1, <3>2
  <2> QED BY <2>2, <2>3 DEF Moved
<1> QED BY <1>3, <1>4 DEF PastEvents

(* Who acted, according to a log. *)
Actors(log, action) == {log[k].actor : k \in {j \in DOMAIN log : log[j].action = action}}

LEMMA ActorsAppend ==
    ASSUME NEW log \in Seq(EventType), NEW e \in EventType, NEW action
    PROVE  Actors(Append(log, e), action) =
             Actors(log, action) \cup IF e.action = action THEN {e.actor} ELSE {}
<1> DEFINE new == Append(log, e)
           n == Len(log) + 1
<1>1. /\ DOMAIN new = DOMAIN log \cup {n} /\ n \notin DOMAIN log /\ new[n] = e
      /\ \A k \in DOMAIN log : new[k] = log[k]
  OBVIOUS
<1> HIDE DEF new, n
<1> QED BY <1>1 DEF Actors, new

(* The story of one request. *)
Named(who) == IF who = None THEN {} ELSE {who}

Story(row, log) ==
    /\ row.state = IF log = << >> THEN "none" ELSE log[Len(log)].state
    /\ \A k \in DOMAIN log :
         log[k].previous = IF k = 1 THEN "none" ELSE log[k - 1].state
    /\ Actors(log, "request") = Named(row.requester)
    /\ Actors(log, "approve") = Named(row.approver)
    /\ Actors(log, "consume") = Named(row.consumedBy)

LEMMA StoryGoesOn ==
    ASSUME NEW row \in RowType, NEW new \in RowType, NEW log \in Seq(EventType),
           NEW e \in EventType, Story(row, log), Tells(row, e, new)
    PROVE  Story(new, Append(log, e))
<1> DEFINE longer == Append(log, e)
           n == Len(log) + 1
<1>1. /\ longer # << >> /\ Len(longer) = n /\ longer[n] = e
      /\ DOMAIN longer = DOMAIN log \cup {n} /\ DOMAIN log = 1..Len(log)
      /\ \A k \in DOMAIN log : longer[k] = log[k]
      /\ Len(log) \in Nat
      /\ log = << >> <=> Len(log) = 0
  OBVIOUS
<1>2. new.state = longer[Len(longer)].state
  BY <1>1 DEF Tells
<1>3. ASSUME NEW k \in DOMAIN longer
      PROVE  longer[k].previous = IF k = 1 THEN "none" ELSE longer[k - 1].state
  <2>1. CASE k = n
    <3>1. e.previous = IF log = << >> THEN "none" ELSE log[Len(log)].state
      BY DEF Tells, Story
    <3>2. CASE Len(log) = 0
      BY <1>1, <2>1, <3>1, <3>2
    <3>3. CASE Len(log) # 0
      <4>1. k # 1 /\ k - 1 = Len(log) /\ Len(log) \in DOMAIN log
        BY <1>1, <2>1, <3>3
      <4> HIDE DEF longer, n
      <4> QED BY <1>1, <2>1, <3>1, <3>3, <4>1
    <3> QED BY <3>2, <3>3
  <2>2. CASE k \in DOMAIN log
    <3>1. k # 1 => k - 1 \in DOMAIN log
      BY <1>1, <2>2
    <3>2. log[k].previous = IF k = 1 THEN "none" ELSE log[k - 1].state
      BY <2>2 DEF Story
    <3> HIDE DEF longer, n
    <3> QED BY <1>1, <2>2, <3>1, <3>2
  <2> QED BY <1>1, <1>3, <2>1, <2>2
<1>4. e.action \in {"request", "approve", "consume"} => e.actor # None
  BY ConstantsAssumption DEF Tells
<1>5. /\ Actors(longer, "request") = Named(new.requester)
      /\ Actors(longer, "approve") = Named(new.approver)
      /\ Actors(longer, "consume") = Named(new.consumedBy)
  <2>1. \A action : Actors(longer, action) =
          Actors(log, action) \cup IF e.action = action THEN {e.actor} ELSE {}
    BY ActorsAppend
  <2> HIDE DEF longer
  <2> QED BY <1>4, <2>1 DEF Tells, Story, Named
<1> HIDE DEF longer, n
<1> QED BY <1>1, <1>2, <1>3, <1>5 DEF Story, longer

(* A log whose times run backwards by no more than the lock wait. *)
Orderly(log) ==
    \A j, k \in DOMAIN log : j < k => log[j].at <= log[k].at + BusyTimeout

LEMMA OrderGoesOn ==
    ASSUME TypeOK, NEW log \in Seq(EventType), NEW e \in EventType, Orderly(log),
           \A k \in DOMAIN log : log[k].at <= clock, InTime(e)
    PROVE  Orderly(Append(log, e))
<1> SUFFICES ASSUME NEW j \in DOMAIN Append(log, e), NEW k \in DOMAIN Append(log, e),
                    j < k
             PROVE  Append(log, e)[j].at <= Append(log, e)[k].at + BusyTimeout
  BY DEF Orderly
<1>1. j \in DOMAIN log /\ Append(log, e)[j] = log[j] /\ log[j] \in EventType
  OBVIOUS
<1>2. log[j].at \in Nat /\ e.at \in Nat /\ clock \in Nat /\ BusyTimeout \in Nat
        /\ log[j].at <= clock
  BY <1>1, ConstantsAssumption DEF EventType, TypeOK


<1>3. CASE k = Len(log) + 1
  BY <1>1, <1>2, <1>3 DEF InTime
<1>4. CASE k \in DOMAIN log
  BY <1>1, <1>4 DEF Orderly
<1> QED BY <1>3, <1>4

StoryInv ==
    /\ TypeOK /\ PastCalls /\ PastEvents
    /\ \A i \in Ids : Unsigned(rows[i])
    /\ \A i \in Ids : Story(rows[i], events[i]) /\ Orderly(events[i])

LEMMA StoryStep == StoryInv /\ [Next]_vars => StoryInv'
<1> SUFFICES ASSUME StoryInv, [Next]_vars PROVE StoryInv'
  OBVIOUS
<1>1. TypeOK'
  BY TypeStep DEF StoryInv
<1>2. CASE UNCHANGED vars
  BY <1>1, <1>2 DEF vars, StoryInv, PastCalls, PastEvents
<1>3. CASE Next
  <2>1. \A i \in Ids : Unsigned(rows'[i]) /\ Moved(i)
    BY <1>3, StepTells DEF StoryInv
  <2>2. PastCalls' /\ PastEvents'
    BY <1>3, <2>1, PastStep DEF StoryInv
  <2>3. ASSUME NEW i \in Ids PROVE Story(rows'[i], events'[i]) /\ Orderly(events'[i])
    <3>1. /\ rows[i] \in RowType /\ rows'[i] \in RowType
          /\ events[i] \in Seq(EventType)
          /\ \A k \in DOMAIN events[i] : events[i][k].at <= clock
      BY <1>1 DEF StoryInv, TypeOK, PastEvents
    <3>2. Story(rows[i], events[i]) /\ Orderly(events[i]) /\ TypeOK
      BY DEF StoryInv
    <3>3. CASE rows'[i] = rows[i] /\ events'[i] = events[i]
      BY <3>2, <3>3
    <3>4. ASSUME NEW e \in EventType, events'[i] = Append(events[i], e),
                 Tells(rows[i], e, rows'[i]), InTime(e)
          PROVE  Story(rows'[i], events'[i]) /\ Orderly(events'[i])
      BY <3>1, <3>2, <3>4, StoryGoesOn, OrderGoesOn
    <3> QED BY <2>1, <3>3, <3>4 DEF Moved
  <2> QED BY <1>1, <2>1, <2>2, <2>3 DEF StoryInv
<1> QED BY <1>2, <1>3

(* The ledger tells the whole story of each row, and its times run backwards
   by no more than the lock wait (_append_event and its callers, lines
   299-506).  A row and its events are written in one transaction, but an
   expiry moves any number of rows besides the one a method is about. *)
THEOREM StoryIsTold == Spec => []LedgerTellsTheStory
<1>1. Init => StoryInv
  <2> SUFFICES ASSUME Init PROVE StoryInv
    OBVIOUS
  <2>1. TypeOK
    BY DEF Init, TypeOK, RowType, NoRow, CallType, Idle, Reads
  <2>2. PastCalls /\ PastEvents
    BY DEF Init, PastCalls, PastEvents, Idle
  <2>3. \A i \in Ids : Unsigned(rows[i])
    BY DEF Init, Unsigned, NoRow
  <2>4. \A i \in Ids : Story(rows[i], events[i]) /\ Orderly(events[i])
    BY DEF Init, Story, Orderly, Actors, Named, NoRow
  <2> QED BY <2>1, <2>2, <2>3, <2>4 DEF StoryInv
<1>2. StoryInv => LedgerTellsTheStory
  <2> SUFFICES ASSUME StoryInv PROVE LedgerTellsTheStory
    OBVIOUS
  <2>1. \A i \in Ids : Story(rows[i], events[i]) /\ Orderly(events[i])
    BY DEF StoryInv
  <2>2. LedgerReplaysToRow
    BY <2>1 DEF LedgerReplaysToRow, Story, Actors, Named
  <2>3. LedgerSkewBounded
    BY <2>1 DEF LedgerSkewBounded, Orderly
  <2> QED BY <2>2, <2>3 DEF LedgerTellsTheStory, StoryInv
<1> QED BY <1>1, <1>2, StoryStep, PTL DEF Spec

=============================================================================
