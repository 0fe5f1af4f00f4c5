---------------------------- MODULE Watch_proofs ----------------------------
(***************************************************************************)
(* Theorems about what is watched for the operators, for every value of    *)
(* the constants: the alert inbox, for every set of alerts, pollers and    *)
(* operators, and the operations briefing, for every finite set of         *)
(* announcing threads.                                                     *)
(***************************************************************************)
EXTENDS Watch, FiniteSetTheorems, TLAPS

(***************************************************************************)
(* The alert inbox.                                                        *)
(***************************************************************************)

(* A poll that is under way has the lock, and only the last stage tells. *)
HolderPolls ==
    \A p \in Pollers : /\ poll[p].pc # "idle" => lock = p
                       /\ poll[p].pc # "tell" => poll[p].todo = {}

(* Prometheus is ahead of the rows, and of the answer in hand. *)
Ahead ==
    \A a \in Alerts :
      /\ row[a].gen <= fires[a]
      /\ row[a].state \notin Active /\ source[a] \in Active => row[a].gen < fires[a]
      /\ \A p \in Pollers : poll[p].pc = "sync" =>
           /\ poll[p].answer[a] \in Active /\ row[a].state \notin Active => row[a].gen < fires[a]
           /\ poll[p].answer[a] \notin Active /\ row[a].state \in Active /\ source[a] \in Active
                => row[a].gen < fires[a]

Acked(t) == log[t[1]][t[2]].kind = "acknowledged"

(* What a poll has still to tell is later than whatever polls have told. *)
TodoIsLater ==
    \A p \in Pollers : \A t \in poll[p].todo :
      /\ ~ Acked(t)
      /\ \A u \in poll[p].todo : u[1] = t[1] => u = t
      /\ \A i \in DOMAIN told[t[1]] :
           log[t[1]][told[t[1]][i]].kind # "acknowledged" => told[t[1]][i] < t[2]

DutyIsAck == \A o \in Operators : \A t \in duty[o] : Acked(t)

Core == TypeOK /\ HolderPolls /\ Ahead
IInv == Core /\ TodoIsLater /\ DutyIsAck /\ ToldInOrder

-----------------------------------------------------------------------------

LEMMA IdleType == Idle \in Polls /\ Idle.pc = "idle" /\ Idle.todo = {}
  BY DEF Idle, Polls

LEMMA InitIInv == Init => IInv
<1> SUFFICES ASSUME Init PROVE IInv
  OBVIOUS
<1>1. NoRow \in Rows /\ NoRow.gen = 0
  BY DEF NoRow, Rows
<1>2. /\ poll \in [Pollers -> Polls]
      /\ \A p \in Pollers : poll[p].pc = "idle" /\ poll[p].todo = {}
  BY IdleType DEF Init
<1>3. /\ log \in [Alerts -> Seq(Entries)] /\ told \in [Alerts -> Seq(Nat)]
      /\ \A a \in Alerts : DOMAIN told[a] = {}
  BY DEF Init
<1>4. source \in [Alerts -> States] /\ \A a \in Alerts : source[a] \notin Active
  BY DEF Init, States, Active
<1>5. TypeOK
  BY <1>1, <1>2, <1>3, <1>4 DEF Init, TypeOK
<1>6. Ahead
  BY <1>1, <1>2, <1>4 DEF Init, Ahead
<1>7. HolderPolls /\ TodoIsLater /\ DutyIsAck /\ ToldInOrder
  BY <1>2, <1>3 DEF Init, HolderPolls, TodoIsLater, DutyIsAck, ToldInOrder
<1> QED BY <1>5, <1>6, <1>7 DEF IInv, Core

(* A sequence grows at its end. *)
LEMMA Grows ==
    ASSUME NEW S, NEW s \in Seq(S), NEW e \in S
    PROVE  /\ Append(s, e) \in Seq(S)
           /\ Len(Append(s, e)) = Len(s) + 1
           /\ DOMAIN Append(s, e) = 1..(Len(s) + 1) /\ DOMAIN s = 1..Len(s)
           /\ \A i \in DOMAIN s : Append(s, e)[i] = s[i]
           /\ Append(s, e)[Len(s) + 1] = e
  OBVIOUS

-----------------------------------------------------------------------------
(* Steps that leave the log and what has been told alone. *)

LEMMA SourceStep ==
    ASSUME IInv, NEW a \in Alerts, Fire(a) \/ Worsen(a) \/ Cease(a)
    PROVE  IInv'
<1>1. UNCHANGED <<inbox, lock, poll, duty, told, deaths>>
  BY DEF Fire, Worsen, Cease
<1>2. /\ source' \in [Alerts -> States] /\ fires' \in [Alerts -> Nat]
      /\ \A b \in Alerts : /\ fires[b] <= fires'[b]
                           /\ source'[b] \in Active /\ source[b] \notin Active => fires[b] < fires'[b]
  <2>1. source \in [Alerts -> States] /\ fires \in [Alerts -> Nat]
    BY DEF IInv, Core, TypeOK
  <2>2. CASE Fire(a)
    BY <2>1, <2>2 DEF Fire, States, Active
  <2>3. CASE Worsen(a)
    BY <2>1, <2>3 DEF Worsen, States, Active
  <2>4. CASE Cease(a)
    BY <2>1, <2>4 DEF Cease, States, Active
  <2> QED BY <2>2, <2>3, <2>4
<1>3. TypeOK'
  BY <1>1, <1>2 DEF IInv, Core, TypeOK, inbox, OnRecord
<1>4. HolderPolls'
  BY <1>1 DEF IInv, Core, HolderPolls
<1>5. Ahead'
  <2> SUFFICES ASSUME NEW b \in Alerts, NEW p \in Pollers
               PROVE  /\ row[b].gen <= fires'[b]
                      /\ row[b].state \notin Active /\ source'[b] \in Active => row[b].gen < fires'[b]
                      /\ poll[p].pc = "sync" =>
                           /\ poll[p].answer[b] \in Active /\ row[b].state \notin Active
                                => row[b].gen < fires'[b]
                           /\ poll[p].answer[b] \notin Active /\ row[b].state \in Active
                                /\ source'[b] \in Active => row[b].gen < fires'[b]
    BY <1>1, AlertInboxAssumption DEF Ahead, inbox
  <2>1. row[b].gen \in Nat /\ fires[b] \in Nat /\ fires'[b] \in Nat
    BY <1>2 DEF IInv, Core, TypeOK, Rows
  <2> QED BY <1>2, <2>1 DEF IInv, Core, Ahead
<1>6. TodoIsLater' /\ DutyIsAck' /\ ToldInOrder'
  BY <1>1 DEF IInv, TodoIsLater, DutyIsAck, ToldInOrder, Acked, inbox
<1> QED BY <1>3, <1>4, <1>5, <1>6 DEF IInv, Core

(* Steps of a poll that neither record nor tell. *)
LEMMA PollStep ==
    ASSUME IInv, NEW p \in Pollers,
           UNCHANGED <<source, fires, row, log, duty, told, deaths>>,
           failing' \in BOOLEAN,
           NEW q \in Polls, poll' = [poll EXCEPT ![p] = q],
           q.pc \in {"idle", "fetch", "sync"}, q.todo = {},
           q.pc = "sync" => q.answer = source,
           IF q.pc = "idle" THEN lock' = None ELSE lock' = p,
           lock = p \/ lock = None
    PROVE  IInv'
<1>1. poll' \in [Pollers -> Polls] /\ poll'[p] = q /\ \A o \in Pollers \ {p} : poll'[o] = poll[o]
  BY DEF IInv, Core, TypeOK
<1>2. \A o \in Pollers \ {p} : poll[o].pc = "idle" /\ poll[o].todo = {}
  BY AlertInboxAssumption DEF IInv, Core, HolderPolls
<1>3. TypeOK'
  BY <1>1, <1>2 DEF IInv, Core, TypeOK, OnRecord
<1>4. HolderPolls'
  BY <1>1, <1>2 DEF HolderPolls
<1>5. Ahead'
  BY <1>1, <1>2 DEF IInv, Core, TypeOK, Ahead
<1>6. TodoIsLater' /\ DutyIsAck' /\ ToldInOrder'
  BY <1>1, <1>2 DEF IInv, TodoIsLater, DutyIsAck, ToldInOrder, Acked
<1> QED BY <1>3, <1>4, <1>5, <1>6 DEF IInv, Core

LEMMA QuietSteps ==
    ASSUME IInv, NEW p \in Pollers, Begin(p) \/ Fetch(p) \/ PollFails(p) \/ EndPoll(p)
    PROVE  IInv'
<1>1. poll[p] \in Polls /\ poll \in [Pollers -> Polls] /\ source \in [Alerts -> States]
      /\ failing \in BOOLEAN
  BY DEF IInv, Core, TypeOK
<1>2. poll[p].pc # "idle" => lock = p
  BY DEF IInv, Core, HolderPolls
<1>3. poll[p].pc # "tell" => poll[p].todo = {}
  BY DEF IInv, Core, HolderPolls
<1>4. CASE Begin(p)
  <2> DEFINE q == [poll[p] EXCEPT !.pc = "fetch"]
  <2>1. q \in Polls /\ q.pc = "fetch" /\ q.todo = {} /\ poll' = [poll EXCEPT ![p] = q]
    BY <1>1, <1>3, <1>4 DEF Begin, Polls
  <2>2. /\ UNCHANGED <<source, fires, row, log, duty, told, deaths>> /\ failing' \in BOOLEAN
        /\ lock = None /\ lock' = p
    BY <1>1, <1>4 DEF Begin, prometheus, inbox
  <2> HIDE DEF q
  <2> QED BY <2>1, <2>2, PollStep
<1>5. CASE Fetch(p)
  <2> DEFINE q == [poll[p] EXCEPT !.pc = "sync", !.answer = source]
  <2>1. /\ q \in Polls /\ q.pc = "sync" /\ q.todo = {} /\ q.answer = source
        /\ poll' = [poll EXCEPT ![p] = q]
    BY <1>1, <1>3, <1>5 DEF Fetch, Polls
  <2>2. /\ UNCHANGED <<source, fires, row, log, duty, told, deaths>> /\ failing' \in BOOLEAN
        /\ lock = p /\ lock' = p
    BY <1>1, <1>2, <1>5 DEF Fetch, prometheus, inbox
  <2> HIDE DEF q
  <2> QED BY <2>1, <2>2, PollStep
<1>6. CASE PollFails(p) \/ EndPoll(p)
  <2>1. poll' = [poll EXCEPT ![p] = Idle]
    BY <1>6 DEF PollFails, EndPoll
  <2>2. /\ UNCHANGED <<source, fires, row, log, duty, told, deaths>> /\ failing' \in BOOLEAN
        /\ lock = p /\ lock' = None
    BY <1>1, <1>2, <1>6 DEF PollFails, EndPoll, prometheus, inbox
  <2> QED BY <2>1, <2>2, IdleType, PollStep
<1> QED BY <1>4, <1>5, <1>6

-----------------------------------------------------------------------------
(* Steps that record. *)

(* The log of some alerts grows by one entry: what is on record stays. *)
LEMMA LogGrows ==
    ASSUME TypeOK, NEW C \in SUBSET Alerts, NEW e \in [Alerts -> Entries],
           log' = [a \in Alerts |-> IF a \in C THEN Append(log[a], e[a]) ELSE log[a]]
    PROVE  /\ log' \in [Alerts -> Seq(Entries)]
           /\ \A a \in Alerts : \A i \in DOMAIN log[a] : i \in DOMAIN log'[a] /\ log'[a][i] = log[a][i]
           /\ \A a \in C : /\ Len(log'[a]) = Len(log[a]) + 1 /\ Len(log'[a]) \in DOMAIN log'[a]
                           /\ log'[a][Len(log'[a])] = e[a]
           /\ \A a \in Alerts : DOMAIN log[a] = 1..Len(log[a]) /\ Len(log[a]) \in Nat
<1>1. \A a \in Alerts : log[a] \in Seq(Entries) /\ e[a] \in Entries
  BY DEF TypeOK
<1>2. \A a \in Alerts : DOMAIN log[a] = 1..Len(log[a]) /\ Len(log[a]) \in Nat
  BY <1>1
<1>3. \A a \in C : /\ log'[a] \in Seq(Entries)
                   /\ Len(log'[a]) = Len(log[a]) + 1
                   /\ DOMAIN log'[a] = 1..(Len(log[a]) + 1)
                   /\ \A i \in DOMAIN log[a] : log'[a][i] = log[a][i]
                   /\ log'[a][Len(log[a]) + 1] = e[a]
  <2> TAKE a \in C
  <2>1. log'[a] = Append(log[a], e[a]) /\ log[a] \in Seq(Entries) /\ e[a] \in Entries
    BY <1>1
  <2> QED BY <2>1, Grows
<1>4. \A a \in Alerts \ C : log'[a] = log[a]
  OBVIOUS
<1> QED BY <1>1, <1>2, <1>3, <1>4

(* What was told, and what is owed, is about the entries that stay. *)
LEMMA RecordKeeps ==
    ASSUME IInv, NEW C \in SUBSET Alerts, NEW e \in [Alerts -> Entries],
           log' = [a \in Alerts |-> IF a \in C THEN Append(log[a], e[a]) ELSE log[a]],
           UNCHANGED <<told>>
    PROVE  /\ ToldInOrder'
           /\ \A a \in Alerts : \A i \in DOMAIN told[a] :
                /\ told[a][i] \in DOMAIN log'[a]
                /\ log'[a][told[a][i]] = log[a][told[a][i]]
                /\ told[a][i] <= Len(log[a])
           /\ \A t \in Tasks : OnRecord(t) => OnRecord(t)' /\ (Acked(t)' <=> Acked(t))
<1>1. TypeOK
  BY DEF IInv, Core
<1>2. /\ \A a \in Alerts : \A i \in DOMAIN log[a] : i \in DOMAIN log'[a] /\ log'[a][i] = log[a][i]
      /\ \A a \in Alerts : DOMAIN log[a] = 1..Len(log[a]) /\ Len(log[a]) \in Nat
  BY <1>1, LogGrows
<1>3. \A a \in Alerts : \A i \in DOMAIN told[a] : told[a][i] \in DOMAIN log[a]
  BY <1>1 DEF TypeOK
<1>4. \A a \in Alerts : \A i \in DOMAIN told[a] :
                /\ told[a][i] \in DOMAIN log'[a]
                /\ log'[a][told[a][i]] = log[a][told[a][i]]
                /\ told[a][i] <= Len(log[a])
  BY <1>2, <1>3
<1>5. ToldInOrder'
  BY <1>4 DEF IInv, ToldInOrder
<1>6. \A t \in Tasks : OnRecord(t) => OnRecord(t)' /\ (Acked(t)' <=> Acked(t))
  BY <1>2 DEF OnRecord, Acked, Tasks
<1> QED BY <1>4, <1>5, <1>6

LEMMA MergedType ==
    ASSUME NEW r \in Rows, NEW s \in Active
    PROVE  /\ Merged(r, s) \in Rows /\ Merged(r, s).state = s
           /\ r.state \in Active => Merged(r, s).gen = r.gen
           /\ Merged(r, s).gen <= r.gen + 1 \/ (r.state = "none" /\ Merged(r, s).gen = 1)
<1>1. r = [state |-> r.state, gen |-> r.gen, owner |-> r.owner] /\ r.gen \in Nat
      /\ r.owner \in Operators \cup {None} /\ r.state \in Active \cup {"none", "resolved"}
  BY DEF Rows
<1>2. CASE r.state = "none"
  <2>1. Merged(r, s) = [state |-> s, gen |-> 1, owner |-> None]
    BY <1>2 DEF Merged
  <2> QED BY <2>1, <1>1, <1>2 DEF Rows, Active
<1>3. CASE r.state = "resolved"
  <2>1. Merged(r, s) = [state |-> s, gen |-> r.gen + 1, owner |-> None]
    BY <1>3 DEF Merged
  <2>2. Merged(r, s).state = s /\ Merged(r, s).gen = r.gen + 1 /\ r.state \notin Active
    BY <2>1, <1>3 DEF Active
  <2>3. Merged(r, s) \in Rows
    BY <2>1, <1>1 DEF Rows, Active
  <2> QED BY <2>2, <2>3, <1>1
<1>4. CASE r.state \in Active
  <2>1. Merged(r, s) = [r EXCEPT !.state = s]
    BY <1>4 DEF Merged, Active
  <2>2. Merged(r, s).state = s /\ Merged(r, s).gen = r.gen
    BY <2>1 DEF Rows
  <2>3. Merged(r, s) \in Rows
    BY <2>1, <1>1 DEF Rows, Active
  <2> QED BY <2>2, <2>3, <1>1
<1> QED BY <1>1, <1>2, <1>3, <1>4

LEMMA SyncStep ==
    ASSUME IInv, NEW p \in Pollers, Sync(p)
    PROVE  IInv'
<1> DEFINE after == [a \in Alerts |-> After(a, poll[p].answer)]
           changed == {a \in Alerts : after[a].state # row[a].state}
           entry == [a \in Alerts |-> Transition(row[a], after[a])]
           e == [a \in Alerts |-> IF a \in changed THEN entry[a]
                                  ELSE [kind |-> "resolved", gen |-> 0, by |-> None]]
           todo == {<<a, Len(log'[a])>> : a \in changed}
           q == [Idle EXCEPT !.pc = "tell", !.todo = todo]
<1>1. /\ TypeOK /\ poll[p].pc = "sync" /\ poll[p].answer \in [Alerts -> States] /\ lock = p
      /\ \A o \in Pollers \ {p} : poll[o].pc = "idle" /\ poll[o].todo = {}
  BY AlertInboxAssumption DEF Sync, IInv, Core, TypeOK, HolderPolls
<1>2. /\ failing' = FALSE
      /\ poll' = [poll EXCEPT ![p] = q]
      /\ UNCHANGED <<source, fires, lock, duty, told, deaths>>
      /\ log' = [a \in Alerts |-> IF a \in changed THEN Append(log[a], e[a]) ELSE log[a]]
  BY DEF Sync, Numbered, prometheus
<1>3. PICK retired \in SUBSET {a \in Alerts \ changed : after[a].state = "resolved"} :
        row' = [a \in Alerts |-> IF a \in retired THEN NoRow ELSE after[a]]
  BY DEF Sync
<1>4. ASSUME NEW a \in Alerts
      PROVE  /\ after[a] \in Rows
             /\ after[a].gen <= fires[a]
             /\ after[a].state \in Active <=> poll[p].answer[a] \in Active
             /\ after[a].state \notin Active /\ source[a] \in Active => after[a].gen < fires[a]
             /\ e[a] \in Entries /\ e[a].kind # "acknowledged"
  <2>1. row[a] \in Rows /\ fires[a] \in Nat /\ poll[p].answer[a] \in States /\ row[a].gen \in Nat
    BY <1>1 DEF TypeOK, Rows
  <2>2. /\ row[a].gen <= fires[a]
        /\ row[a].state \notin Active /\ source[a] \in Active => row[a].gen < fires[a]
        /\ poll[p].answer[a] \in Active /\ row[a].state \notin Active => row[a].gen < fires[a]
        /\ poll[p].answer[a] \notin Active /\ row[a].state \in Active /\ source[a] \in Active
             => row[a].gen < fires[a]
    BY <1>1 DEF IInv, Core, Ahead
  <2>3. CASE poll[p].answer[a] \in Active
    <3>1. after[a] = Merged(row[a], poll[p].answer[a])
      BY <2>3 DEF After
    <3>2. /\ after[a] \in Rows /\ after[a].state = poll[p].answer[a] /\ after[a].gen \in Nat
          /\ row[a].state \in Active => after[a].gen = row[a].gen
          /\ after[a].gen <= row[a].gen + 1 \/ (row[a].state = "none" /\ after[a].gen = 1)
      BY <3>1, <2>1, <2>3, MergedType DEF Rows
    <3>3. after[a].gen <= fires[a]
      BY <3>2, <2>1, <2>2, <2>3 DEF Active
    <3>4. e[a] \in Entries /\ e[a].kind # "acknowledged"
      BY <3>2, <2>3 DEF Transition, Entries, Kinds, Active
    <3> HIDE DEF after, e
    <3> QED BY <3>2, <3>3, <3>4, <2>3
  <2>4. CASE poll[p].answer[a] \notin Active /\ row[a].state \in Active
    <3>1. after[a] = [row[a] EXCEPT !.state = "resolved"]
      BY <2>4 DEF After
    <3>2. after[a] \in Rows /\ after[a].state = "resolved" /\ after[a].gen = row[a].gen
      BY <3>1, <2>1 DEF Rows
    <3>3. e[a] \in Entries /\ e[a].kind # "acknowledged"
      BY <3>2, <2>1, <2>4 DEF Transition, Entries, Kinds, Active
    <3> HIDE DEF after, e
    <3> QED BY <3>2, <3>3, <2>2, <2>4 DEF Active
  <2>5. CASE poll[p].answer[a] \notin Active /\ row[a].state \notin Active
    <3>1. after[a] = row[a] /\ a \notin changed
      BY <2>5 DEF After
    <3>2. e[a] \in Entries /\ e[a].kind # "acknowledged"
      BY <3>1 DEF Entries, Kinds
    <3> HIDE DEF after, e, changed
    <3> QED BY <3>1, <3>2, <2>1, <2>2, <2>5
  <2> QED BY <2>3, <2>4, <2>5
<1> HIDE DEF after, entry
<1>5. e \in [Alerts -> Entries] /\ changed \in SUBSET Alerts
  BY <1>4
<1> HIDE DEF e, changed
<1>6. /\ log' \in [Alerts -> Seq(Entries)]
      /\ \A a \in changed : /\ Len(log'[a]) = Len(log[a]) + 1 /\ Len(log'[a]) \in DOMAIN log'[a]
                            /\ log'[a][Len(log'[a])] = e[a]
      /\ \A a \in Alerts : Len(log[a]) \in Nat
  <2>1. log' = [a \in Alerts |-> IF a \in changed THEN Append(log[a], e[a]) ELSE log[a]]
    BY <1>2
  <2>2. TypeOK /\ changed \in SUBSET Alerts /\ e \in [Alerts -> Entries]
    BY <1>1, <1>5
  <2> QED BY ONLY <2>1, <2>2, LogGrows
<1>7. /\ ToldInOrder'
      /\ \A a \in Alerts : \A i \in DOMAIN told[a] :
           /\ told[a][i] \in DOMAIN log'[a]
           /\ told[a][i] <= Len(log[a])
      /\ \A t \in Tasks : OnRecord(t) => OnRecord(t)' /\ (Acked(t)' <=> Acked(t))
  BY <1>2, <1>5, RecordKeeps
<1>8. \A t \in todo : /\ t \in Tasks /\ OnRecord(t)' /\ ~ Acked(t)' /\ t[1] \in changed
                      /\ t[2] = Len(log[t[1]]) + 1 /\ t = <<t[1], t[2]>>
  BY <1>4, <1>5, <1>6 DEF Tasks, OnRecord, Acked
<1>9. q \in Polls /\ q.pc = "tell" /\ q.todo = todo
  <2>1. todo \in SUBSET Tasks
    BY <1>8
  <2> HIDE DEF todo
  <2> QED BY <2>1, IdleType DEF Polls
<1> HIDE DEF todo, q
<1>10. poll' \in [Pollers -> Polls] /\ poll'[p] = q /\ \A o \in Pollers \ {p} : poll'[o] = poll[o]
  BY <1>1, <1>2, <1>9 DEF TypeOK
<1>11. row' \in [Alerts -> Rows]
  BY <1>3, <1>4, AlertInboxAssumption DEF NoRow, Rows
<1>12. TypeOK'
  BY <1>1, <1>2, <1>6, <1>7, <1>8, <1>9, <1>10, <1>11 DEF TypeOK
<1>13. HolderPolls'
  BY <1>1, <1>2, <1>9, <1>10 DEF HolderPolls
<1>14. Ahead'
  <2>1. ASSUME NEW a \in Alerts
        PROVE  /\ row'[a].gen <= fires[a]
               /\ row'[a].state \notin Active /\ source[a] \in Active => row'[a].gen < fires[a]
    <3>1. after[a] \in Rows /\ fires[a] \in Nat
      BY <1>1, <1>4 DEF TypeOK
    <3>2. CASE a \in retired
      <4>1. row'[a] = NoRow /\ after[a].state = "resolved" /\ NoRow.gen = 0 /\ after[a].gen \in Nat
        BY <1>3, <3>1, <3>2 DEF NoRow, Rows
      <4>2. source[a] \in Active => after[a].gen < fires[a]
        BY <4>1, <1>4 DEF Active
      <4> QED BY <4>1, <4>2, <3>1
    <3>3. CASE a \notin retired
      <4>1. row'[a] = after[a]
        BY <1>3, <3>3
      <4> QED BY <4>1, <1>4
    <3> QED BY <3>2, <3>3
  <2>2. \A o \in Pollers : poll'[o].pc # "sync"
    BY <1>1, <1>9, <1>10
  <2> QED BY <2>1, <2>2, <1>2 DEF Ahead
<1>15. TodoIsLater'
  <2> SUFFICES ASSUME NEW o \in Pollers, NEW t \in poll'[o].todo
               PROVE  /\ ~ Acked(t)'
                      /\ \A u \in poll'[o].todo : u[1] = t[1] => u = t
                      /\ \A i \in DOMAIN told[t[1]] : told[t[1]][i] < t[2]
    BY <1>2 DEF TodoIsLater
  <2>1. o = p /\ poll'[o].todo = todo
    BY <1>1, <1>9, <1>10
  <2>2. \A i \in DOMAIN told[t[1]] : told[t[1]][i] \in Nat /\ told[t[1]][i] <= Len(log[t[1]])
    <3>1. t[1] \in Alerts
      BY <1>5, <1>8, <2>1
    <3>2. told[t[1]] \in Seq(Nat)
      BY <1>1, <3>1 DEF TypeOK
    <3>3. \A i \in DOMAIN told[t[1]] : told[t[1]][i] \in Nat
      BY ONLY <3>2
    <3>4. \A i \in DOMAIN told[t[1]] : told[t[1]][i] <= Len(log[t[1]])
      BY <1>7, <3>1
    <3> QED BY <3>3, <3>4
  <2>3. ~ Acked(t)' /\ t[1] \in Alerts /\ t[2] = Len(log[t[1]]) + 1
    BY <1>5, <1>8, <2>1
  <2>4. \A u \in todo : u[1] = t[1] => u = t
    BY <1>8, <2>1
  <2>5. Len(log[t[1]]) \in Nat
    BY <1>6, <2>3
  <2> QED BY <2>1, <2>2, <2>3, <2>4, <2>5
<1>16. DutyIsAck'
  BY <1>1, <1>2, <1>7 DEF IInv, DutyIsAck, TypeOK
<1> QED BY <1>7, <1>12, <1>13, <1>14, <1>15, <1>16 DEF IInv, Core

LEMMA AcknowledgeStep ==
    ASSUME IInv, NEW o \in Operators, NEW a \in Alerts, Acknowledge(o, a)
    PROVE  IInv'
<1> DEFINE new == [kind |-> "acknowledged", gen |-> row[a].gen, by |-> o]
           e == [b \in Alerts |-> new]
<1>1. TypeOK /\ row[a] \in Rows
  BY DEF IInv, Core, TypeOK
<1>2. new \in Entries
  BY <1>1 DEF Entries, Kinds, Rows
<1>3. e \in [Alerts -> Entries] /\ {a} \in SUBSET Alerts
  BY <1>2
<1>4. log' = [b \in Alerts |-> IF b \in {a} THEN Append(log[b], e[b]) ELSE log[b]]
  <2>1. log' = [log EXCEPT ![a] = Append(@, new)]
    BY DEF Acknowledge
  <2> HIDE DEF new
  <2> QED BY <2>1, <1>1 DEF TypeOK
<1>5. /\ UNCHANGED <<source, fires, failing, lock, poll, told, deaths>>
      /\ row' = [row EXCEPT ![a].owner = o]
      /\ duty' = [duty EXCEPT ![o] = {<<a, Len(log'[a])>>}]
  BY DEF Acknowledge, prometheus
<1> HIDE DEF e
<1>6. /\ log' \in [Alerts -> Seq(Entries)]
      /\ \A b \in {a} : /\ Len(log'[b]) = Len(log[b]) + 1 /\ Len(log'[b]) \in DOMAIN log'[b]
                         /\ log'[b][Len(log'[b])] = e[b]
      /\ \A b \in Alerts : Len(log[b]) \in Nat
  BY ONLY <1>1, <1>3, <1>4, LogGrows
<1>7. PICK n \in Nat : n = Len(log'[a])
  BY <1>6
<1> DEFINE task == <<a, n>>
<1>8. /\ ToldInOrder'
      /\ \A b \in Alerts : \A i \in DOMAIN told[b] :
           /\ told[b][i] \in DOMAIN log'[b]
           /\ log'[b][told[b][i]] = log[b][told[b][i]]
      /\ \A t \in Tasks : OnRecord(t) => OnRecord(t)' /\ (Acked(t)' <=> Acked(t))
  BY <1>3, <1>4, <1>5, RecordKeeps
<1>9. task \in Tasks /\ OnRecord(task)' /\ Acked(task)'
  BY <1>6, <1>7 DEF Tasks, OnRecord, Acked, e
<1>10. duty' = [duty EXCEPT ![o] = {task}]
  BY <1>5, <1>7
<1> HIDE DEF task
<1>11. /\ row' \in [Alerts -> Rows]
      /\ \A b \in Alerts : row'[b].state = row[b].state /\ row'[b].gen = row[b].gen
  BY <1>1, <1>5 DEF TypeOK, Rows
<1>12. duty' \in [Operators -> SUBSET Tasks]
       /\ \A x \in Operators : \A t \in duty'[x] : t = task \/ t \in duty[x]
  BY <1>1, <1>9, <1>10 DEF TypeOK
<1>13. /\ \A x \in Pollers : \A t \in poll[x].todo : t \in Tasks /\ OnRecord(t)
       /\ \A x \in Operators : \A t \in duty[x] : t \in Tasks /\ OnRecord(t)
  BY <1>1 DEF TypeOK, Polls
<1>14. TypeOK'
  BY <1>1, <1>5, <1>6, <1>8, <1>9, <1>11, <1>12, <1>13 DEF TypeOK
<1>15. HolderPolls' /\ Ahead'
  BY <1>5, <1>11 DEF IInv, Core, HolderPolls, Ahead
<1>16. TodoIsLater'
  <2> SUFFICES ASSUME NEW x \in Pollers, NEW t \in poll[x].todo
               PROVE  /\ ~ Acked(t)'
                      /\ \A u \in poll[x].todo : u[1] = t[1] => u = t
                      /\ \A i \in DOMAIN told[t[1]] :
                           log'[t[1]][told[t[1]][i]].kind # "acknowledged" => told[t[1]][i] < t[2]
    BY <1>5 DEF TodoIsLater
  <2>1. t[1] \in Alerts
    BY <1>13 DEF Tasks
  <2> QED BY <1>8, <1>13, <2>1 DEF IInv, TodoIsLater
<1>17. DutyIsAck'
  BY <1>8, <1>9, <1>12, <1>13 DEF IInv, DutyIsAck
<1> QED BY <1>8, <1>14, <1>15, <1>16, <1>17 DEF IInv, Core

-----------------------------------------------------------------------------
(* Steps that tell. *)

(* One more transition is told. *)
LEMMA ToldGrows ==
    ASSUME TypeOK, NEW t \in Tasks, OnRecord(t),
           told' = [told EXCEPT ![t[1]] = Append(@, t[2])]
    PROVE  /\ t[1] \in Alerts /\ t[2] \in Nat
           /\ told' \in [Alerts -> Seq(Nat)]
           /\ \A a \in Alerts : a # t[1] => told'[a] = told[a]
           /\ DOMAIN told'[t[1]] = 1..(Len(told[t[1]]) + 1)
           /\ DOMAIN told[t[1]] = 1..Len(told[t[1]]) /\ Len(told[t[1]]) \in Nat
           /\ \A i \in DOMAIN told[t[1]] : told'[t[1]][i] = told[t[1]][i]
           /\ told'[t[1]][Len(told[t[1]]) + 1] = t[2]
           /\ \A a \in Alerts : \A i \in DOMAIN told'[a] : told'[a][i] \in DOMAIN log[a]
<1>1. t[1] \in Alerts /\ t[2] \in Nat
  BY DEF Tasks
<1> DEFINE a == t[1]
           s == told[a]
           n == t[2]
<1>2. told'[a] = Append(s, n) /\ \A b \in Alerts : b # a => told'[b] = told[b]
  BY <1>1 DEF TypeOK
<1>3. s \in Seq(Nat)
  BY <1>1 DEF TypeOK
<1>4. \A i \in DOMAIN s : s[i] \in DOMAIN log[a]
  BY <1>1 DEF TypeOK
<1>5. n \in DOMAIN log[a]
  BY DEF OnRecord
<1> HIDE DEF a, s, n
<1>6. /\ DOMAIN Append(s, n) = 1..(Len(s) + 1) /\ DOMAIN s = 1..Len(s) /\ Len(s) \in Nat
      /\ \A i \in DOMAIN s : Append(s, n)[i] = s[i]
      /\ Append(s, n)[Len(s) + 1] = n /\ Append(s, n) \in Seq(Nat)
  BY <1>1, <1>3, Grows DEF n
<1>7. \A i \in DOMAIN Append(s, n) : Append(s, n)[i] \in DOMAIN log[a]
  BY <1>4, <1>5, <1>6
<1>8. told' \in [Alerts -> Seq(Nat)]
  BY <1>1, <1>2, <1>6 DEF TypeOK, a, s, n
<1> QED BY <1>1, <1>2, <1>4, <1>6, <1>7, <1>8 DEF TypeOK, a, s, n

LEMMA TellStep ==
    ASSUME IInv, NEW p \in Pollers, Tell(p)
    PROVE  IInv'
<1>1. PICK t \in poll[p].todo : /\ poll' = [poll EXCEPT ![p].todo = @ \ {t}]
                                /\ told' = [told EXCEPT ![t[1]] = Append(@, t[2])]
  BY DEF Tell
<1>2. /\ UNCHANGED <<source, fires, row, log, failing, lock, duty, deaths>>
      /\ poll[p].pc = "tell"
  BY DEF Tell, prometheus, inbox
<1>3. /\ TypeOK /\ poll[p] \in Polls /\ t \in Tasks /\ OnRecord(t) /\ lock = p
      /\ \A o \in Pollers \ {p} : poll[o].todo = {}
  BY <1>2, AlertInboxAssumption DEF IInv, Core, TypeOK, HolderPolls, Polls
<1>4. /\ poll' \in [Pollers -> Polls] /\ poll'[p].todo = poll[p].todo \ {t}
      /\ \A o \in Pollers \ {p} : poll'[o] = poll[o]
      /\ \A o \in Pollers : /\ poll'[o].pc = poll[o].pc /\ poll'[o].answer = poll[o].answer
                            /\ poll'[o].todo \subseteq poll[o].todo
  BY <1>1, <1>3 DEF TypeOK, Polls
<1>5. /\ t[1] \in Alerts /\ t[2] \in Nat
      /\ told' \in [Alerts -> Seq(Nat)]
      /\ \A a \in Alerts : a # t[1] => told'[a] = told[a]
      /\ DOMAIN told'[t[1]] = 1..(Len(told[t[1]]) + 1)
      /\ DOMAIN told[t[1]] = 1..Len(told[t[1]]) /\ Len(told[t[1]]) \in Nat
      /\ \A i \in DOMAIN told[t[1]] : told'[t[1]][i] = told[t[1]][i]
      /\ told'[t[1]][Len(told[t[1]]) + 1] = t[2]
      /\ \A a \in Alerts : \A i \in DOMAIN told'[a] : told'[a][i] \in DOMAIN log[a]
  BY <1>1, <1>3, ToldGrows
<1>6. TypeOK'
  BY <1>2, <1>3, <1>4, <1>5 DEF TypeOK, OnRecord
<1>7. HolderPolls' /\ Ahead'
  BY <1>2, <1>3, <1>4 DEF IInv, Core, HolderPolls, Ahead
<1>8. DutyIsAck'
  BY <1>2 DEF IInv, DutyIsAck, Acked
<1>9. /\ ~ Acked(t)
      /\ \A i \in DOMAIN told[t[1]] :
           log[t[1]][told[t[1]][i]].kind # "acknowledged" => told[t[1]][i] < t[2]
  BY DEF IInv, TodoIsLater
<1>10. TodoIsLater'
  <2> SUFFICES ASSUME NEW o \in Pollers, NEW u \in poll'[o].todo
               PROVE  /\ ~ Acked(u)
                      /\ \A v \in poll'[o].todo : v[1] = u[1] => v = u
                      /\ \A i \in DOMAIN told'[u[1]] :
                           log[u[1]][told'[u[1]][i]].kind # "acknowledged" => told'[u[1]][i] < u[2]
    BY <1>2 DEF TodoIsLater, Acked
  <2>1. o = p /\ u \in poll[p].todo /\ u # t
    BY <1>3, <1>4
  <2>2. u[1] # t[1] /\ u[1] \in Alerts
    BY <2>1, <1>3 DEF IInv, TodoIsLater, Polls, Tasks
  <2> QED BY <1>4, <1>5, <2>1, <2>2 DEF IInv, TodoIsLater
<1>11. ToldInOrder'
  <2> SUFFICES ASSUME NEW a \in Alerts, NEW i \in DOMAIN told'[a], NEW j \in DOMAIN told'[a], i < j,
                      log[a][told'[a][i]].kind # "acknowledged",
                      log[a][told'[a][j]].kind # "acknowledged"
               PROVE  told'[a][i] < told'[a][j]
    BY <1>2 DEF ToldInOrder
  <2>1. CASE a # t[1]
    BY <1>5, <2>1 DEF IInv, ToldInOrder
  <2>2. CASE a = t[1] /\ j = Len(told[a]) + 1
    <3>1. i \in DOMAIN told[a]
      BY <1>5, <2>2
    <3> QED BY <1>5, <1>9, <2>2, <3>1
  <2>3. CASE a = t[1] /\ j # Len(told[a]) + 1
    <3>1. i \in DOMAIN told[a] /\ j \in DOMAIN told[a]
      <4>1. /\ DOMAIN told'[a] = 1..(Len(told[a]) + 1) /\ DOMAIN told[a] = 1..Len(told[a])
            /\ Len(told[a]) \in Nat
        BY <1>5, <2>3
      <4>2. /\ i \in 1..(Len(told[a]) + 1) /\ j \in 1..(Len(told[a]) + 1)
            /\ j # Len(told[a]) + 1 /\ i < j
        BY <4>1, <2>3
      <4>3. i \in 1..Len(told[a]) /\ j \in 1..Len(told[a])
        BY ONLY <4>1, <4>2
      <4> QED BY <4>1, <4>3
    <3>2. told'[a][i] = told[a][i] /\ told'[a][j] = told[a][j]
      BY <1>5, <2>3, <3>1
    <3> QED BY <3>1, <3>2 DEF IInv, ToldInOrder
  <2> QED BY <2>1, <2>2, <2>3
<1> QED BY <1>6, <1>7, <1>8, <1>10, <1>11 DEF IInv, Core

LEMMA TellAcknowledgedStep ==
    ASSUME IInv, NEW o \in Operators, TellAcknowledged(o)
    PROVE  IInv'
<1>1. PICK t \in duty[o] : told' = [told EXCEPT ![t[1]] = Append(@, t[2])]
  BY DEF TellAcknowledged
<1>2. /\ UNCHANGED <<source, fires, row, log, failing, lock, poll, deaths>>
      /\ duty' = [duty EXCEPT ![o] = {}]
  BY DEF TellAcknowledged, prometheus, inbox
<1>3. TypeOK /\ t \in Tasks /\ OnRecord(t) /\ Acked(t)
  BY DEF IInv, Core, TypeOK, DutyIsAck
<1>4. /\ t[1] \in Alerts /\ t[2] \in Nat
      /\ told' \in [Alerts -> Seq(Nat)]
      /\ \A a \in Alerts : a # t[1] => told'[a] = told[a]
      /\ DOMAIN told'[t[1]] = 1..(Len(told[t[1]]) + 1)
      /\ DOMAIN told[t[1]] = 1..Len(told[t[1]]) /\ Len(told[t[1]]) \in Nat
      /\ \A i \in DOMAIN told[t[1]] : told'[t[1]][i] = told[t[1]][i]
      /\ told'[t[1]][Len(told[t[1]]) + 1] = t[2]
      /\ \A a \in Alerts : \A i \in DOMAIN told'[a] : told'[a][i] \in DOMAIN log[a]
  BY <1>1, <1>3, ToldGrows
<1>5. \A x \in Operators : duty'[x] \subseteq duty[x]
  BY <1>2, <1>3 DEF TypeOK
<1>6. TypeOK'
  BY <1>2, <1>3, <1>4, <1>5 DEF TypeOK, OnRecord
<1>7. HolderPolls' /\ Ahead'
  BY <1>2 DEF IInv, Core, HolderPolls, Ahead
<1>8. DutyIsAck'
  BY <1>2, <1>5 DEF IInv, DutyIsAck, Acked
<1>9. \A a \in Alerts : \A i \in DOMAIN told'[a] :
        log[a][told'[a][i]].kind # "acknowledged"
          => i \in DOMAIN told[a] /\ told'[a][i] = told[a][i]
  <2> SUFFICES ASSUME NEW a \in Alerts, NEW i \in DOMAIN told'[a],
                      log[a][told'[a][i]].kind # "acknowledged"
               PROVE  i \in DOMAIN told[a] /\ told'[a][i] = told[a][i]
    OBVIOUS
  <2>1. CASE a # t[1]
    BY <1>4, <2>1
  <2>2. CASE a = t[1]
    <3>1. i # Len(told[a]) + 1
      BY <1>3, <1>4, <2>2 DEF Acked
    <3>2. i \in DOMAIN told[a]
      BY <1>4, <2>2, <3>1
    <3> QED BY <1>4, <2>2, <3>2
  <2> QED BY <2>1, <2>2
<1>10. TodoIsLater'
  <2> SUFFICES ASSUME NEW x \in Pollers, NEW u \in poll[x].todo
               PROVE  /\ ~ Acked(u)
                      /\ \A v \in poll[x].todo : v[1] = u[1] => v = u
                      /\ \A i \in DOMAIN told'[u[1]] :
                           log[u[1]][told'[u[1]][i]].kind # "acknowledged" => told'[u[1]][i] < u[2]
    BY <1>2 DEF TodoIsLater, Acked
  <2>1. u[1] \in Alerts
    BY <1>3 DEF TypeOK, Polls, Tasks
  <2> QED BY <1>9, <2>1 DEF IInv, TodoIsLater
<1>11. ToldInOrder'
  BY <1>2, <1>9 DEF IInv, ToldInOrder
<1> QED BY <1>6, <1>7, <1>8, <1>10, <1>11 DEF IInv, Core

LEMMA DieStep ==
    ASSUME IInv, Die
    PROVE  IInv'
<1>1. /\ UNCHANGED <<source, fires, row, log, failing, told>>
      /\ lock' = None /\ deaths' = deaths + 1
      /\ poll' = [p \in Pollers |-> Idle] /\ duty' = [o \in Operators |-> {}]
  BY DEF Die, prometheus, inbox
<1>2. /\ poll' \in [Pollers -> Polls]
      /\ \A p \in Pollers : poll'[p].pc = "idle" /\ poll'[p].todo = {}
  BY <1>1, IdleType
<1>3. TypeOK'
  BY <1>1, <1>2 DEF IInv, Core, TypeOK
<1>4. HolderPolls' /\ Ahead'
  BY <1>1, <1>2 DEF IInv, Core, HolderPolls, Ahead
<1>5. TodoIsLater' /\ DutyIsAck' /\ ToldInOrder'
  BY <1>1, <1>2 DEF IInv, TodoIsLater, DutyIsAck, ToldInOrder
<1> QED BY <1>3, <1>4, <1>5 DEF IInv, Core

LEMMA NextIInv == IInv /\ [Next]_vars => IInv'
<1> SUFFICES ASSUME IInv, [Next]_vars PROVE IInv'
  OBVIOUS
<1>1. CASE \E a \in Alerts : Fire(a) \/ Worsen(a) \/ Cease(a)
  BY <1>1, SourceStep
<1>2. CASE \E p \in Pollers : Polling(p)
  BY <1>2, QuietSteps, SyncStep, TellStep DEF Polling
<1>3. CASE \E o \in Operators : TellAcknowledged(o) \/ \E a \in Alerts : Acknowledge(o, a)
  BY <1>3, TellAcknowledgedStep, AcknowledgeStep
<1>4. CASE Die
  BY <1>4, DieStep
<1>5. CASE UNCHANGED vars
  BY <1>5
  DEF vars, prometheus, inbox, IInv, Core, TypeOK, HolderPolls, Ahead, TodoIsLater, DutyIsAck,
      ToldInOrder, OnRecord, Acked
<1> QED BY <1>1, <1>2, <1>3, <1>4, <1>5 DEF Next

-----------------------------------------------------------------------------
(* The story that the transitions s of an alert tell, and how the row r of   *)
(* the alert continues it.                                                   *)
Over(s) == s # <<>> /\ s[Len(s)].kind = "resolved"

EpisodeOf(s) ==
    {i \in DOMAIN s : \A j \in {k \in DOMAIN s : s[k].kind = "resolved" /\ k # Len(s)} : j < i}

Acks(s) == {i \in EpisodeOf(s) : s[i].kind = "acknowledged"}

Follows(this, next) ==
    IF this.kind = "resolved"
    THEN \/ next.kind = "refiring" /\ next.gen = this.gen + 1
         \/ next.kind \in Active /\ next.gen = 1
    ELSE next.gen = this.gen /\ next.kind # "refiring"

Chain(s) == \A i \in 1..(Len(s) - 1) : Follows(s[i], s[i + 1])

Meets(r, s) ==
    CASE r.state = "none"     -> s = <<>> \/ Over(s)
      [] r.state = "resolved" -> Over(s) /\ s[Len(s)].gen = r.gen
      [] OTHER                -> s # <<>> /\ ~ Over(s) /\ s[Len(s)].gen = r.gen

OneAck(s) == Acks(s) = {} \/ \E i : Acks(s) = {i}

Owned(r, s) ==
    r.state \in Active =>
      IF r.owner = None THEN Acks(s) = {}
      ELSE \E i : Acks(s) = {i} /\ s[i].by = r.owner

Story(r, s) == Chain(s) /\ Meets(r, s) /\ OneAck(s) /\ Owned(r, s)

AllStories == \A a \in Alerts : Story(row[a], log[a])

LEMMA ChainGrows ==
    ASSUME NEW s \in Seq(Entries), NEW e \in Entries, Chain(s), s # <<>> => Follows(s[Len(s)], e)
    PROVE  Chain(Append(s, e))
<1> SUFFICES ASSUME NEW i \in 1..(Len(Append(s, e)) - 1)
             PROVE  Follows(Append(s, e)[i], Append(s, e)[i + 1])
  BY DEF Chain
<1>1. Len(Append(s, e)) = Len(s) + 1 /\ Len(s) \in Nat /\ i \in 1..Len(s)
  BY Grows
<1>2. CASE i = Len(s)
  <2>1. Append(s, e)[i] = s[i] /\ Append(s, e)[i + 1] = e /\ s # <<>>
    BY <1>1, <1>2, Grows
  <2> QED BY <1>2, <2>1
<1>3. CASE i # Len(s)
  <2>1. i \in 1..(Len(s) - 1) /\ i + 1 \in 1..Len(s)
    BY <1>1, <1>3
  <2>2. Append(s, e)[i] = s[i] /\ Append(s, e)[i + 1] = s[i + 1]
    BY <1>1, <2>1, Grows
  <2> QED BY <2>1, <2>2 DEF Chain
<1> QED BY <1>2, <1>3

(* The acknowledgements since the alert became active the last time.         *)
LEMMA AcksGrow ==
    ASSUME NEW s \in Seq(Entries), NEW e \in Entries
    PROVE  /\ Acks(Append(s, e)) =
                (IF Over(s) THEN {} ELSE Acks(s))
                  \cup (IF e.kind = "acknowledged" THEN {Len(s) + 1} ELSE {})
           /\ \A i \in Acks(s) : i \in DOMAIN s /\ Append(s, e)[i] = s[i]
<1> DEFINE t == Append(s, e)
           n == Len(s)
           overS == {k \in DOMAIN s : s[k].kind = "resolved" /\ k # n}
           overT == {k \in DOMAIN t : t[k].kind = "resolved" /\ k # Len(t)}
<1>1. /\ n \in Nat /\ Len(t) = n + 1 /\ DOMAIN t = 1..(n + 1) /\ DOMAIN s = 1..n
      /\ (\A i \in 1..n : t[i] = s[i]) /\ t[n + 1] = e
  BY Grows
<1>2. EpisodeOf(s) = {i \in DOMAIN s : \A j \in overS : j < i}
      /\ EpisodeOf(t) = {i \in DOMAIN t : \A j \in overT : j < i}
  BY DEF EpisodeOf
<1>3. \A i \in Acks(s) : i \in DOMAIN s
  BY DEF Acks, EpisodeOf
<1>4. overT = {k \in 1..n : s[k].kind = "resolved"}
  <2> HIDE DEF t, n
  <2> QED BY <1>1
<1>5. overS \subseteq overT /\ overT \subseteq overS \cup {n}
  <2> HIDE DEF t, n, overT
  <2> QED BY <1>1, <1>4
<1>6. Over(s) <=> n \in overT
  <2>1. s # <<>> <=> n # 0
    OBVIOUS
  <2> HIDE DEF t, overT
  <2> QED BY <1>1, <1>4, <2>1 DEF Over
<1> HIDE DEF t, overS, overT
<1>7. CASE Over(s)
  <2>1. EpisodeOf(t) = {n + 1}
    <3>1. n + 1 \in EpisodeOf(t)
      BY <1>1, <1>2, <1>4
    <3>2. \A i \in EpisodeOf(t) : n < i /\ i \in 1..(n + 1)
      BY <1>1, <1>2, <1>6, <1>7
    <3> QED BY <1>1, <3>1, <3>2
  <2>2. Acks(t) = IF e.kind = "acknowledged" THEN {n + 1} ELSE {}
    BY <1>1, <2>1 DEF Acks
  <2> QED BY <1>1, <1>3, <1>7, <2>2 DEF t
<1>8. CASE ~ Over(s)
  <2>1. overT = overS
    BY <1>5, <1>6, <1>8 DEF overS
  <2>2. \A j \in overS : j \in 1..n
    BY <1>1 DEF overS
  <2>3. EpisodeOf(t) = EpisodeOf(s) \cup {n + 1}
    BY <1>1, <1>2, <2>1, <2>2
  <2>4. Acks(t) = Acks(s) \cup (IF e.kind = "acknowledged" THEN {n + 1} ELSE {})
    <3>1. \A i \in EpisodeOf(s) : t[i] = s[i]
      BY <1>1, <1>2
    <3> QED BY <1>1, <2>3, <3>1 DEF Acks
  <2> QED BY <1>1, <1>3, <1>8, <2>4 DEF t
<1> QED BY <1>7, <1>8

(* A new generation, a change within a generation or its end, and an         *)
(* acknowledgement.                                                          *)
Opens(r, n, e) ==
    /\ r.state \notin Active /\ n.state \in Active /\ n.owner = None /\ e.gen = n.gen
    /\ IF r.state = "resolved" THEN e.kind = "refiring" /\ e.gen = r.gen + 1
                               ELSE e.kind \in Active /\ e.gen = 1

GoesOn(r, n, e) ==
    /\ r.state \in Active /\ n.gen = r.gen /\ e.gen = r.gen /\ n.owner = r.owner
    /\ n.state \in Active \cup {"resolved"} /\ e.kind = n.state

Takes(r, n, e) ==
    /\ r.state \in Active /\ r.owner = None /\ n.state = r.state /\ n.gen = r.gen
    /\ e.kind = "acknowledged" /\ e.gen = r.gen /\ e.by = n.owner /\ n.owner # None

LEMMA StoryGoesOn ==
    ASSUME NEW r \in Rows, NEW n \in Rows, NEW s \in Seq(Entries), NEW e \in Entries,
           Story(r, s), Opens(r, n, e) \/ GoesOn(r, n, e) \/ Takes(r, n, e)
    PROVE  Story(n, Append(s, e))
<1> DEFINE t == Append(s, e)
<1>1. /\ Len(s) \in Nat /\ Len(t) = Len(s) + 1 /\ t[Len(t)] = e /\ t # <<>>
  <2>1. Len(s) \in Nat /\ Len(t) = Len(s) + 1 /\ t[Len(s) + 1] = e
    BY Grows
  <2>2. t # <<>>
    <3> HIDE DEF t
    <3> QED BY <2>1
  <2> HIDE DEF t
  <2> QED BY <2>1, <2>2
<1>2. Over(t) <=> e.kind = "resolved"
  <2> HIDE DEF t
  <2> QED BY <1>1 DEF Over
<1>3. /\ Acks(t) = (IF Over(s) THEN {} ELSE Acks(s))
                      \cup (IF e.kind = "acknowledged" THEN {Len(s) + 1} ELSE {})
      /\ \A i \in Acks(s) : i \in DOMAIN s /\ t[i] = s[i]
  BY AcksGrow
<1> SUFFICES Story(n, t)
  OBVIOUS
<1> HIDE DEF t
<1>4. CASE Opens(r, n, e)
  <2>1. r.state \in {"none", "resolved"} /\ e.kind \notin {"resolved", "acknowledged"}
    BY <1>4 DEF Opens, Rows, Active
  <2>2. s # <<>> => Over(s) /\ Follows(s[Len(s)], e)
    BY <1>4, <2>1 DEF Opens, Story, Meets, Over, Follows
  <2>3. Chain(t)
    BY <2>2, ChainGrows DEF Story, t
  <2>4. Acks(t) = {}
    <3>1. s = <<>> => Acks(s) = {}
      BY DEF Acks, EpisodeOf
    <3> QED BY <1>3, <2>1, <2>2, <3>1
  <2>5. Meets(n, t)
    <3>1. n.state \notin {"none", "resolved"} /\ ~ Over(t) /\ t # <<>> /\ t[Len(t)].gen = n.gen
      BY <1>1, <1>2, <1>4, <2>1 DEF Opens, Active
    <3> QED BY <3>1 DEF Meets
  <2> QED BY <1>4, <2>3, <2>4, <2>5 DEF Opens, Story, OneAck, Owned
<1>5. CASE GoesOn(r, n, e)
  <2>1. s # <<>> /\ ~ Over(s) /\ s[Len(s)].gen = r.gen /\ e.kind \notin {"refiring", "acknowledged"}
    BY <1>5 DEF GoesOn, Story, Meets, Active
  <2>2. Chain(t)
    BY <1>5, <2>1, ChainGrows DEF GoesOn, Story, Follows, Over, t
  <2>3. Acks(t) = Acks(s)
    BY <1>3, <2>1
  <2>4. Meets(n, t)
    BY <1>1, <1>2, <1>5 DEF GoesOn, Meets, Active
  <2>5. Owned(n, t)
    <3> SUFFICES ASSUME n.state \in Active
                 PROVE  IF n.owner = None THEN Acks(t) = {}
                        ELSE \E i : Acks(t) = {i} /\ t[i].by = n.owner
      BY DEF Owned
    <3>1. n.owner = r.owner /\ (IF r.owner = None THEN Acks(s) = {}
                               ELSE \E i : Acks(s) = {i} /\ s[i].by = r.owner)
      BY <1>5 DEF GoesOn, Story, Owned
    <3> QED BY <1>3, <2>3, <3>1
  <2> QED BY <2>2, <2>3, <2>4, <2>5 DEF Story, OneAck
<1>6. CASE Takes(r, n, e)
  <2>1. s # <<>> /\ ~ Over(s) /\ s[Len(s)].gen = r.gen /\ Acks(s) = {}
    BY <1>6 DEF Takes, Story, Meets, Owned, Active
  <2>2. Chain(t)
    BY <1>6, <2>1, ChainGrows DEF Takes, Story, Follows, Over, t
  <2>3. Acks(t) = {Len(s) + 1}
    BY <1>3, <1>6, <2>1 DEF Takes
  <2>4. Meets(n, t)
    BY <1>1, <1>2, <1>6 DEF Takes, Meets, Active
  <2>5. t[Len(s) + 1].by = n.owner
    BY <1>1, <1>6 DEF Takes
  <2>6. Owned(n, t)
    <3>1. n.owner # None
      BY <1>6 DEF Takes
    <3>2. \E i : Acks(t) = {i} /\ t[i].by = n.owner
      BY <2>3, <2>5
    <3> QED BY <3>1, <3>2 DEF Owned
  <2> QED BY <2>2, <2>3, <2>4, <2>6 DEF Story, OneAck
<1> QED BY <1>4, <1>5, <1>6

(* The retention takes a resolved row away.                                  *)
LEMMA StoryRetired == ASSUME NEW r, NEW s, Story(r, s), r.state = "resolved" PROVE Story(NoRow, s)
  BY DEF Story, Meets, Owned, NoRow, Active

(* What a poll makes of a row, and what it says of it.                       *)
LEMMA AfterTells ==
    ASSUME TypeOK, NEW a \in Alerts, NEW answer \in [Alerts -> States]
    PROVE  LET n == After(a, answer)  e == Transition(row[a], n)
           IN  /\ n \in Rows
               /\ n.state = row[a].state => n = row[a]
               /\ n.state # row[a].state => e \in Entries /\ (Opens(row[a], n, e) \/ GoesOn(row[a], n, e))
<1> DEFINE r == row[a]
           n == After(a, answer)
           e == Transition(r, n)
<1>1. /\ r = [state |-> r.state, gen |-> r.gen, owner |-> r.owner] /\ r.gen \in Nat
      /\ r.owner \in Operators \cup {None} /\ r.state \in Active \cup {"none", "resolved"} /\ r \in Rows
  BY DEF TypeOK, Rows
<1>2. e = [kind |-> IF r.state = "resolved" THEN "refiring" ELSE n.state, gen |-> n.gen, by |-> None]
  BY DEF Transition
<1>3. CASE answer[a] \in Active
  <2>1. n = Merged(r, answer[a])
    BY <1>3 DEF After
  <2>2. CASE r.state = "none"
    <3>1. n = [state |-> answer[a], gen |-> 1, owner |-> None]
      BY <2>1, <2>2 DEF Merged
    <3>2. n \in Rows /\ e \in Entries
      BY <3>1, <1>2, <1>3, <2>2 DEF Rows, Entries, Kinds, Active
    <3> QED BY <1>2, <1>3, <2>2, <3>1, <3>2 DEF Opens, Active
  <2>3. CASE r.state = "resolved"
    <3>1. n = [state |-> answer[a], gen |-> r.gen + 1, owner |-> None]
      BY <2>1, <2>3 DEF Merged
    <3>2. n \in Rows /\ e \in Entries
      BY <1>1, <3>1, <1>2, <1>3, <2>3 DEF Rows, Entries, Kinds, Active
    <3> QED BY <1>2, <1>3, <2>3, <3>1, <3>2 DEF Opens, Active
  <2>4. CASE r.state \in Active
    <3>1. n = [r EXCEPT !.state = answer[a]]
      BY <2>1, <2>4 DEF Merged, Active
    <3>2. n = [state |-> answer[a], gen |-> r.gen, owner |-> r.owner]
      BY <1>1, <3>1
    <3>3. n \in Rows /\ e \in Entries
      BY <1>1, <3>2, <1>2, <1>3, <2>4 DEF Rows, Entries, Kinds, Active
    <3>4. n.state = r.state => n = r
      BY <1>1, <3>2
    <3> QED BY <1>2, <1>3, <2>4, <3>2, <3>3, <3>4 DEF GoesOn, Active
  <2> QED BY <1>1, <2>2, <2>3, <2>4
<1>4. CASE answer[a] \notin Active /\ r.state \in Active
  <2>1. n = [r EXCEPT !.state = "resolved"]
    BY <1>4 DEF After
  <2>2. n = [state |-> "resolved", gen |-> r.gen, owner |-> r.owner]
    BY <1>1, <2>1
  <2>3. n \in Rows /\ e \in Entries
    BY <1>1, <1>2, <1>4, <2>2 DEF Rows, Entries, Kinds, Active
  <2> QED BY <1>2, <1>4, <2>2, <2>3 DEF GoesOn, Active
<1>5. CASE answer[a] \notin Active /\ r.state \notin Active
  BY <1>1, <1>5 DEF After
<1> QED BY <1>3, <1>4, <1>5

LEMMA StoryStep == IInv /\ AllStories /\ [Next]_vars => AllStories'
<1> SUFFICES ASSUME IInv, AllStories, [Next]_vars PROVE AllStories'
  OBVIOUS
<1>0. TypeOK
  BY DEF IInv, Core
<1>1. ASSUME UNCHANGED <<row, log>> PROVE AllStories'
  BY <1>1 DEF AllStories
<1>2. ASSUME NEW p \in Pollers, Sync(p) PROVE AllStories'
  <2> DEFINE after == [a \in Alerts |-> After(a, poll[p].answer)]
             changed == {a \in Alerts : after[a].state # row[a].state}
  <2>1. poll[p].answer \in [Alerts -> States]
    BY <1>0, <1>2 DEF Sync, TypeOK
  <2>2. PICK retired \in SUBSET {a \in Alerts \ changed : after[a].state = "resolved"} :
          row' = [a \in Alerts |-> IF a \in retired THEN NoRow ELSE after[a]]
    BY <1>2 DEF Sync
  <2>3. log' = [a \in Alerts |->
                  IF a \in changed THEN Append(log[a], Transition(row[a], after[a])) ELSE log[a]]
    BY <1>2 DEF Sync
  <2> SUFFICES ASSUME NEW a \in Alerts PROVE Story(row'[a], log'[a])
    BY DEF AllStories
  <2> DEFINE n == After(a, poll[p].answer)
             e == Transition(row[a], n)
  <2>4. /\ n \in Rows
        /\ n.state = row[a].state => n = row[a]
        /\ n.state # row[a].state => e \in Entries /\ (Opens(row[a], n, e) \/ GoesOn(row[a], n, e))
    BY <1>0, <2>1, AfterTells
  <2>5. /\ row'[a] = IF a \in retired THEN NoRow ELSE n
        /\ log'[a] = IF n.state # row[a].state THEN Append(log[a], e) ELSE log[a]
        /\ a \in retired => n.state = row[a].state /\ n.state = "resolved"
    BY <2>2, <2>3
  <2>6. Story(row[a], log[a]) /\ row[a] \in Rows /\ log[a] \in Seq(Entries)
    BY <1>0 DEF AllStories, TypeOK
  <2> HIDE DEF n, e, after, changed
  <2>7. CASE n.state # row[a].state
    BY <2>4, <2>5, <2>6, <2>7, StoryGoesOn
  <2>8. CASE n.state = row[a].state
    BY <2>4, <2>5, <2>6, <2>8, StoryRetired
  <2> QED BY <2>7, <2>8
<1>3. ASSUME NEW o \in Operators, NEW a \in Alerts, Acknowledge(o, a) PROVE AllStories'
  <2> DEFINE n == [row[a] EXCEPT !.owner = o]
             e == [kind |-> "acknowledged", gen |-> row[a].gen, by |-> o]
  <2>1. /\ row[a].state \in Active /\ row[a].owner = None
        /\ row' = [row EXCEPT ![a] = n] /\ log' = [log EXCEPT ![a] = Append(@, e)]
    BY <1>3 DEF Acknowledge
  <2>2. row[a] \in Rows /\ row \in [Alerts -> Rows] /\ log \in [Alerts -> Seq(Entries)]
    BY <1>0 DEF TypeOK
  <2>3. n \in Rows /\ e \in Entries /\ Takes(row[a], n, e)
    BY <2>1, <2>2, AlertInboxAssumption DEF Takes, Rows, Entries, Kinds
  <2> HIDE DEF n, e
  <2>4. Story(n, Append(log[a], e))
    BY <2>2, <2>3, StoryGoesOn DEF AllStories
  <2> QED BY <2>1, <2>2, <2>4 DEF AllStories
<1>4. CASE \E a \in Alerts : Fire(a) \/ Worsen(a) \/ Cease(a)
  BY <1>1, <1>4 DEF Fire, Worsen, Cease, inbox
<1>5. ASSUME NEW p \in Pollers, Begin(p) \/ Fetch(p) \/ PollFails(p) \/ Tell(p) \/ EndPoll(p) PROVE AllStories'
  BY <1>1, <1>5 DEF Begin, Fetch, PollFails, Tell, EndPoll, inbox
<1>6. ASSUME NEW o \in Operators, TellAcknowledged(o) PROVE AllStories'
  BY <1>1, <1>6 DEF TellAcknowledged, inbox
<1>7. CASE Die \/ UNCHANGED vars
  BY <1>1, <1>7 DEF Die, vars, inbox
<1> QED BY <1>2, <1>3, <1>4, <1>5, <1>6, <1>7 DEF Next, Polling

-----------------------------------------------------------------------------
(* Where a transition is: told already, on a poll's list, or an operator's   *)
(* duty.                                                                     *)
ToldAt(a, i) == {j \in DOMAIN told[a] : told[a][j] = i}
OnLists(a, i) == {p \in Pollers : <<a, i>> \in poll[p].todo}
OnDuty(a, i) == {o \in Operators : <<a, i>> \in duty[o]}

One(S) == \E x : S = {x}

InOnePlace(a, i) ==
    \/ One(ToldAt(a, i)) /\ OnLists(a, i) = {} /\ OnDuty(a, i) = {}
    \/ ToldAt(a, i) = {} /\ One(OnLists(a, i)) /\ OnDuty(a, i) = {}
    \/ ToldAt(a, i) = {} /\ OnLists(a, i) = {} /\ One(OnDuty(a, i))

DutyIsOne == \A o \in Operators : \A t, u \in duty[o] : t = u

AllInPlace ==
    /\ DutyIsOne
    /\ deaths = 0 => \A a \in Alerts : \A i \in DOMAIN log[a] : InOnePlace(a, i)

LEMMA PlacesCount == TypeOK /\ AllInPlace => ToldOnce
<1> SUFFICES ASSUME AllInPlace, deaths = 0, NEW a \in Alerts, NEW i \in DOMAIN log[a]
             PROVE  Cardinality(ToldAt(a, i)) + Cardinality(OnLists(a, i)) + Cardinality(OnDuty(a, i)) = 1
  BY DEF ToldOnce, ToldAt, OnLists, OnDuty
<1>1. InOnePlace(a, i)
  BY DEF AllInPlace
<1>2. Cardinality({}) = 0 /\ \A S : One(S) => Cardinality(S) = 1
  BY FS_EmptySet, FS_Singleton DEF One
<1> QED BY <1>1, <1>2 DEF InOnePlace

(* What is not on record yet is nowhere.                                     *)
LEMMA NotYet ==
    ASSUME TypeOK, NEW a \in Alerts, NEW i, i \notin DOMAIN log[a]
    PROVE  ToldAt(a, i) = {} /\ OnLists(a, i) = {} /\ OnDuty(a, i) = {}
<1>1. ToldAt(a, i) = {}
  BY DEF TypeOK, ToldAt
<1>2. \A p \in Pollers : <<a, i>> \notin poll[p].todo
  BY DEF TypeOK, OnRecord
<1>3. \A o \in Operators : <<a, i>> \notin duty[o]
  BY DEF TypeOK, OnRecord
<1> QED BY <1>1, <1>2, <1>3 DEF OnLists, OnDuty

LEMMA PlaceStep == IInv /\ AllInPlace /\ [Next]_vars => AllInPlace'
<1> SUFFICES ASSUME IInv, AllInPlace, [Next]_vars PROVE AllInPlace'
  OBVIOUS
<1>0. TypeOK /\ HolderPolls /\ DutyIsOne /\ poll \in [Pollers -> Polls] /\ duty \in [Operators -> SUBSET Tasks]
        /\ log \in [Alerts -> Seq(Entries)] /\ deaths \in Nat
  BY DEF IInv, Core, AllInPlace, TypeOK
<1>1. ASSUME UNCHANGED <<log, told, duty, deaths>>, \A p \in Pollers : poll'[p].todo = poll[p].todo
      PROVE  AllInPlace'
  <2>1. ASSUME NEW a \in Alerts, NEW i \in DOMAIN log[a], InOnePlace(a, i) PROVE InOnePlace(a, i)'
    <3>1. OnLists(a, i)' = OnLists(a, i)
      BY <1>1 DEF OnLists
    <3>2. ToldAt(a, i)' = ToldAt(a, i) /\ OnDuty(a, i)' = OnDuty(a, i)
      BY <1>1 DEF ToldAt, OnDuty
    <3> QED BY <2>1, <3>1, <3>2 DEF InOnePlace
  <2>2. DutyIsOne'
    BY <1>0, <1>1 DEF DutyIsOne
  <2> QED BY <1>1, <2>1, <2>2 DEF AllInPlace
<1>2. ASSUME NEW p \in Pollers, Begin(p) \/ Fetch(p) \/ PollFails(p) \/ EndPoll(p) PROVE AllInPlace'
  <2>1. UNCHANGED <<log, told, duty, deaths>>
    BY <1>2 DEF Begin, Fetch, PollFails, EndPoll, inbox
  <2>2. poll'[p].todo = poll[p].todo /\ \A q \in Pollers \ {p} : poll'[q] = poll[q]
    <3>1. CASE Begin(p) \/ Fetch(p)
      BY <1>0, <3>1 DEF Begin, Fetch, Polls
    <3>2. poll[p].pc # "tell" => poll[p].todo = {}
      BY <1>0 DEF HolderPolls
    <3>3. CASE PollFails(p)
      <4>1. poll[p].todo = {} /\ poll' = [poll EXCEPT ![p] = Idle]
        BY <3>2, <3>3 DEF PollFails
      <4> QED BY <1>0, <4>1, IdleType
    <3>4. CASE EndPoll(p)
      <4>1. poll[p].todo = {} /\ poll' = [poll EXCEPT ![p] = Idle]
        BY <3>4 DEF EndPoll
      <4> QED BY <1>0, <4>1, IdleType
    <3> QED BY <1>2, <3>1, <3>3, <3>4
  <2> QED BY <1>1, <2>1, <2>2
<1>3. ASSUME NEW p \in Pollers, Sync(p) PROVE AllInPlace'
  <2> DEFINE changed == {a \in Alerts : After(a, poll[p].answer).state # row[a].state}
             entry(a) == Transition(row[a], After(a, poll[p].answer))
             todo == {<<a, Len(log'[a])>> : a \in changed}
  <2>1. /\ poll[p].pc = "sync" /\ poll[p].todo = {} /\ poll[p].answer \in [Alerts -> States]
        /\ poll' = [poll EXCEPT ![p] = [Idle EXCEPT !.pc = "tell", !.todo = todo]]
        /\ log' = [a \in Alerts |-> IF a \in changed THEN Append(log[a], entry(a)) ELSE log[a]]
        /\ UNCHANGED <<told, duty, deaths>>
    BY <1>0, <1>3 DEF Sync, Numbered, HolderPolls, TypeOK
  <2>2. \A a \in changed : entry(a) \in Entries
    BY <1>0, <2>1, AfterTells
  <2>3. \A a \in changed : /\ Len(log'[a]) = Len(log[a]) + 1 /\ Len(log[a]) \in Nat
                            /\ DOMAIN log'[a] = 1..(Len(log[a]) + 1) /\ DOMAIN log[a] = 1..Len(log[a])
    <3> SUFFICES ASSUME NEW a \in changed
                 PROVE  /\ Len(log'[a]) = Len(log[a]) + 1 /\ Len(log[a]) \in Nat
                        /\ DOMAIN log'[a] = 1..(Len(log[a]) + 1) /\ DOMAIN log[a] = 1..Len(log[a])
      OBVIOUS
    <3>1. log'[a] = Append(log[a], entry(a)) /\ log[a] \in Seq(Entries) /\ entry(a) \in Entries
      BY <1>0, <2>1, <2>2
    <3> HIDE DEF entry
    <3> QED BY <3>1, Grows
  <2>4. \A a \in Alerts \ changed : log'[a] = log[a]
    BY <2>1
  <2>5. poll'[p].todo = todo /\ \A q \in Pollers \ {p} : poll'[q] = poll[q]
    <3> HIDE DEF todo
    <3> QED BY <1>0, <2>1 DEF Idle
  <2>6. \A a \in Alerts : \A i : <<a, i>> \in todo <=> a \in changed /\ i = Len(log'[a])
    OBVIOUS
  <2> HIDE DEF changed, todo, entry
  <2>7. ASSUME deaths = 0, NEW a \in Alerts, NEW i \in DOMAIN log'[a] PROVE InOnePlace(a, i)'
    <3>1. ToldAt(a, i)' = ToldAt(a, i) /\ OnDuty(a, i)' = OnDuty(a, i)
      BY <2>1 DEF ToldAt, OnDuty
    <3>2. CASE a \in changed /\ i = Len(log'[a])
      <4>1. i \notin DOMAIN log[a]
        BY <2>3, <3>2
      <4>2. ToldAt(a, i) = {} /\ OnLists(a, i) = {} /\ OnDuty(a, i) = {}
        BY <1>0, <4>1, NotYet
      <4>3. OnLists(a, i)' = {p}
        BY <2>5, <2>6, <3>2, <4>2 DEF OnLists
      <4> QED BY <3>1, <4>2, <4>3 DEF InOnePlace, One
    <3>3. CASE ~ (a \in changed /\ i = Len(log'[a]))
      <4>1. i \in DOMAIN log[a]
        BY <2>3, <2>4, <2>7, <3>3
      <4>2. OnLists(a, i)' = OnLists(a, i)
        BY <2>1, <2>5, <2>6, <3>3 DEF OnLists
      <4>3. InOnePlace(a, i)
        BY <2>7, <4>1 DEF AllInPlace
      <4> QED BY <3>1, <4>2, <4>3 DEF InOnePlace
    <3> QED BY <3>2, <3>3
  <2> QED BY <1>0, <2>1, <2>7 DEF AllInPlace, DutyIsOne
<1>4. ASSUME NEW t \in Tasks, OnRecord(t), told' = [told EXCEPT ![t[1]] = Append(@, t[2])],
             ToldAt(t[1], t[2]) = {}
      PROVE  /\ One(ToldAt(t[1], t[2])')
             /\ \A a \in Alerts : \A i : <<a, i>> # t => ToldAt(a, i)' = ToldAt(a, i)
  <2>1. /\ t[1] \in Alerts /\ t[2] \in Nat /\ t = <<t[1], t[2]>>
        /\ \A a \in Alerts : a # t[1] => told'[a] = told[a]
        /\ DOMAIN told'[t[1]] = 1..(Len(told[t[1]]) + 1)
        /\ DOMAIN told[t[1]] = 1..Len(told[t[1]]) /\ Len(told[t[1]]) \in Nat
        /\ \A i \in DOMAIN told[t[1]] : told'[t[1]][i] = told[t[1]][i]
        /\ told'[t[1]][Len(told[t[1]]) + 1] = t[2]
    <3>1. t = <<t[1], t[2]>>
      BY DEF Tasks
    <3> HIDE DEF Tasks
    <3>2. /\ t[1] \in Alerts /\ t[2] \in Nat
          /\ \A a \in Alerts : a # t[1] => told'[a] = told[a]
          /\ DOMAIN told'[t[1]] = 1..(Len(told[t[1]]) + 1)
          /\ DOMAIN told[t[1]] = 1..Len(told[t[1]]) /\ Len(told[t[1]]) \in Nat
          /\ \A i \in DOMAIN told[t[1]] : told'[t[1]][i] = told[t[1]][i]
          /\ told'[t[1]][Len(told[t[1]]) + 1] = t[2]
      BY <1>0, <1>4, ToldGrows
    <3> QED BY <3>1, <3>2
  <2>2. ToldAt(t[1], t[2])' = {Len(told[t[1]]) + 1}
    BY <1>4, <2>1 DEF ToldAt
  <2>3. ASSUME NEW a \in Alerts, NEW i, <<a, i>> # t PROVE ToldAt(a, i)' = ToldAt(a, i)
    <3>1. CASE a # t[1]
      BY <2>1, <3>1 DEF ToldAt
    <3>2. CASE a = t[1] /\ i # t[2]
      BY <2>1, <3>2 DEF ToldAt
    <3> QED BY <2>1, <2>3, <3>1, <3>2
  <2> QED BY <2>2, <2>3 DEF One
<1>5. ASSUME NEW p \in Pollers, Tell(p) PROVE AllInPlace'
  <2>1. PICK t \in poll[p].todo : /\ poll' = [poll EXCEPT ![p].todo = @ \ {t}]
                                  /\ told' = [told EXCEPT ![t[1]] = Append(@, t[2])]
    BY <1>5 DEF Tell
  <2>2. t \in Tasks /\ OnRecord(t) /\ t[1] \in Alerts /\ t = <<t[1], t[2]>> /\ t[2] \in DOMAIN log[t[1]]
    BY <1>0 DEF TypeOK, Polls, Tasks, OnRecord
  <2>3. UNCHANGED <<log, duty, deaths>>
    BY <1>5 DEF Tell, inbox
  <2>4. poll'[p].todo = poll[p].todo \ {t} /\ \A q \in Pollers \ {p} : poll'[q] = poll[q]
    BY <1>0, <2>1 DEF Polls
  <2>5. ASSUME deaths = 0, NEW a \in Alerts, NEW i \in DOMAIN log[a] PROVE InOnePlace(a, i)'
    <3>1. InOnePlace(a, i) /\ InOnePlace(t[1], t[2])
      BY <2>2, <2>5 DEF AllInPlace
    <3>2. p \in OnLists(t[1], t[2])
      BY <2>2 DEF OnLists
    <3>3. ToldAt(t[1], t[2]) = {} /\ OnLists(t[1], t[2]) = {p} /\ OnDuty(t[1], t[2]) = {}
      BY <3>1, <3>2 DEF InOnePlace, One
    <3>4. One(ToldAt(t[1], t[2])') /\ (<<a, i>> # t => ToldAt(a, i)' = ToldAt(a, i))
      BY <1>4, <2>1, <2>2, <3>3
    <3>5. OnDuty(a, i)' = OnDuty(a, i)
      BY <2>3 DEF OnDuty
    <3>6. CASE <<a, i>> = t
      <4>1. OnLists(a, i)' = {}
        BY <2>2, <2>4, <3>3, <3>6 DEF OnLists
      <4>2. a = t[1] /\ i = t[2]
        BY <2>2, <3>6
      <4> QED BY <3>3, <3>4, <3>5, <4>1, <4>2 DEF InOnePlace
    <3>7. CASE <<a, i>> # t
      <4>1. OnLists(a, i)' = OnLists(a, i)
        BY <2>4, <3>7 DEF OnLists
      <4> QED BY <3>1, <3>4, <3>5, <3>7, <4>1 DEF InOnePlace
    <3> QED BY <3>6, <3>7
  <2> QED BY <1>0, <2>3, <2>5 DEF AllInPlace, DutyIsOne
<1>6. ASSUME NEW o \in Operators, TellAcknowledged(o) PROVE AllInPlace'
  <2>1. PICK t \in duty[o] : told' = [told EXCEPT ![t[1]] = Append(@, t[2])]
    BY <1>6 DEF TellAcknowledged
  <2>2. t \in Tasks /\ OnRecord(t) /\ t[1] \in Alerts /\ t = <<t[1], t[2]>> /\ t[2] \in DOMAIN log[t[1]]
    BY <1>0 DEF TypeOK, Tasks, OnRecord
  <2>3. UNCHANGED <<log, poll, deaths>> /\ duty' = [duty EXCEPT ![o] = {}]
    BY <1>6 DEF TellAcknowledged, inbox
  <2>4. duty[o] = {t} /\ duty'[o] = {} /\ \A x \in Operators \ {o} : duty'[x] = duty[x]
    BY <1>0, <2>1, <2>3 DEF DutyIsOne
  <2>5. ASSUME deaths = 0, NEW a \in Alerts, NEW i \in DOMAIN log[a] PROVE InOnePlace(a, i)'
    <3>1. InOnePlace(a, i) /\ InOnePlace(t[1], t[2])
      BY <2>2, <2>5 DEF AllInPlace
    <3>2. o \in OnDuty(t[1], t[2])
      BY <2>2 DEF OnDuty
    <3>3. ToldAt(t[1], t[2]) = {} /\ OnDuty(t[1], t[2]) = {o} /\ OnLists(t[1], t[2]) = {}
      BY <3>1, <3>2 DEF InOnePlace, One
    <3>4. One(ToldAt(t[1], t[2])') /\ (<<a, i>> # t => ToldAt(a, i)' = ToldAt(a, i))
      BY <1>4, <2>1, <2>2, <3>3
    <3>5. OnLists(a, i)' = OnLists(a, i)
      BY <2>3 DEF OnLists
    <3>6. CASE <<a, i>> = t
      <4>1. OnDuty(a, i)' = {}
        BY <2>2, <2>4, <3>3, <3>6 DEF OnDuty
      <4>2. a = t[1] /\ i = t[2]
        BY <2>2, <3>6
      <4> QED BY <3>3, <3>4, <3>5, <4>1, <4>2 DEF InOnePlace
    <3>7. CASE <<a, i>> # t
      <4>1. OnDuty(a, i)' = OnDuty(a, i)
        BY <2>4, <3>7 DEF OnDuty
      <4> QED BY <3>1, <3>4, <3>5, <3>7, <4>1 DEF InOnePlace
    <3> QED BY <3>6, <3>7
  <2>6. DutyIsOne'
    BY <1>0, <2>4 DEF DutyIsOne
  <2> QED BY <2>3, <2>5, <2>6 DEF AllInPlace
<1>7. ASSUME NEW o \in Operators, NEW b \in Alerts, Acknowledge(o, b) PROVE AllInPlace'
  <2> DEFINE e == [kind |-> "acknowledged", gen |-> row[b].gen, by |-> o]
             n == Len(log[b]) + 1
  <2>1. /\ duty[o] = {} /\ log' = [log EXCEPT ![b] = Append(@, e)]
        /\ duty' = [duty EXCEPT ![o] = {<<b, Len(log'[b])>>}]
        /\ UNCHANGED <<poll, told, deaths>>
    BY <1>7 DEF Acknowledge
  <2>2. e \in Entries
    BY <1>0 DEF TypeOK, Rows, Entries, Kinds
  <2> HIDE DEF e
  <2>3. /\ Len(log'[b]) = n /\ DOMAIN log'[b] = 1..n /\ DOMAIN log[b] = 1..(n - 1) /\ n \in Nat
        /\ \A a \in Alerts \ {b} : log'[a] = log[a]
    BY <1>0, <2>1, <2>2, Grows
  <2> HIDE DEF n
  <2>4. duty'[o] = {<<b, n>>} /\ \A x \in Operators \ {o} : duty'[x] = duty[x]
    BY <1>0, <2>1, <2>3
  <2>5. ASSUME deaths = 0, NEW a \in Alerts, NEW i \in DOMAIN log'[a] PROVE InOnePlace(a, i)'
    <3>1. ToldAt(a, i)' = ToldAt(a, i) /\ OnLists(a, i)' = OnLists(a, i)
      BY <2>1 DEF ToldAt, OnLists
    <3>2. CASE a = b /\ i = n
      <4>1. i \notin DOMAIN log[a]
        BY <2>3, <3>2
      <4>2. ToldAt(a, i) = {} /\ OnLists(a, i) = {} /\ OnDuty(a, i) = {}
        BY <1>0, <4>1, NotYet
      <4>3. OnDuty(a, i)' = {o}
        BY <2>4, <3>2, <4>2 DEF OnDuty
      <4> QED BY <3>1, <4>2, <4>3 DEF InOnePlace, One
    <3>3. CASE ~ (a = b /\ i = n)
      <4>1. i \in DOMAIN log[a]
        BY <2>3, <2>5, <3>3
      <4>2. OnDuty(a, i)' = OnDuty(a, i)
        BY <2>1, <2>4, <3>3 DEF OnDuty
      <4>3. InOnePlace(a, i)
        BY <2>5, <4>1 DEF AllInPlace
      <4> QED BY <3>1, <4>2, <4>3 DEF InOnePlace
    <3> QED BY <3>2, <3>3
  <2>6. DutyIsOne'
    BY <1>0, <2>4 DEF DutyIsOne
  <2> QED BY <2>1, <2>5, <2>6 DEF AllInPlace
<1>8. CASE Die
  BY <1>0, <1>8 DEF Die, AllInPlace, DutyIsOne
<1>9. CASE \E a \in Alerts : Fire(a) \/ Worsen(a) \/ Cease(a)
  BY <1>1, <1>9 DEF Fire, Worsen, Cease, inbox
<1>10. CASE UNCHANGED vars
  BY <1>1, <1>10 DEF vars, inbox
<1> QED BY <1>2, <1>3, <1>5, <1>6, <1>7, <1>8, <1>9, <1>10 DEF Next, Polling

(* The inbox's tables, polls and audit events have their types; what is to   *)
(* be told, and what was told, is on record.                                 *)
THEOREM TypeCorrect == Spec => []TypeOK
<1>1. IInv => TypeOK
  BY DEF IInv, Core
<1> QED BY <1>1, InitIInv, NextIInv, PTL DEF Spec

(* No poll makes a generation that Prometheus did not: answers are written   *)
(* in the order in which they were given, and a failed poll writes nothing.  *)
THEOREM NoGenerationOfItsOwn == Spec => []GenerationsAreReal
<1>1. IInv => GenerationsAreReal
  BY DEF IInv, Core, Ahead, GenerationsAreReal
<1> QED BY <1>1, InitIInv, NextIInv, PTL DEF Spec

(* What polls found is told in the order in which it was found, whoever      *)
(* polled, and across restarts.                                              *)
THEOREM OrderlyTelling == Spec => []ToldInOrder
<1>1. IInv => ToldInOrder
  BY DEF IInv
<1> QED BY <1>1, InitIInv, NextIInv, PTL DEF Spec

(* The transitions of an alert tell one story of real generations, with one  *)
(* acknowledgement each at most; the owner is who took this generation; and  *)
(* everything is told once (sync, acknowledge, alert_inbox_poll).            *)
THEOREM InboxTrue == Spec => []InboxIsTrue
<1>1. Init => AllStories /\ AllInPlace
  <2> SUFFICES ASSUME Init PROVE AllStories /\ AllInPlace
    OBVIOUS
  <2>1. \A a \in Alerts : row[a] = NoRow /\ log[a] = <<>> /\ DOMAIN log[a] = {}
    BY DEF Init
  <2>2. Story(NoRow, <<>>)
    BY DEF Story, Chain, Meets, OneAck, Owned, Acks, EpisodeOf, NoRow, Active
  <2>3. DutyIsOne
    BY DEF Init, DutyIsOne
  <2> QED BY <2>1, <2>2, <2>3 DEF AllStories, AllInPlace
<1>2. IInv => TypeOK /\ GenerationsAreReal
  BY DEF IInv, Core, Ahead, GenerationsAreReal
<1>3. AllStories => OneStory
  <2> SUFFICES ASSUME AllStories, NEW a \in Alerts
               PROVE  /\ \A i \in 1..(Len(log[a]) - 1) : Follows(log[a][i], log[a][i + 1])
                      /\ Cardinality(Acks(log[a])) <= 1
    BY DEF OneStory, Follows, Acks, EpisodeOf, Episode
  <2>1. Chain(log[a]) /\ OneAck(log[a])
    BY DEF AllStories, Story
  <2>2. Cardinality({}) = 0 /\ \A S : One(S) => Cardinality(S) = 1
    BY FS_EmptySet, FS_Singleton DEF One
  <2>3. Cardinality(Acks(log[a])) \in {0, 1}
    BY <2>1, <2>2 DEF OneAck, One
  <2>4. Cardinality(Acks(log[a])) <= 1
    BY <2>3
  <2>5. \A i \in 1..(Len(log[a]) - 1) : Follows(log[a][i], log[a][i + 1])
    BY <2>1 DEF Chain
  <2> QED BY <2>4, <2>5
<1>4. TypeOK /\ AllStories => OwnerIsOnRecord
  <2> SUFFICES ASSUME TypeOK, AllStories, NEW a \in Alerts, row[a].state \in Active
               PROVE  {o \in Operators : row[a].owner = o} = {log[a][i].by : i \in Acks(log[a])}
    BY DEF OwnerIsOnRecord, Acks, EpisodeOf, Episode
  <2>1. Owned(row[a], log[a]) /\ row[a].owner \in Operators \cup {None} /\ None \notin Operators
    BY AlertInboxAssumption DEF AllStories, Story, TypeOK, Rows
  <2> QED BY <2>1 DEF Owned
<1>5. IInv /\ AllStories /\ AllInPlace => InboxIsTrue
  BY <1>2, <1>3, <1>4, PlacesCount DEF InboxIsTrue
<1> QED BY <1>1, <1>5, InitIInv, NextIInv, StoryStep, PlaceStep, PTL DEF Spec

-----------------------------------------------------------------------------
(***************************************************************************)
(* The operations briefing.  The invariant has three parts.  The marks are *)
(* counted: what is announced and what is marked does not exceed what has  *)
(* changed.  What a run has found out is current until somebody stirs, and *)
(* whoever stirs comes to wake the worker.  And the receipts that may      *)
(* still be made for what has happened are owed one by one: each step that *)
(* makes a receipt pays one, and only changes and days gone by owe more.   *)
(***************************************************************************)

BriefingSources == [cat : Cats, detail : 0..MaxChanges]

BriefingConstants ==
    /\ None \notin Cats /\ None \notin BriefingSources /\ IsFiniteSet(Notifiers)
    /\ MaxChanges \in Nat /\ MaxRefreshes \in Nat /\ MaxRestarts \in Nat

BriefingNotes ==
    [pc : {"idle", "read", "mark", "force", "wake"}, force : BOOLEAN, count : 0..MaxChanges]
BriefingStages ==
    {"begin", "force", "collect", "publish", "decide", "check", "clear", "unforce", "wait", "retry"}

BriefingTyped ==
    /\ truth \in BriefingSources
    /\ fp \in Cats \cup {None}
    /\ pending \in BOOLEAN /\ forced \in BOOLEAN /\ failed \in BOOLEAN /\ wake \in BOOLEAN
    /\ receipt \in BriefingSources \cup {None} /\ receiptAge \in {"new", "settled", "old"}
    /\ note \in [Notifiers -> BriefingNotes]
    /\ work \in [pc : BriefingStages, count : 0..MaxChanges, force : BOOLEAN,
                 seen : BriefingSources \cup {None}]
    /\ changes \in 0..MaxChanges /\ refreshes \in 0..MaxRefreshes /\ restarts \in 0..MaxRestarts
    /\ made \in Nat

(* Announcements that have not marked, or not forced, the briefing yet. *)
Unmarked == {n \in Notifiers : note[n].pc \in {"read", "mark"}}
Unforced == {n \in Notifiers : note[n].force /\ note[n].pc \in {"read", "mark", "force"}}

(* Each mark was a change, and so was each detail; who forces was asked to. *)
MarksAreChanges ==
    /\ truth.detail <= changes
    /\ count \in 0..MaxChanges /\ count + Cardinality(Unmarked) <= changes
    /\ \A n \in Notifiers :
          /\ note[n].pc = "mark" => note[n].count + Cardinality(Unmarked) <= changes
          /\ note[n].pc = "force" => note[n].force

(* Somebody is about to wake the worker, or has. *)
Stir == wake \/ \E n \in Notifiers : note[n].pc # "idle"

Collected == work.pc \in {"publish", "decide", "check", "clear", "unforce"}

(* What a run has found out stays true, until somebody stirs. *)
RunIsCurrent ==
    /\ Collected => work.seen # None /\ (work.seen.cat = truth.cat \/ Stir)
    /\ work.pc \in {"check", "clear", "unforce"} =>
          receipt # None /\ receipt.cat = work.seen.cat
    /\ work.pc \in {"force", "collect", "publish", "decide", "check"} =>
          count = work.count \/ Stir
    /\ work.pc = "unforce" => ~pending \/ Stir
    /\ work.pc = "wait" /\ ~failed =>
          Stir \/ (~pending /\ receipt # None /\ receipt.cat = truth.cat)
    /\ work.force /\ work.pc \in {"collect", "publish", "decide", "check", "clear", "unforce"} => forced

Bit(b) == IF b THEN 1 ELSE 0

(* Receipts that may still be made for what has happened. *)
OwedFirst == Bit(receipt = None)
OwedAge == Bit(receiptAge = "old")
OwedCat ==
    IF work.pc \in {"publish", "decide"}
    THEN Bit(truth.cat # work.seen.cat) + Bit(receipt # None /\ receipt.cat # work.seen.cat)
    ELSE Bit(receipt # None /\ receipt.cat # truth.cat)
OwedForce ==
    IF work.force /\ work.pc = "check" THEN Bit(count # work.count)
    ELSE IF work.force /\ work.pc \in {"clear", "unforce"} THEN 0
    ELSE Bit(forced) + Bit(work.pc \in {"force", "collect", "publish", "decide"} /\ count # work.count)

Owed ==
    OwedFirst + OwedAge + OwedCat + OwedForce + Cardinality(Unmarked) + Cardinality(Unforced)

ReceiptsAreOwed == made + Owed <= 1 + 2 * changes + refreshes

BriefingInv == BriefingTyped /\ MarksAreChanges /\ RunIsCurrent /\ ReceiptsAreOwed

(* What is assumed of the constants. *)
LEMMA BriefingConstantsHold == BriefingConstants
<1>1. IsFiniteSet(Notifiers)
  BY BriefingAssumption DEF Briefing!OperationsBriefingAssumption, Briefing!IsFiniteSet, IsFiniteSet
<1>2. {MaxChanges, MaxRefreshes, MaxRestarts} \subseteq Nat /\ None \notin Cats /\ None \notin BriefingSources
  BY BriefingAssumption DEF Briefing!OperationsBriefingAssumption, Briefing!Sources, BriefingSources
<1>3. MaxChanges \in Nat /\ MaxRefreshes \in Nat /\ MaxRestarts \in Nat
  BY <1>2
<1> QED  BY <1>1, <1>2, <1>3 DEF BriefingConstants

(* One element comes, goes or stays. *)
LEMMA OneMoves ==
    ASSUME NEW S, IsFiniteSet(S), NEW n, NEW b \in BOOLEAN, NEW T,
           T = IF b THEN S \cup {n} ELSE S \ {n}
    PROVE  /\ IsFiniteSet(T) /\ Cardinality(S) \in Nat /\ Cardinality(T) \in Nat
           /\ Cardinality(T) = Cardinality(S) + Bit(b) - Bit(n \in S)
<1>0. Cardinality(S) \in Nat
  BY FS_CardinalityType
<1>1. CASE b /\ n \in S
  <2>1. T = S
    BY <1>1
  <2> QED  BY <1>0, <1>1, <2>1 DEF Bit
<1>2. CASE b /\ n \notin S
  <2>1. T = S \cup {n}
    BY <1>2
  <2>2. IsFiniteSet(T) /\ Cardinality(T) = Cardinality(S) + 1
    BY <1>2, <2>1, FS_AddElement
  <2> QED  BY <1>0, <1>2, <2>2 DEF Bit
<1>3. CASE ~b /\ n \in S
  <2>1. T = S \ {n}
    BY <1>3
  <2>2. IsFiniteSet(T) /\ Cardinality(T) = Cardinality(S) - 1
    BY <1>3, <2>1, FS_RemoveElement
  <2>3. Cardinality(T) \in Nat
    BY <2>2, FS_CardinalityType
  <2> QED  BY <1>0, <1>3, <2>2, <2>3 DEF Bit
<1>4. CASE ~b /\ n \notin S
  <2>1. T = S
    BY <1>4
  <2> QED  BY <1>0, <1>4, <2>1 DEF Bit
<1> QED  BY <1>1, <1>2, <1>3, <1>4

(* There are finitely many announcements. *)
LEMMA NotesAreFinite ==
    /\ IsFiniteSet(Unmarked) /\ IsFiniteSet(Unforced)
    /\ Cardinality(Unmarked) \in Nat /\ Cardinality(Unforced) \in Nat
<1>1. Unmarked \subseteq Notifiers /\ Unforced \subseteq Notifiers
  BY DEF Unmarked, Unforced
<1>2. IsFiniteSet(Notifiers)
  BY BriefingConstantsHold DEF BriefingConstants
<1>3. IsFiniteSet(Unmarked) /\ IsFiniteSet(Unforced)
  BY <1>1, <1>2, FS_Subset
<1> QED  BY <1>3, FS_CardinalityType

(* How the numbers of announcements change when one of them moves. *)
LEMMA NotesMove ==
    ASSUME BriefingTyped, NEW n \in Notifiers, NEW v \in BriefingNotes,
           note' = [note EXCEPT ![n] = v]
    PROVE  /\ Cardinality(Unmarked') \in Nat /\ Cardinality(Unforced') \in Nat
           /\ Cardinality(Unmarked') = Cardinality(Unmarked)
                 + Bit(v.pc \in {"read", "mark"}) - Bit(note[n].pc \in {"read", "mark"})
           /\ Cardinality(Unforced') = Cardinality(Unforced)
                 + Bit(v.force /\ v.pc \in {"read", "mark", "force"})
                 - Bit(note[n].force /\ note[n].pc \in {"read", "mark", "force"})
           /\ \A m \in Notifiers : m # n => note'[m] = note[m]
           /\ note'[n] = v /\ note' \in [Notifiers -> BriefingNotes]
<1>1. note \in [Notifiers -> BriefingNotes]
  BY DEF BriefingTyped
<1>2. /\ \A m \in Notifiers : m # n => note'[m] = note[m]
      /\ note'[n] = v /\ note' \in [Notifiers -> BriefingNotes]
  BY <1>1
<1>a. PICK a \in BOOLEAN : a <=> v.pc \in {"read", "mark"}
  OBVIOUS
<1>b. PICK b \in BOOLEAN : b <=> v.force /\ v.pc \in {"read", "mark", "force"}
  OBVIOUS
<1>S. PICK S : S = Unmarked
  OBVIOUS
<1>T. PICK T : T = Unmarked'
  OBVIOUS
<1>P. PICK P : P = Unforced
  OBVIOUS
<1>Q. PICK Q : Q = Unforced'
  OBVIOUS
<1>3. T = (IF a THEN S \cup {n} ELSE S \ {n}) /\ (n \in S <=> note[n].pc \in {"read", "mark"})
  BY <1>2, <1>a, <1>S, <1>T DEF Unmarked
<1>4. Q = (IF b THEN P \cup {n} ELSE P \ {n})
      /\ (n \in P <=> note[n].force /\ note[n].pc \in {"read", "mark", "force"})
  BY <1>2, <1>b, <1>P, <1>Q DEF Unforced
<1>5. IsFiniteSet(S) /\ IsFiniteSet(P)
  BY NotesAreFinite, <1>S, <1>P
<1>6. /\ Cardinality(T) \in Nat
      /\ Cardinality(T) = Cardinality(S) + Bit(a) - Bit(n \in S)
  BY <1>3, <1>5, OneMoves
<1>7. /\ Cardinality(Q) \in Nat
      /\ Cardinality(Q) = Cardinality(P) + Bit(b) - Bit(n \in P)
  BY <1>4, <1>5, OneMoves
<1>8. Bit(a) = Bit(v.pc \in {"read", "mark"}) /\ Bit(n \in S) = Bit(note[n].pc \in {"read", "mark"})
  BY <1>3, <1>a DEF Bit
<1>9. /\ Bit(b) = Bit(v.force /\ v.pc \in {"read", "mark", "force"})
      /\ Bit(n \in P) = Bit(note[n].force /\ note[n].pc \in {"read", "mark", "force"})
  BY <1>4, <1>b DEF Bit
<1> QED  BY <1>2, <1>6, <1>7, <1>8, <1>9, <1>S, <1>T, <1>P, <1>Q

(* Initially. *)
LEMMA BriefingInvInit == Briefing!Init => BriefingInv
<1> SUFFICES ASSUME Briefing!Init PROVE BriefingInv
  OBVIOUS
<1>1. /\ truth \in BriefingSources /\ truth.detail = 0
      /\ fp = None /\ pending = FALSE /\ forced = FALSE /\ count = 0 /\ failed = FALSE
      /\ wake = FALSE /\ receipt = None /\ receiptAge = "new"
      /\ note = [n \in Notifiers |-> [pc |-> "idle", force |-> FALSE, count |-> 0]]
      /\ work = [pc |-> "begin", count |-> 0, force |-> FALSE, seen |-> None]
      /\ made = 0 /\ changes = 0 /\ refreshes = 0 /\ restarts = 0
  BY BriefingConstantsHold DEF BriefingConstants, Briefing!Init, Briefing!NoNote, Briefing!NoWork,
     BriefingSources
<1>0. 0 \in 0..MaxChanges /\ 0 \in 0..MaxRefreshes /\ 0 \in 0..MaxRestarts
  BY BriefingConstantsHold DEF BriefingConstants
<1>n. note \in [Notifiers -> BriefingNotes]
  BY <1>1, <1>0 DEF BriefingNotes
<1>w. work \in [pc : BriefingStages, count : 0..MaxChanges, force : BOOLEAN,
                seen : BriefingSources \cup {None}]
  BY <1>1, <1>0 DEF BriefingStages
<1>2. BriefingTyped
  BY <1>1, <1>0, <1>n, <1>w DEF BriefingTyped
<1>3. Unmarked = {} /\ Unforced = {}
  BY <1>1 DEF Unmarked, Unforced
<1>4. Cardinality(Unmarked) = 0 /\ Cardinality(Unforced) = 0
  BY <1>3, FS_EmptySet
<1>5. MarksAreChanges
  BY <1>1, <1>4, BriefingConstantsHold DEF BriefingConstants, MarksAreChanges
<1>6. RunIsCurrent
  BY <1>1 DEF RunIsCurrent, Collected
<1>7. ReceiptsAreOwed
  BY <1>1, <1>4 DEF ReceiptsAreOwed, Owed, OwedFirst, OwedAge, OwedCat, OwedForce, Bit
<1> QED  BY <1>2, <1>5, <1>6, <1>7 DEF BriefingInv

(* What is owed is a sum of small parts, now and after a step. *)
LEMMA OwedParts ==
    /\ OwedFirst \in {0, 1} /\ OwedAge \in {0, 1} /\ OwedCat \in 0..2 /\ OwedForce \in 0..2
    /\ Cardinality(Unmarked) \in Nat /\ Cardinality(Unforced) \in Nat
    /\ Owed \in Nat
<1>1. OwedFirst \in {0, 1} /\ OwedAge \in {0, 1}
  BY DEF OwedFirst, OwedAge, Bit
<1>2. \A b, c : Bit(b) + Bit(c) \in 0..2 /\ Bit(b) \in 0..2
  BY DEF Bit
<1>3. OwedCat \in 0..2
  BY <1>2 DEF OwedCat
<1>4. OwedForce \in 0..2
  BY <1>2 DEF OwedForce
<1> QED  BY <1>1, <1>3, <1>4, NotesAreFinite DEF Owed

LEMMA OwedPartsNext ==
    /\ OwedFirst' \in {0, 1} /\ OwedAge' \in {0, 1} /\ OwedCat' \in 0..2 /\ OwedForce' \in 0..2
    /\ Cardinality(Unmarked)' \in Nat /\ Cardinality(Unforced)' \in Nat
    /\ Owed' \in Nat
<1>1. OwedFirst' \in {0, 1} /\ OwedAge' \in {0, 1}
  BY DEF OwedFirst, OwedAge, Bit
<1>2. \A b, c : Bit(b) + Bit(c) \in 0..2 /\ Bit(b) \in 0..2
  BY DEF Bit
<1>3. OwedCat' \in 0..2
  BY <1>2 DEF OwedCat
<1>4. OwedForce' \in 0..2
  BY <1>2 DEF OwedForce
<1>5. Unmarked' \subseteq Notifiers /\ Unforced' \subseteq Notifiers
  BY DEF Unmarked, Unforced
<1>6. IsFiniteSet(Notifiers)
  BY BriefingConstantsHold DEF BriefingConstants
<1>7. IsFiniteSet(Unmarked') /\ IsFiniteSet(Unforced')
  BY <1>5, <1>6, FS_Subset
<1>8. Cardinality(Unmarked') \in Nat /\ Cardinality(Unforced') \in Nat
  BY <1>7, FS_CardinalityType
<1> QED  BY <1>1, <1>3, <1>4, <1>8 DEF Owed

(* Arithmetic, apart from the state. *)
LEMMA BoundMoves ==
    ASSUME NEW a \in Nat, NEW b \in Nat, NEW c \in Nat, NEW o \in Nat, NEW p \in Nat,
           NEW x \in Nat, NEW y \in Nat, NEW m \in Nat, NEW d \in Nat,
           2 * x + y = 2 * b + c + d, p + m <= o + d, a + o <= 1 + 2 * b + c
    PROVE  (a + m) + p <= 1 + 2 * x + y
OBVIOUS

LEMMA SumMoves ==
    ASSUME NEW a \in Nat, NEW b \in Nat, NEW c \in Nat, NEW d \in Nat, NEW e \in Nat, NEW f \in Nat,
           NEW a1 \in Nat, NEW b1 \in Nat, NEW c1 \in Nat, NEW d1 \in Nat, NEW m \in Nat,
           a1 + b1 + c1 + d1 + m <= a + b + c + d
    PROVE  (a1 + b1 + c1 + d1 + e + f) + m <= (a + b + c + d + e + f) + 0
OBVIOUS

(* What is owed and what is made may only grow with their bound. *)
LEMMA OwedMoves ==
    ASSUME ReceiptsAreOwed, BriefingTyped, NEW d \in 0..2, NEW m \in 0..1,
           changes' \in Nat, refreshes' \in Nat,
           2 * changes' + refreshes' = 2 * changes + refreshes + d,
           made' = made + m, Owed' + m <= Owed + d
    PROVE  ReceiptsAreOwed'
<1>1. changes \in Nat /\ refreshes \in Nat /\ made \in Nat
  BY BriefingConstantsHold DEF BriefingConstants, BriefingTyped
<1>2. PICK o : o = Owed
  OBVIOUS
<1>3. PICK p : p = Owed'
  OBVIOUS
<1>4. o \in Nat /\ p \in Nat
  BY OwedParts, OwedPartsNext, <1>2, <1>3
<1>5. made + o <= 1 + 2 * changes + refreshes
  BY <1>2 DEF ReceiptsAreOwed
<1>6. p + m <= o + d
  BY <1>2, <1>3
<1>7. made' + p <= 1 + 2 * changes' + refreshes'
  <2>1. d \in Nat /\ m \in Nat
    OBVIOUS
  <2>2. PICK x \in Nat : x = changes'
    OBVIOUS
  <2>3. PICK y \in Nat : y = refreshes'
    OBVIOUS
  <2>4. PICK a \in Nat : a = made
    BY <1>1
  <2>5. PICK b \in Nat : b = changes
    BY <1>1
  <2>6. PICK c \in Nat : c = refreshes
    BY <1>1
  <2>7. 2 * x + y = 2 * b + c + d
    BY <2>2, <2>3, <2>5, <2>6
  <2>8. a + o <= 1 + 2 * b + c
    BY <1>5, <2>4, <2>5, <2>6
  <2>9. (a + m) + p <= 1 + 2 * x + y
    BY <1>4, <1>6, <2>1, <2>7, <2>8, BoundMoves
  <2> QED  BY <2>2, <2>3, <2>4, <2>9
<1> QED  BY <1>3, <1>7 DEF ReceiptsAreOwed

(* A step of the worker, or of time, alone. *)
LEMMA NotesStay ==
    ASSUME note' = note
    PROVE  Unmarked' = Unmarked /\ Unforced' = Unforced
BY DEF Unmarked, Unforced

LEMMA MarksStay ==
    ASSUME MarksAreChanges, note' = note, count' = count, changes' = changes, truth' = truth
    PROVE  MarksAreChanges'
BY NotesStay DEF MarksAreChanges

(* The sums, part by part. *)
LEMMA OwedStays ==
    ASSUME ReceiptsAreOwed, BriefingTyped, note' = note,
           UNCHANGED <<changes, refreshes>>, NEW m \in 0..1, made' = made + m,
           OwedFirst' + OwedAge' + OwedCat' + OwedForce' + m
              <= OwedFirst + OwedAge + OwedCat + OwedForce
    PROVE  ReceiptsAreOwed'
<1>1. Unmarked' = Unmarked /\ Unforced' = Unforced
  BY NotesStay
<1>2. Owed' + m <= Owed + 0
  <2>1. /\ OwedFirst \in Nat /\ OwedAge \in Nat /\ OwedCat \in Nat /\ OwedForce \in Nat
        /\ OwedFirst' \in Nat /\ OwedAge' \in Nat /\ OwedCat' \in Nat /\ OwedForce' \in Nat
        /\ m \in Nat /\ Cardinality(Unmarked) \in Nat /\ Cardinality(Unforced) \in Nat
    BY OwedParts, OwedPartsNext
  <2>2. Cardinality(Unmarked') = Cardinality(Unmarked) /\ Cardinality(Unforced') = Cardinality(Unforced)
    BY <1>1
  <2>3. OwedFirst' + OwedAge' + OwedCat' + OwedForce' + Cardinality(Unmarked) + Cardinality(Unforced) + m
          <= (OwedFirst + OwedAge + OwedCat + OwedForce + Cardinality(Unmarked) + Cardinality(Unforced)) + 0
    BY <2>1, SumMoves
  <2> QED  BY <2>2, <2>3 DEF Owed
<1>3. changes \in Nat /\ refreshes \in Nat
  BY BriefingConstantsHold DEF BriefingConstants, BriefingTyped
<1>4. 2 * changes' + refreshes' = 2 * changes + refreshes + 0
  BY <1>3
<1>5. changes' \in Nat /\ refreshes' \in Nat /\ 0 \in 0..2
  BY <1>3
<1> QED  BY <1>2, <1>4, <1>5, OwedMoves

(* Sums of parts. *)
LEMMA PartsMove ==
    ASSUME NEW a \in Nat, NEW b \in Nat, NEW c \in Nat, NEW d \in Nat,
           NEW a1 \in Nat, NEW b1 \in Nat, NEW c1 \in Nat, NEW d1 \in Nat,
           a1 = a, b1 = b, c1 <= c, d1 <= d
    PROVE  a1 + b1 + c1 + d1 + 0 <= a + b + c + d
OBVIOUS

BriefingTurns ==
    [pc : BriefingStages, count : 0..MaxChanges, force : BOOLEAN, seen : BriefingSources \cup {None}]

(* A turn of the worker: it writes the marks, the event and the receipt. *)
LEMMA TurnsKeepBriefing ==
    ASSUME BriefingInv, work' \in BriefingTurns,
           UNCHANGED <<truth, count, note, changes, refreshes, restarts>>,
           fp' \in Cats \cup {None}, pending' \in BOOLEAN, forced' \in BOOLEAN, failed' \in BOOLEAN,
           wake' \in BOOLEAN, receipt' \in BriefingSources \cup {None},
           receiptAge' \in {"new", "settled", "old"}, NEW m \in 0..1, made' = made + m,
           RunIsCurrent',
           OwedFirst' + OwedAge' + OwedCat' + OwedForce' + m
              <= OwedFirst + OwedAge + OwedCat + OwedForce
    PROVE  BriefingInv'
<1>0. BriefingTyped /\ MarksAreChanges /\ ReceiptsAreOwed
  BY DEF BriefingInv
<1>1. made \in Nat
  BY <1>0 DEF BriefingTyped
<1>2. made' \in Nat
  BY <1>1
<1>T. BriefingTyped'
  BY <1>0, <1>2 DEF BriefingTyped, BriefingTurns
<1>M. MarksAreChanges'
  BY <1>0, MarksStay
<1>O. ReceiptsAreOwed'
  BY <1>0, OwedStays
<1> QED  BY <1>T, <1>M, <1>O DEF BriefingInv

(* The turns of the worker, one by one. *)
LEMMA BriefingWoken == BriefingInv /\ Briefing!Woken => BriefingInv'
<1> SUFFICES ASSUME BriefingInv, Briefing!Woken PROVE BriefingInv'
  OBVIOUS
<1>0. BriefingTyped /\ MarksAreChanges /\ RunIsCurrent
  BY DEF BriefingInv
<1>1. /\ work.pc \in {"wait", "retry"} /\ wake /\ wake' = FALSE
      /\ work' = [work EXCEPT !.pc = "begin"]
      /\ UNCHANGED <<truth, count, note, changes, refreshes, restarts, fp, pending, forced, failed, receipt, receiptAge, made>>
  BY DEF Briefing!Woken, Briefing!At, Briefing!Goto, Briefing!runtime, Briefing!marks, Briefing!store, Briefing!bounds, Briefing!Waiting
<1>2. /\ work' \in BriefingTurns
      /\ work'.pc = "begin" /\ work'.count = work.count /\ work'.force = work.force /\ work'.seen = work.seen
  BY <1>0, <1>1 DEF BriefingTyped, MarksAreChanges, BriefingTurns, BriefingStages
<1>R. RunIsCurrent'
  BY <1>0, <1>1, <1>2, BriefingConstantsHold
     DEF RunIsCurrent, Collected, Stir, BriefingTyped, BriefingConstants
<1>3. OwedFirst' + OwedAge' + OwedCat' + OwedForce' + 0 <= OwedFirst + OwedAge + OwedCat + OwedForce
  <2>1. OwedFirst' = OwedFirst /\ OwedAge' = OwedAge /\ OwedCat' = OwedCat /\ OwedForce' = OwedForce
    BY <1>1, <1>2 DEF OwedFirst, OwedAge, OwedCat, OwedForce
  <2> QED  BY <2>1, OwedParts
<1>4. made' = made + 0 /\ 0 \in 0..1
  BY <1>0, <1>1 DEF BriefingTyped
<1> QED  BY <1>0, <1>1, <1>2, <1>R, <1>3, <1>4, TurnsKeepBriefing DEF BriefingTyped

LEMMA BriefingTimedOut == BriefingInv /\ Briefing!TimedOut => BriefingInv'
<1> SUFFICES ASSUME BriefingInv, Briefing!TimedOut PROVE BriefingInv'
  OBVIOUS
<1>0. BriefingTyped /\ MarksAreChanges /\ RunIsCurrent
  BY DEF BriefingInv
<1>1. /\ work.pc \in {"wait", "retry"}
      /\ work' = [work EXCEPT !.pc = "begin"]
      /\ UNCHANGED <<truth, count, note, changes, refreshes, restarts, fp, pending, forced, failed, wake, receipt, receiptAge, made>>
  BY DEF Briefing!TimedOut, Briefing!At, Briefing!Goto, Briefing!runtime, Briefing!marks, Briefing!store, Briefing!bounds, Briefing!Waiting
<1>2. /\ work' \in BriefingTurns
      /\ work'.pc = "begin" /\ work'.count = work.count /\ work'.force = work.force /\ work'.seen = work.seen
  BY <1>0, <1>1 DEF BriefingTyped, MarksAreChanges, BriefingTurns, BriefingStages
<1>R. RunIsCurrent'
  BY <1>0, <1>1, <1>2, BriefingConstantsHold
     DEF RunIsCurrent, Collected, Stir, BriefingTyped, BriefingConstants
<1>3. OwedFirst' + OwedAge' + OwedCat' + OwedForce' + 0 <= OwedFirst + OwedAge + OwedCat + OwedForce
  <2>1. OwedFirst' = OwedFirst /\ OwedAge' = OwedAge /\ OwedCat' = OwedCat /\ OwedForce' = OwedForce
    BY <1>1, <1>2 DEF OwedFirst, OwedAge, OwedCat, OwedForce
  <2> QED  BY <2>1, OwedParts
<1>4. made' = made + 0 /\ 0 \in 0..1
  BY <1>0, <1>1 DEF BriefingTyped
<1> QED  BY <1>0, <1>1, <1>2, <1>R, <1>3, <1>4, TurnsKeepBriefing DEF BriefingTyped

LEMMA BriefingBegin == BriefingInv /\ Briefing!Begin => BriefingInv'
<1> SUFFICES ASSUME BriefingInv, Briefing!Begin PROVE BriefingInv'
  OBVIOUS
<1>0. BriefingTyped /\ MarksAreChanges /\ RunIsCurrent
  BY DEF BriefingInv
<1>1. /\ work.pc = "begin"
      /\ work' = [work EXCEPT !.pc = "force", !.count = count]
      /\ UNCHANGED <<truth, count, note, changes, refreshes, restarts, fp, pending, forced, failed, wake, receipt, receiptAge, made>>
  BY DEF Briefing!Begin, Briefing!At, Briefing!Goto, Briefing!runtime, Briefing!marks, Briefing!store, Briefing!bounds
<1>2. /\ work' \in BriefingTurns
      /\ work'.pc = "force" /\ work'.count = count /\ work'.force = work.force /\ work'.seen = work.seen
  BY <1>0, <1>1 DEF BriefingTyped, MarksAreChanges, BriefingTurns, BriefingStages
<1>R. RunIsCurrent'
  BY <1>0, <1>1, <1>2, BriefingConstantsHold
     DEF RunIsCurrent, Collected, Stir, BriefingTyped, BriefingConstants
<1>3. OwedFirst' + OwedAge' + OwedCat' + OwedForce' + 0 <= OwedFirst + OwedAge + OwedCat + OwedForce
  <2>1. OwedFirst' = OwedFirst /\ OwedAge' = OwedAge
    BY <1>1, <1>2 DEF OwedFirst, OwedAge
  <2>2. OwedCat' <= OwedCat
    BY <1>0, <1>1, <1>2 DEF OwedCat, Bit, RunIsCurrent, Collected
  <2>3. OwedForce' <= OwedForce
    BY <1>0, <1>1, <1>2 DEF OwedForce, Bit, RunIsCurrent, Collected
  <2>4. /\ OwedFirst \in Nat /\ OwedAge \in Nat /\ OwedCat \in Nat /\ OwedForce \in Nat
        /\ OwedFirst' \in Nat /\ OwedAge' \in Nat /\ OwedCat' \in Nat /\ OwedForce' \in Nat
    BY OwedParts, OwedPartsNext
  <2> QED  BY <2>1, <2>2, <2>3, <2>4, PartsMove
<1>4. made' = made + 0 /\ 0 \in 0..1
  BY <1>0, <1>1 DEF BriefingTyped
<1> QED  BY <1>0, <1>1, <1>2, <1>R, <1>3, <1>4, TurnsKeepBriefing DEF BriefingTyped

LEMMA BriefingReadForce == BriefingInv /\ Briefing!ReadForce => BriefingInv'
<1> SUFFICES ASSUME BriefingInv, Briefing!ReadForce PROVE BriefingInv'
  OBVIOUS
<1>0. BriefingTyped /\ MarksAreChanges /\ RunIsCurrent
  BY DEF BriefingInv
<1>1. /\ work.pc = "force"
      /\ work' = [work EXCEPT !.pc = "collect", !.force = forced]
      /\ UNCHANGED <<truth, count, note, changes, refreshes, restarts, fp, pending, forced, failed, wake, receipt, receiptAge, made>>
  BY DEF Briefing!ReadForce, Briefing!At, Briefing!Goto, Briefing!runtime, Briefing!marks, Briefing!store, Briefing!bounds
<1>2. /\ work' \in BriefingTurns
      /\ work'.pc = "collect" /\ work'.count = work.count /\ work'.force = forced /\ work'.seen = work.seen
  BY <1>0, <1>1 DEF BriefingTyped, MarksAreChanges, BriefingTurns, BriefingStages
<1>R. RunIsCurrent'
  BY <1>0, <1>1, <1>2, BriefingConstantsHold
     DEF RunIsCurrent, Collected, Stir, BriefingTyped, BriefingConstants
<1>3. OwedFirst' + OwedAge' + OwedCat' + OwedForce' + 0 <= OwedFirst + OwedAge + OwedCat + OwedForce
  <2>1. OwedFirst' = OwedFirst /\ OwedAge' = OwedAge
    BY <1>1, <1>2 DEF OwedFirst, OwedAge
  <2>2. OwedCat' <= OwedCat
    BY <1>0, <1>1, <1>2 DEF OwedCat, Bit, RunIsCurrent, Collected
  <2>3. OwedForce' <= OwedForce
    BY <1>0, <1>1, <1>2 DEF OwedForce, Bit, RunIsCurrent, Collected
  <2>4. /\ OwedFirst \in Nat /\ OwedAge \in Nat /\ OwedCat \in Nat /\ OwedForce \in Nat
        /\ OwedFirst' \in Nat /\ OwedAge' \in Nat /\ OwedCat' \in Nat /\ OwedForce' \in Nat
    BY OwedParts, OwedPartsNext
  <2> QED  BY <2>1, <2>2, <2>3, <2>4, PartsMove
<1>4. made' = made + 0 /\ 0 \in 0..1
  BY <1>0, <1>1 DEF BriefingTyped
<1> QED  BY <1>0, <1>1, <1>2, <1>R, <1>3, <1>4, TurnsKeepBriefing DEF BriefingTyped

LEMMA BriefingCollect == BriefingInv /\ Briefing!Collect => BriefingInv'
<1> SUFFICES ASSUME BriefingInv, Briefing!Collect PROVE BriefingInv'
  OBVIOUS
<1>0. BriefingTyped /\ MarksAreChanges /\ RunIsCurrent
  BY DEF BriefingInv
<1>1. /\ work.pc = "collect"
      /\ work' = [work EXCEPT !.pc = "publish", !.seen = truth]
      /\ UNCHANGED <<truth, count, note, changes, refreshes, restarts, fp, pending, forced, failed, wake, receipt, receiptAge, made>>
  BY DEF Briefing!Collect, Briefing!At, Briefing!Goto, Briefing!runtime, Briefing!marks, Briefing!store, Briefing!bounds
<1>2. /\ work' \in BriefingTurns
      /\ work'.pc = "publish" /\ work'.count = work.count /\ work'.force = work.force /\ work'.seen = truth
  BY <1>0, <1>1 DEF BriefingTyped, MarksAreChanges, BriefingTurns, BriefingStages
<1>R. RunIsCurrent'
  BY <1>0, <1>1, <1>2, BriefingConstantsHold
     DEF RunIsCurrent, Collected, Stir, BriefingTyped, BriefingConstants
<1>3. OwedFirst' + OwedAge' + OwedCat' + OwedForce' + 0 <= OwedFirst + OwedAge + OwedCat + OwedForce
  <2>1. OwedFirst' = OwedFirst /\ OwedAge' = OwedAge
    BY <1>1, <1>2 DEF OwedFirst, OwedAge
  <2>2. OwedCat' <= OwedCat
    BY <1>0, <1>1, <1>2 DEF OwedCat, Bit, RunIsCurrent, Collected
  <2>3. OwedForce' <= OwedForce
    BY <1>0, <1>1, <1>2 DEF OwedForce, Bit, RunIsCurrent, Collected
  <2>4. /\ OwedFirst \in Nat /\ OwedAge \in Nat /\ OwedCat \in Nat /\ OwedForce \in Nat
        /\ OwedFirst' \in Nat /\ OwedAge' \in Nat /\ OwedCat' \in Nat /\ OwedForce' \in Nat
    BY OwedParts, OwedPartsNext
  <2> QED  BY <2>1, <2>2, <2>3, <2>4, PartsMove
<1>4. made' = made + 0 /\ 0 \in 0..1
  BY <1>0, <1>1 DEF BriefingTyped
<1> QED  BY <1>0, <1>1, <1>2, <1>R, <1>3, <1>4, TurnsKeepBriefing DEF BriefingTyped

LEMMA BriefingPublish == BriefingInv /\ Briefing!Publish => BriefingInv'
<1> SUFFICES ASSUME BriefingInv, Briefing!Publish PROVE BriefingInv'
  OBVIOUS
<1>0. BriefingTyped /\ MarksAreChanges /\ RunIsCurrent
  BY DEF BriefingInv
<1>1. /\ work.pc = "publish" /\ fp' = work.seen.cat
      /\ work' = [work EXCEPT !.pc = "decide"]
      /\ UNCHANGED <<truth, count, note, changes, refreshes, restarts, pending, forced, failed, wake, receipt, receiptAge, made>>
  BY DEF Briefing!Publish, Briefing!At, Briefing!Goto, Briefing!runtime, Briefing!marks, Briefing!store, Briefing!bounds
<1>2. /\ work' \in BriefingTurns
      /\ work'.pc = "decide" /\ work'.count = work.count /\ work'.force = work.force /\ work'.seen = work.seen
  BY <1>0, <1>1 DEF BriefingTyped, MarksAreChanges, BriefingTurns, BriefingStages
<1>R. RunIsCurrent'
  BY <1>0, <1>1, <1>2, BriefingConstantsHold
     DEF RunIsCurrent, Collected, Stir, BriefingTyped, BriefingConstants
<1>3. OwedFirst' + OwedAge' + OwedCat' + OwedForce' + 0 <= OwedFirst + OwedAge + OwedCat + OwedForce
  <2>1. OwedFirst' = OwedFirst /\ OwedAge' = OwedAge
    BY <1>1, <1>2 DEF OwedFirst, OwedAge
  <2>2. OwedCat' <= OwedCat
    BY <1>0, <1>1, <1>2 DEF OwedCat, Bit, RunIsCurrent, Collected
  <2>3. OwedForce' <= OwedForce
    BY <1>0, <1>1, <1>2 DEF OwedForce, Bit, RunIsCurrent, Collected
  <2>4. /\ OwedFirst \in Nat /\ OwedAge \in Nat /\ OwedCat \in Nat /\ OwedForce \in Nat
        /\ OwedFirst' \in Nat /\ OwedAge' \in Nat /\ OwedCat' \in Nat /\ OwedForce' \in Nat
    BY OwedParts, OwedPartsNext
  <2> QED  BY <2>1, <2>2, <2>3, <2>4, PartsMove
<1>4. made' = made + 0 /\ 0 \in 0..1
  BY <1>0, <1>1 DEF BriefingTyped
<1> QED  BY <1>0, <1>1, <1>2, <1>R, <1>3, <1>4, TurnsKeepBriefing DEF BriefingTyped, RunIsCurrent, Collected, BriefingSources

LEMMA BriefingPostpone == BriefingInv /\ Briefing!Postpone => BriefingInv'
<1> SUFFICES ASSUME BriefingInv, Briefing!Postpone PROVE BriefingInv'
  OBVIOUS
<1>0. BriefingTyped /\ MarksAreChanges /\ RunIsCurrent
  BY DEF BriefingInv
<1>1. /\ work.pc = "decide" /\ ~work.force
      /\ pending' = TRUE /\ failed' = FALSE
      /\ work' = [work EXCEPT !.pc = "retry"]
      /\ UNCHANGED <<truth, count, note, changes, refreshes, restarts, fp, forced, wake, receipt, receiptAge, made>>
  BY DEF Briefing!Postpone, Briefing!At, Briefing!Goto, Briefing!runtime, Briefing!marks, Briefing!store, Briefing!bounds
<1>2. /\ work' \in BriefingTurns
      /\ work'.pc = "retry" /\ work'.count = work.count /\ work'.force = work.force /\ work'.seen = work.seen
  BY <1>0, <1>1 DEF BriefingTyped, MarksAreChanges, BriefingTurns, BriefingStages
<1>R. RunIsCurrent'
  BY <1>0, <1>1, <1>2, BriefingConstantsHold
     DEF RunIsCurrent, Collected, Stir, BriefingTyped, BriefingConstants
<1>3. OwedFirst' + OwedAge' + OwedCat' + OwedForce' + 0 <= OwedFirst + OwedAge + OwedCat + OwedForce
  <2>1. OwedFirst' = OwedFirst /\ OwedAge' = OwedAge
    BY <1>1, <1>2 DEF OwedFirst, OwedAge
  <2>2. OwedCat' <= OwedCat
    BY <1>0, <1>1, <1>2 DEF OwedCat, Bit, RunIsCurrent, Collected
  <2>3. OwedForce' <= OwedForce
    BY <1>0, <1>1, <1>2 DEF OwedForce, Bit, RunIsCurrent, Collected
  <2>4. /\ OwedFirst \in Nat /\ OwedAge \in Nat /\ OwedCat \in Nat /\ OwedForce \in Nat
        /\ OwedFirst' \in Nat /\ OwedAge' \in Nat /\ OwedCat' \in Nat /\ OwedForce' \in Nat
    BY OwedParts, OwedPartsNext
  <2> QED  BY <2>1, <2>2, <2>3, <2>4, PartsMove
<1>4. made' = made + 0 /\ 0 \in 0..1
  BY <1>0, <1>1 DEF BriefingTyped
<1> QED  BY <1>0, <1>1, <1>2, <1>R, <1>3, <1>4, TurnsKeepBriefing DEF BriefingTyped

LEMMA BriefingSkip == BriefingInv /\ Briefing!Skip => BriefingInv'
<1> SUFFICES ASSUME BriefingInv, Briefing!Skip PROVE BriefingInv'
  OBVIOUS
<1>0. BriefingTyped /\ MarksAreChanges /\ RunIsCurrent
  BY DEF BriefingInv
<1>1. /\ work.pc = "decide" /\ ~work.force /\ failed' = FALSE
      /\ receipt # None /\ receipt.cat = work.seen.cat
      /\ work' = [work EXCEPT !.pc = "check"]
      /\ UNCHANGED <<truth, count, note, changes, refreshes, restarts, fp, pending, forced, wake, receipt, receiptAge, made>>
  BY DEF Briefing!Skip, Briefing!At, Briefing!Goto, Briefing!runtime, Briefing!marks, Briefing!store, Briefing!bounds, Briefing!Due
<1>2. /\ work' \in BriefingTurns
      /\ work'.pc = "check" /\ work'.count = work.count /\ work'.force = work.force /\ work'.seen = work.seen
  BY <1>0, <1>1 DEF BriefingTyped, MarksAreChanges, BriefingTurns, BriefingStages
<1>R. RunIsCurrent'
  BY <1>0, <1>1, <1>2, BriefingConstantsHold
     DEF RunIsCurrent, Collected, Stir, BriefingTyped, BriefingConstants
<1>3. OwedFirst' + OwedAge' + OwedCat' + OwedForce' + 0 <= OwedFirst + OwedAge + OwedCat + OwedForce
  <2>1. OwedFirst' = OwedFirst /\ OwedAge' = OwedAge
    BY <1>1, <1>2 DEF OwedFirst, OwedAge
  <2>2. OwedCat' <= OwedCat
    BY <1>0, <1>1, <1>2 DEF OwedCat, Bit, RunIsCurrent, Collected
  <2>3. OwedForce' <= OwedForce
    BY <1>0, <1>1, <1>2 DEF OwedForce, Bit, RunIsCurrent, Collected
  <2>4. /\ OwedFirst \in Nat /\ OwedAge \in Nat /\ OwedCat \in Nat /\ OwedForce \in Nat
        /\ OwedFirst' \in Nat /\ OwedAge' \in Nat /\ OwedCat' \in Nat /\ OwedForce' \in Nat
    BY OwedParts, OwedPartsNext
  <2> QED  BY <2>1, <2>2, <2>3, <2>4, PartsMove
<1>4. made' = made + 0 /\ 0 \in 0..1
  BY <1>0, <1>1 DEF BriefingTyped
<1> QED  BY <1>0, <1>1, <1>2, <1>R, <1>3, <1>4, TurnsKeepBriefing DEF BriefingTyped

LEMMA BriefingFail == BriefingInv /\ Briefing!Fail => BriefingInv'
<1> SUFFICES ASSUME BriefingInv, Briefing!Fail PROVE BriefingInv'
  OBVIOUS
<1>0. BriefingTyped /\ MarksAreChanges /\ RunIsCurrent
  BY DEF BriefingInv
<1>1. /\ work.pc = "decide" /\ failed' = TRUE
      /\ work' = [work EXCEPT !.pc = "wait"]
      /\ UNCHANGED <<truth, count, note, changes, refreshes, restarts, fp, pending, forced, wake, receipt, receiptAge, made>>
  BY DEF Briefing!Fail, Briefing!At, Briefing!Goto, Briefing!runtime, Briefing!marks, Briefing!store, Briefing!bounds
<1>2. /\ work' \in BriefingTurns
      /\ work'.pc = "wait" /\ work'.count = work.count /\ work'.force = work.force /\ work'.seen = work.seen
  BY <1>0, <1>1 DEF BriefingTyped, MarksAreChanges, BriefingTurns, BriefingStages
<1>R. RunIsCurrent'
  BY <1>0, <1>1, <1>2, BriefingConstantsHold
     DEF RunIsCurrent, Collected, Stir, BriefingTyped, BriefingConstants
<1>3. OwedFirst' + OwedAge' + OwedCat' + OwedForce' + 0 <= OwedFirst + OwedAge + OwedCat + OwedForce
  <2>1. OwedFirst' = OwedFirst /\ OwedAge' = OwedAge
    BY <1>1, <1>2 DEF OwedFirst, OwedAge
  <2>2. OwedCat' <= OwedCat
    BY <1>0, <1>1, <1>2 DEF OwedCat, Bit, RunIsCurrent, Collected
  <2>3. OwedForce' <= OwedForce
    BY <1>0, <1>1, <1>2 DEF OwedForce, Bit, RunIsCurrent, Collected
  <2>4. /\ OwedFirst \in Nat /\ OwedAge \in Nat /\ OwedCat \in Nat /\ OwedForce \in Nat
        /\ OwedFirst' \in Nat /\ OwedAge' \in Nat /\ OwedCat' \in Nat /\ OwedForce' \in Nat
    BY OwedParts, OwedPartsNext
  <2> QED  BY <2>1, <2>2, <2>3, <2>4, PartsMove
<1>4. made' = made + 0 /\ 0 \in 0..1
  BY <1>0, <1>1 DEF BriefingTyped
<1> QED  BY <1>0, <1>1, <1>2, <1>R, <1>3, <1>4, TurnsKeepBriefing DEF BriefingTyped

LEMMA BriefingCheck == BriefingInv /\ Briefing!Check => BriefingInv'
<1> SUFFICES ASSUME BriefingInv, Briefing!Check PROVE BriefingInv'
  OBVIOUS
<1>0. BriefingTyped /\ MarksAreChanges /\ RunIsCurrent
  BY DEF BriefingInv
<1>1. /\ work.pc = "check"
      /\ IF count = work.count THEN work' = [work EXCEPT !.pc = "clear"] ELSE work' = [work EXCEPT !.pc = "wait"]
      /\ UNCHANGED <<truth, count, note, changes, refreshes, restarts, fp, pending, forced, failed, wake, receipt, receiptAge, made>>
  BY DEF Briefing!Check, Briefing!At, Briefing!Goto, Briefing!runtime, Briefing!marks, Briefing!store, Briefing!bounds
<1>2. /\ work' \in BriefingTurns
      /\ work'.pc = (IF count = work.count THEN "clear" ELSE "wait") /\ work'.count = work.count /\ work'.force = work.force /\ work'.seen = work.seen
  BY <1>0, <1>1 DEF BriefingTyped, MarksAreChanges, BriefingTurns, BriefingStages
<1>R. RunIsCurrent'
  BY <1>0, <1>1, <1>2, BriefingConstantsHold
     DEF RunIsCurrent, Collected, Stir, BriefingTyped, BriefingConstants
<1>3. OwedFirst' + OwedAge' + OwedCat' + OwedForce' + 0 <= OwedFirst + OwedAge + OwedCat + OwedForce
  <2>1. OwedFirst' = OwedFirst /\ OwedAge' = OwedAge
    BY <1>1, <1>2 DEF OwedFirst, OwedAge
  <2>2. OwedCat' <= OwedCat
    BY <1>0, <1>1, <1>2 DEF OwedCat, Bit, RunIsCurrent, Collected
  <2>3. OwedForce' <= OwedForce
    BY <1>0, <1>1, <1>2 DEF OwedForce, Bit, RunIsCurrent, Collected
  <2>4. /\ OwedFirst \in Nat /\ OwedAge \in Nat /\ OwedCat \in Nat /\ OwedForce \in Nat
        /\ OwedFirst' \in Nat /\ OwedAge' \in Nat /\ OwedCat' \in Nat /\ OwedForce' \in Nat
    BY OwedParts, OwedPartsNext
  <2> QED  BY <2>1, <2>2, <2>3, <2>4, PartsMove
<1>4. made' = made + 0 /\ 0 \in 0..1
  BY <1>0, <1>1 DEF BriefingTyped
<1> QED  BY <1>0, <1>1, <1>2, <1>R, <1>3, <1>4, TurnsKeepBriefing DEF BriefingTyped

LEMMA BriefingClear == BriefingInv /\ Briefing!Clear => BriefingInv'
<1> SUFFICES ASSUME BriefingInv, Briefing!Clear PROVE BriefingInv'
  OBVIOUS
<1>0. BriefingTyped /\ MarksAreChanges /\ RunIsCurrent
  BY DEF BriefingInv
<1>1. /\ work.pc = "clear" /\ pending' = FALSE
      /\ IF work.force THEN work' = [work EXCEPT !.pc = "unforce"] ELSE work' = [work EXCEPT !.pc = "wait"]
      /\ UNCHANGED <<truth, count, note, changes, refreshes, restarts, fp, forced, failed, wake, receipt, receiptAge, made>>
  BY DEF Briefing!Clear, Briefing!At, Briefing!Goto, Briefing!runtime, Briefing!marks, Briefing!store, Briefing!bounds
<1>2. /\ work' \in BriefingTurns
      /\ work'.pc = (IF work.force THEN "unforce" ELSE "wait") /\ work'.count = work.count /\ work'.force = work.force /\ work'.seen = work.seen
  BY <1>0, <1>1 DEF BriefingTyped, MarksAreChanges, BriefingTurns, BriefingStages
<1>R. RunIsCurrent'
  BY <1>0, <1>1, <1>2, BriefingConstantsHold
     DEF RunIsCurrent, Collected, Stir, BriefingTyped, BriefingConstants
<1>3. OwedFirst' + OwedAge' + OwedCat' + OwedForce' + 0 <= OwedFirst + OwedAge + OwedCat + OwedForce
  <2>1. OwedFirst' = OwedFirst /\ OwedAge' = OwedAge
    BY <1>1, <1>2 DEF OwedFirst, OwedAge
  <2>2. OwedCat' <= OwedCat
    BY <1>0, <1>1, <1>2 DEF OwedCat, Bit, RunIsCurrent, Collected
  <2>3. OwedForce' <= OwedForce
    BY <1>0, <1>1, <1>2 DEF OwedForce, Bit, RunIsCurrent, Collected
  <2>4. /\ OwedFirst \in Nat /\ OwedAge \in Nat /\ OwedCat \in Nat /\ OwedForce \in Nat
        /\ OwedFirst' \in Nat /\ OwedAge' \in Nat /\ OwedCat' \in Nat /\ OwedForce' \in Nat
    BY OwedParts, OwedPartsNext
  <2> QED  BY <2>1, <2>2, <2>3, <2>4, PartsMove
<1>4. made' = made + 0 /\ 0 \in 0..1
  BY <1>0, <1>1 DEF BriefingTyped
<1> QED  BY <1>0, <1>1, <1>2, <1>R, <1>3, <1>4, TurnsKeepBriefing DEF BriefingTyped

LEMMA BriefingUnforce == BriefingInv /\ Briefing!Unforce => BriefingInv'
<1> SUFFICES ASSUME BriefingInv, Briefing!Unforce PROVE BriefingInv'
  OBVIOUS
<1>0. BriefingTyped /\ MarksAreChanges /\ RunIsCurrent
  BY DEF BriefingInv
<1>1. /\ work.pc = "unforce" /\ forced' = FALSE
      /\ work' = [work EXCEPT !.pc = "wait"]
      /\ UNCHANGED <<truth, count, note, changes, refreshes, restarts, fp, pending, failed, wake, receipt, receiptAge, made>>
  BY DEF Briefing!Unforce, Briefing!At, Briefing!Goto, Briefing!runtime, Briefing!marks, Briefing!store, Briefing!bounds
<1>2. /\ work' \in BriefingTurns
      /\ work'.pc = "wait" /\ work'.count = work.count /\ work'.force = work.force /\ work'.seen = work.seen
  BY <1>0, <1>1 DEF BriefingTyped, MarksAreChanges, BriefingTurns, BriefingStages
<1>R. RunIsCurrent'
  BY <1>0, <1>1, <1>2, BriefingConstantsHold
     DEF RunIsCurrent, Collected, Stir, BriefingTyped, BriefingConstants
<1>3. OwedFirst' + OwedAge' + OwedCat' + OwedForce' + 0 <= OwedFirst + OwedAge + OwedCat + OwedForce
  <2>1. OwedFirst' = OwedFirst /\ OwedAge' = OwedAge
    BY <1>1, <1>2 DEF OwedFirst, OwedAge
  <2>2. OwedCat' <= OwedCat
    BY <1>0, <1>1, <1>2 DEF OwedCat, Bit, RunIsCurrent, Collected
  <2>3. OwedForce' <= OwedForce
    BY <1>0, <1>1, <1>2 DEF OwedForce, Bit, RunIsCurrent, Collected
  <2>4. /\ OwedFirst \in Nat /\ OwedAge \in Nat /\ OwedCat \in Nat /\ OwedForce \in Nat
        /\ OwedFirst' \in Nat /\ OwedAge' \in Nat /\ OwedCat' \in Nat /\ OwedForce' \in Nat
    BY OwedParts, OwedPartsNext
  <2> QED  BY <2>1, <2>2, <2>3, <2>4, PartsMove
<1>4. made' = made + 0 /\ 0 \in 0..1
  BY <1>0, <1>1 DEF BriefingTyped
<1> QED  BY <1>0, <1>1, <1>2, <1>R, <1>3, <1>4, TurnsKeepBriefing DEF BriefingTyped

LEMMA OneIsMade ==
    ASSUME NEW a \in Nat, NEW b \in Nat, NEW c \in Nat, NEW d \in Nat, NEW x \in Nat,
           NEW c1 \in Nat, NEW d1 \in Nat, c = c1 + x, d1 <= d,
           d1 + 1 = d \/ a = 1 \/ b = 1 \/ x = 1
    PROVE  0 + 0 + c1 + d1 + 1 <= a + b + c + d
OBVIOUS

LEMMA OneGrowsOld ==
    ASSUME NEW a \in Nat, NEW b \in Nat, NEW c \in Nat, NEW d \in Nat, NEW e \in Nat, NEW f \in Nat,
           NEW g \in Nat, NEW b1 \in Nat, b1 <= b + g
    PROVE  (a + b1 + c + d + e + f) + 0 <= (a + b + c + d + e + f) + g
OBVIOUS

(* A receipt that is made was owed: it was the first, or the old one did    *)
(* not report the category, or was a day old, or the mark forced it.        *)
LEMMA BriefingRecord == BriefingInv /\ Briefing!Record => BriefingInv'
<1> SUFFICES ASSUME BriefingInv, Briefing!Record PROVE BriefingInv'
  OBVIOUS
<1>0. BriefingTyped /\ MarksAreChanges /\ RunIsCurrent
  BY DEF BriefingInv
<1>1. /\ work.pc = "decide"
      /\ work.force \/ receipt = None \/ receipt.cat # work.seen.cat \/ receiptAge = "old"
      /\ receipt' = work.seen /\ receiptAge' = "new" /\ made' = made + 1 /\ failed' = FALSE
      /\ work' = [work EXCEPT !.pc = "check"]
      /\ UNCHANGED <<truth, count, note, changes, refreshes, restarts, fp, pending, forced, wake>>
  BY DEF Briefing!Record, Briefing!Due, Briefing!At, Briefing!Goto, Briefing!marks, Briefing!bounds
<1>2. /\ work' \in BriefingTurns
      /\ work'.pc = "check" /\ work'.count = work.count /\ work'.force = work.force
      /\ work'.seen = work.seen
  BY <1>0, <1>1 DEF BriefingTyped, BriefingTurns, BriefingStages
<1>3. work.seen \in BriefingSources /\ work.seen # None
  BY <1>0, <1>1 DEF BriefingTyped, RunIsCurrent, Collected
<1>R. RunIsCurrent'
  BY <1>0, <1>1, <1>2, <1>3 DEF RunIsCurrent, Collected, Stir, BriefingTyped
<1>4. OwedFirst' = 0 /\ OwedAge' = 0
  BY <1>1, <1>3 DEF OwedFirst, OwedAge, Bit
<1>5. /\ OwedCat' = Bit(truth.cat # work.seen.cat)
      /\ OwedCat = OwedCat' + Bit(receipt # None /\ receipt.cat # work.seen.cat)
  BY <1>1, <1>2, <1>3 DEF OwedCat, Bit
<1>6. OwedForce' <= OwedForce /\ (work.force => OwedForce' + 1 = OwedForce)
  BY <1>0, <1>1, <1>2 DEF OwedForce, Bit, RunIsCurrent
<1>7. work.force \/ OwedFirst = 1 \/ OwedAge = 1 \/ Bit(receipt # None /\ receipt.cat # work.seen.cat) = 1
  BY <1>1 DEF OwedFirst, OwedAge, Bit
<1>8. OwedForce' + 1 = OwedForce \/ OwedFirst = 1 \/ OwedAge = 1
      \/ Bit(receipt # None /\ receipt.cat # work.seen.cat) = 1
  BY <1>6, <1>7
<1>9. /\ OwedFirst \in Nat /\ OwedAge \in Nat /\ OwedCat \in Nat /\ OwedForce \in Nat
      /\ OwedCat' \in Nat /\ OwedForce' \in Nat
      /\ Bit(receipt # None /\ receipt.cat # work.seen.cat) \in Nat
  <2>1. Bit(receipt # None /\ receipt.cat # work.seen.cat) \in Nat
    BY DEF Bit
  <2> QED  BY <2>1, OwedParts, OwedPartsNext
<1>10. 0 + 0 + OwedCat' + OwedForce' + 1 <= OwedFirst + OwedAge + OwedCat + OwedForce
  <2>1. OwedCat = OwedCat' + Bit(receipt # None /\ receipt.cat # work.seen.cat)
    BY <1>5
  <2> QED  BY <1>6, <1>8, <1>9, <2>1, OneIsMade
<1>11. OwedFirst' + OwedAge' + OwedCat' + OwedForce' + 1 <= OwedFirst + OwedAge + OwedCat + OwedForce
  BY <1>4, <1>10
<1>12. 1 \in 0..1
  OBVIOUS
<1> QED  BY <1>0, <1>1, <1>2, <1>3, <1>R, <1>11, <1>12, TurnsKeepBriefing DEF BriefingTyped

(* A day gone by owes one. *)
LEMMA BriefingGrowOld == BriefingInv /\ Briefing!GrowOld => BriefingInv'
<1> SUFFICES ASSUME BriefingInv, Briefing!GrowOld PROVE BriefingInv'
  OBVIOUS
<1>0. BriefingTyped /\ MarksAreChanges /\ RunIsCurrent /\ ReceiptsAreOwed
  BY DEF BriefingInv
<1>1. /\ \/ receiptAge = "new" /\ receiptAge' = "settled" /\ refreshes' = refreshes
         \/ receiptAge = "settled" /\ receiptAge' = "old" /\ refreshes < MaxRefreshes
            /\ refreshes' = refreshes + 1
      /\ UNCHANGED <<truth, fp, pending, forced, count, failed, wake, receipt, note, work, made,
                     changes, restarts>>
  BY DEF Briefing!GrowOld, Briefing!runtime, Briefing!marks
<1>T. BriefingTyped'
  <2>1. refreshes' \in 0..MaxRefreshes
    BY <1>0, <1>1, BriefingConstantsHold DEF BriefingTyped, BriefingConstants
  <2> QED  BY <1>0, <1>1, <2>1 DEF BriefingTyped
<1>M. MarksAreChanges'
  BY <1>0, <1>1, MarksStay
<1>R. RunIsCurrent'
  BY <1>0, <1>1 DEF RunIsCurrent, Collected, Stir
<1>2. PICK d \in 0..1 : refreshes' = refreshes + d /\ (receiptAge' = "old" /\ receiptAge # "old" => d = 1)
  <2>1. refreshes \in Nat
    BY <1>0, BriefingConstantsHold DEF BriefingTyped, BriefingConstants
  <2>2. CASE receiptAge = "new"
    <3>1. refreshes' = refreshes + 0 /\ receiptAge' # "old" /\ 0 \in 0..1
      BY <1>1, <2>1, <2>2
    <3> QED  BY <3>1
  <2>3. CASE receiptAge # "new"
    <3>1. refreshes' = refreshes + 1 /\ 1 \in 0..1
      BY <1>1, <2>3
    <3> QED  BY <3>1
  <2> QED  BY <2>2, <2>3
<1>3. /\ OwedFirst' = OwedFirst /\ OwedCat' = OwedCat /\ OwedForce' = OwedForce
      /\ Unmarked' = Unmarked /\ Unforced' = Unforced
  BY <1>1 DEF OwedFirst, OwedCat, OwedForce, Unmarked, Unforced
<1>4. OwedAge' <= OwedAge + d
  BY <1>0, <1>1, <1>2 DEF OwedAge, Bit, BriefingTyped
<1>5. Owed' + 0 <= Owed + d
  <2>1. /\ OwedFirst \in Nat /\ OwedAge \in Nat /\ OwedCat \in Nat /\ OwedForce \in Nat
        /\ Cardinality(Unmarked) \in Nat /\ Cardinality(Unforced) \in Nat
        /\ OwedAge' \in Nat /\ d \in Nat
    BY OwedParts, OwedPartsNext
  <2>2. (OwedFirst + OwedAge' + OwedCat + OwedForce + Cardinality(Unmarked) + Cardinality(Unforced)) + 0
           <= (OwedFirst + OwedAge + OwedCat + OwedForce + Cardinality(Unmarked) + Cardinality(Unforced)) + d
    BY <1>4, <2>1, OneGrowsOld
  <2> QED  BY <1>3, <2>2 DEF Owed
<1>6. /\ changes' \in Nat /\ refreshes' \in Nat /\ d \in 0..2
      /\ 2 * changes' + refreshes' = 2 * changes + refreshes + d
      /\ made' = made + 0 /\ 0 \in 0..1
  <2>1. changes \in Nat /\ refreshes \in Nat /\ made \in Nat
    BY <1>0, BriefingConstantsHold DEF BriefingTyped, BriefingConstants
  <2>2. d \in Nat /\ d \in 0..2
    OBVIOUS
  <2>3. refreshes' = refreshes + d
    BY <1>2
  <2>4. changes' = changes /\ made' = made
    BY <1>1
  <2>5. \A x, y, z \in Nat : 2 * x + (y + z) = 2 * x + y + z
    OBVIOUS
  <2>6. 2 * changes + (refreshes + d) = 2 * changes + refreshes + d
    BY <2>1, <2>2, <2>5
  <2>7. 2 * changes' + refreshes' = 2 * changes + refreshes + d
    BY <2>3, <2>4, <2>6
  <2>8. made' = made + 0 /\ changes' \in Nat /\ refreshes' \in Nat
    BY <2>1, <2>2, <2>3, <2>4
  <2> QED  BY <2>2, <2>7, <2>8
<1>O. ReceiptsAreOwed'
  BY <1>0, <1>5, <1>6, OwedMoves
<1> QED  BY <1>T, <1>M, <1>R, <1>O DEF BriefingInv

(* A death forgets what was announced, and the next run collects. *)
LEMMA BriefingDie == BriefingInv /\ Briefing!Die => BriefingInv'
<1> SUFFICES ASSUME BriefingInv, Briefing!Die PROVE BriefingInv'
  OBVIOUS
<1>0. BriefingTyped /\ MarksAreChanges /\ RunIsCurrent /\ ReceiptsAreOwed
  BY DEF BriefingInv
<1>1. /\ restarts < MaxRestarts /\ restarts' = restarts + 1
      /\ fp' = None /\ pending' = FALSE /\ forced' = FALSE /\ count' = 0
      /\ failed' = FALSE /\ wake' = FALSE
      /\ note' = [n \in Notifiers |-> [pc |-> "idle", force |-> FALSE, count |-> 0]]
      /\ work' = [pc |-> "begin", count |-> 0, force |-> FALSE, seen |-> None]
      /\ UNCHANGED <<truth, receipt, receiptAge, made, changes, refreshes>>
  BY DEF Briefing!Die, Briefing!store, Briefing!NoNote, Briefing!NoWork
<1>2. 0 \in 0..MaxChanges /\ restarts' \in 0..MaxRestarts
  BY <1>0, <1>1, BriefingConstantsHold DEF BriefingTyped, BriefingConstants
<1>T. BriefingTyped'
  <2>1. note' \in [Notifiers -> BriefingNotes]
    BY <1>1, <1>2 DEF BriefingNotes
  <2>2. work' \in BriefingTurns
    BY <1>1, <1>2 DEF BriefingTurns, BriefingStages
  <2> QED  BY <1>0, <1>1, <1>2, <2>1, <2>2 DEF BriefingTyped, BriefingTurns
<1>3. Unmarked' = {} /\ Unforced' = {}
  BY <1>1 DEF Unmarked, Unforced
<1>4. Cardinality(Unmarked') = 0 /\ Cardinality(Unforced') = 0
  BY <1>3, FS_EmptySet
<1>M. MarksAreChanges'
  BY <1>0, <1>1, <1>2, <1>4, BriefingConstantsHold
     DEF MarksAreChanges, BriefingTyped, BriefingConstants, BriefingSources
<1>R. RunIsCurrent'
  BY <1>1 DEF RunIsCurrent, Collected
<1>5. OwedFirst' = OwedFirst /\ OwedAge' = OwedAge /\ OwedForce' = 0
  BY <1>1 DEF OwedFirst, OwedAge, OwedForce, Bit
<1>6. OwedCat' <= OwedCat
  BY <1>0, <1>1 DEF OwedCat, Bit
<1>7. Owed' + 0 <= Owed + 0
  BY <1>4, <1>5, <1>6, OwedParts, OwedPartsNext DEF Owed
<1>8. /\ changes' \in Nat /\ refreshes' \in Nat /\ 0 \in 0..2 /\ 0 \in 0..1
      /\ 2 * changes' + refreshes' = 2 * changes + refreshes + 0
      /\ made' = made + 0
  BY <1>0, <1>1, BriefingConstantsHold DEF BriefingTyped, BriefingConstants
<1>O. ReceiptsAreOwed'
  BY <1>0, <1>7, <1>8, OwedMoves
<1> QED  BY <1>T, <1>M, <1>R, <1>O DEF BriefingInv

(* An announcement moves one note on. *)
LEMMA NotesSum ==
    ASSUME NEW a \in Nat, NEW b \in Nat, NEW c \in Nat, NEW d \in Nat, NEW e \in Nat, NEW f \in Nat,
           NEW c1 \in Nat, NEW d1 \in Nat, NEW e1 \in Nat, NEW f1 \in Nat, NEW g \in Nat,
           NEW x \in 0..1, NEW y \in 0..1, NEW z \in 0..1, NEW w \in 0..1,
           e1 + x = e + y, f1 + z = f + w, c1 + d1 + y + w <= c + d + x + z + g
    PROVE  (a + b + c1 + d1 + e1 + f1) + 0 <= (a + b + c + d + e + f) + g
OBVIOUS

LEMMA NoteStepOwed ==
    ASSUME BriefingTyped, ReceiptsAreOwed, NEW n \in Notifiers, NEW v \in BriefingNotes,
           note' = [note EXCEPT ![n] = v], UNCHANGED <<receipt, receiptAge, made, refreshes>>,
           NEW k \in 0..1, changes' = changes + k,
           OwedCat' + OwedForce' + Bit(v.pc \in {"read", "mark"})
              + Bit(v.force /\ v.pc \in {"read", "mark", "force"})
           <= OwedCat + OwedForce + Bit(note[n].pc \in {"read", "mark"})
              + Bit(note[n].force /\ note[n].pc \in {"read", "mark", "force"}) + 2 * k
    PROVE  ReceiptsAreOwed'
<1>1. OwedFirst' = OwedFirst /\ OwedAge' = OwedAge
  BY DEF OwedFirst, OwedAge
<1>6. /\ OwedFirst \in Nat /\ OwedAge \in Nat /\ OwedCat \in Nat /\ OwedForce \in Nat
      /\ OwedCat' \in Nat /\ OwedForce' \in Nat
      /\ Cardinality(Unmarked) \in Nat /\ Cardinality(Unforced) \in Nat
      /\ Cardinality(Unmarked') \in Nat /\ Cardinality(Unforced') \in Nat
  <2>1. \A i : i \in {0, 1} \/ i \in 0..2 => i \in Nat
    OBVIOUS
  <2>2. OwedFirst \in Nat /\ OwedAge \in Nat
    BY OwedParts, <2>1
  <2>3. OwedCat \in Nat /\ OwedForce \in Nat
    BY OwedParts, <2>1
  <2>4. OwedCat' \in Nat /\ OwedForce' \in Nat
    BY OwedPartsNext, <2>1
  <2>5. Cardinality(Unmarked') \in Nat /\ Cardinality(Unforced') \in Nat
    BY OwedPartsNext
  <2> QED  BY <2>2, <2>3, <2>4, <2>5, OwedParts
<1>2. PICK x \in 0..1 : x = Bit(note[n].pc \in {"read", "mark"})
  BY DEF Bit
<1>3. PICK y \in 0..1 : y = Bit(v.pc \in {"read", "mark"})
  BY DEF Bit
<1>4. PICK z \in 0..1 : z = Bit(note[n].force /\ note[n].pc \in {"read", "mark", "force"})
  BY DEF Bit
<1>5. PICK w \in 0..1 : w = Bit(v.force /\ v.pc \in {"read", "mark", "force"})
  BY DEF Bit
<1>7. /\ Cardinality(Unmarked') = Cardinality(Unmarked) + y - x
      /\ Cardinality(Unforced') = Cardinality(Unforced) + w - z
  <2>1. /\ Cardinality(Unmarked') = Cardinality(Unmarked)
              + Bit(v.pc \in {"read", "mark"}) - Bit(note[n].pc \in {"read", "mark"})
        /\ Cardinality(Unforced') = Cardinality(Unforced)
              + Bit(v.force /\ v.pc \in {"read", "mark", "force"})
              - Bit(note[n].force /\ note[n].pc \in {"read", "mark", "force"})
    BY NotesMove
  <2> QED  BY <2>1, <1>2, <1>3, <1>4, <1>5
<1>8. /\ Cardinality(Unmarked') + x = Cardinality(Unmarked) + y
      /\ Cardinality(Unforced') + z = Cardinality(Unforced) + w
  <2>1. \A p, q \in Nat, s, t \in 0..1 : p = q + s - t => p + t = q + s
    OBVIOUS
  <2> QED  BY <1>6, <1>7, <2>1
<1>9. PICK g \in Nat : g = 2 * k /\ g \in 0..2
  <2>1. \A i \in 0..1 : 2 * i \in Nat /\ 2 * i \in 0..2
    OBVIOUS
  <2> QED  BY <2>1
<1>10. OwedCat' + OwedForce' + y + w <= OwedCat + OwedForce + x + z + g
  BY <1>2, <1>3, <1>4, <1>5, <1>9
<1>11. (OwedFirst + OwedAge + OwedCat' + OwedForce' + Cardinality(Unmarked') + Cardinality(Unforced')) + 0
         <= (OwedFirst + OwedAge + OwedCat + OwedForce + Cardinality(Unmarked) + Cardinality(Unforced)) + g
  <2>1. PICK a \in Nat : a = OwedFirst
    BY <1>6
  <2>2. PICK b \in Nat : b = OwedAge
    BY <1>6
  <2>3. PICK c \in Nat : c = OwedCat
    BY <1>6
  <2>4. PICK d \in Nat : d = OwedForce
    BY <1>6
  <2>5. PICK e \in Nat : e = Cardinality(Unmarked)
    BY <1>6
  <2>6. PICK f \in Nat : f = Cardinality(Unforced)
    BY <1>6
  <2>7. PICK c1 \in Nat : c1 = OwedCat'
    BY <1>6
  <2>8. PICK d1 \in Nat : d1 = OwedForce'
    BY <1>6
  <2>9. PICK e1 \in Nat : e1 = Cardinality(Unmarked')
    BY <1>6
  <2>10. PICK f1 \in Nat : f1 = Cardinality(Unforced')
    BY <1>6
  <2>11. e1 + x = e + y /\ f1 + z = f + w /\ c1 + d1 + y + w <= c + d + x + z + g
    BY <1>8, <1>10, <2>1, <2>2, <2>3, <2>4, <2>5, <2>6, <2>7, <2>8, <2>9, <2>10
  <2>12. (a + b + c1 + d1 + e1 + f1) + 0 <= (a + b + c + d + e + f) + g
    BY <2>11, NotesSum
  <2> QED  BY <2>12, <2>1, <2>2, <2>3, <2>4, <2>5, <2>6, <2>7, <2>8, <2>9, <2>10
<1>12. Owed' + 0 <= Owed + g
  BY <1>1, <1>11 DEF Owed
<1>13. changes \in Nat /\ refreshes \in Nat /\ made \in Nat
  BY BriefingConstantsHold DEF BriefingTyped, BriefingConstants
<1>14. 2 * changes' + refreshes' = 2 * changes + refreshes + g
  <2>1. \A i, j \in Nat, l \in 0..1 : 2 * (i + l) + j = 2 * i + j + 2 * l
    OBVIOUS
  <2> QED  BY <1>9, <1>13, <2>1
<1>15. /\ changes' \in Nat /\ refreshes' \in Nat /\ made' = made + 0 /\ 0 \in 0..1 /\ g \in 0..2
  <2>1. \A i \in Nat, l \in 0..1 : i + l \in Nat /\ i + 0 = i
    OBVIOUS
  <2>2. changes' \in Nat
    BY <1>13, <2>1
  <2>3. made' = made + 0
    BY <1>13, <2>1
  <2> QED  BY <1>9, <1>13, <2>2, <2>3
<1> QED  BY <1>12, <1>14, <1>15, OwedMoves

(* What holds of every announcement in progress. *)
LEMMA NoteIsTyped ==
    ASSUME BriefingTyped, NEW n \in Notifiers
    PROVE  /\ note[n] \in BriefingNotes /\ note[n].force \in BOOLEAN /\ note[n].count \in 0..MaxChanges
           /\ note[n].pc \in {"idle", "read", "mark", "force", "wake"}
BY DEF BriefingTyped, BriefingNotes

(* The marks after one announcement has moved. *)
LEMMA NoteStepMarks ==
    ASSUME BriefingTyped, MarksAreChanges, NEW n \in Notifiers, NEW v \in BriefingNotes,
           note' = [note EXCEPT ![n] = v],
           changes' \in Nat, changes <= changes', truth'.detail <= changes',
           Cardinality(Unmarked') <= Cardinality(Unmarked) + (changes' - changes),
           count' \in 0..MaxChanges, count' + Cardinality(Unmarked') <= changes',
           v.pc = "mark" => v.count + Cardinality(Unmarked') <= changes',
           v.pc = "force" => v.force
    PROVE  MarksAreChanges'
<1>1. /\ Cardinality(Unmarked') \in Nat /\ Cardinality(Unmarked) \in Nat
      /\ changes \in Nat
      /\ \A m \in Notifiers : m # n => note'[m] = note[m]
      /\ note'[n] = v
  <2>1. /\ Cardinality(Unmarked') \in Nat
        /\ \A m \in Notifiers : m # n => note'[m] = note[m]
        /\ note'[n] = v
    BY NotesMove
  <2>2. changes \in Nat
    BY BriefingConstantsHold DEF BriefingTyped, BriefingConstants
  <2> QED  BY <2>1, <2>2, OwedParts
<1>2. ASSUME NEW m \in Notifiers, note'[m].pc = "mark"
      PROVE  note'[m].count + Cardinality(Unmarked') <= changes'
  <2>1. CASE m = n
    BY <1>1, <1>2, <2>1
  <2>2. CASE m # n
    <3>1. note[m].count \in Nat /\ note'[m] = note[m]
      BY <1>1, <2>2, NoteIsTyped, BriefingConstantsHold DEF BriefingConstants
    <3>2. note[m].count + Cardinality(Unmarked) <= changes
      BY <1>2, <3>1 DEF MarksAreChanges
    <3>3. \A i, j, k, l, o \in Nat : i + j <= k /\ l <= j + (o - k) => i + l <= o
      OBVIOUS
    <3> QED  BY <1>1, <3>1, <3>2, <3>3
  <2> QED  BY <2>1, <2>2
<1>3. ASSUME NEW m \in Notifiers, note'[m].pc = "force"
      PROVE  note'[m].force
  BY <1>1, <1>3 DEF MarksAreChanges
<1> QED  BY <1>2, <1>3 DEF MarksAreChanges

(* A change owes two receipts, one for its category or detail and one for
   an announcement that falls into the beginning of a run. *)
LEMMA BriefingChange == ASSUME NEW n \in Notifiers, BriefingInv, Briefing!Change(n) PROVE BriefingInv'
<1>0. BriefingTyped /\ MarksAreChanges /\ RunIsCurrent /\ ReceiptsAreOwed
  BY DEF BriefingInv
<1>1. PICK force \in BOOLEAN :
         /\ IF force THEN truth' = [truth EXCEPT !.detail = @ + 1]
                     ELSE \E c \in Cats \ {truth.cat} : truth' = [truth EXCEPT !.cat = c]
         /\ note' = [note EXCEPT ![n] = [Briefing!NoNote EXCEPT !.pc = "read", !.force = force]]
  BY DEF Briefing!Change
<1>2. /\ note[n].pc = "idle" /\ changes < MaxChanges /\ changes' = changes + 1
      /\ UNCHANGED <<fp, pending, forced, count, failed, wake, receipt, receiptAge, made, work,
                     refreshes, restarts>>
  BY DEF Briefing!Change, Briefing!runtime, Briefing!marks, Briefing!store
<1>3. PICK v : v = [Briefing!NoNote EXCEPT !.pc = "read", !.force = force]
  OBVIOUS
<1>4. note' = [note EXCEPT ![n] = v]
  BY <1>1, <1>3
<1>c. MaxChanges \in Nat /\ changes \in Nat
  BY <1>0, BriefingConstantsHold DEF BriefingTyped, BriefingConstants
<1>5. v \in BriefingNotes /\ v.pc = "read" /\ v.force = force
  <2>1. Briefing!NoNote = [pc |-> "idle", force |-> FALSE, count |-> 0]
    BY DEF Briefing!NoNote
  <2>2. Briefing!NoNote \in BriefingNotes
    BY <1>c, <2>1 DEF BriefingNotes
  <2> QED  BY <1>3, <2>2 DEF BriefingNotes
<1>6. changes' \in 0..MaxChanges
  BY <1>c, <1>2
<1>7. truth.detail \in Nat /\ truth.detail <= changes /\ truth.cat \in Cats
  BY <1>0, <1>c DEF MarksAreChanges, BriefingTyped, BriefingSources
<1>8. truth' \in BriefingSources /\ truth'.detail <= changes' /\ (force => truth'.cat = truth.cat)
  <2>1. CASE force
    <3>1. truth' = [truth EXCEPT !.detail = truth.detail + 1]
      BY <1>1, <2>1
    <3>2. truth.detail + 1 \in 0..MaxChanges /\ truth.detail + 1 <= changes'
      BY <1>c, <1>2, <1>7
    <3> QED  BY <1>0, <3>1, <3>2 DEF BriefingTyped, BriefingSources
  <2>2. CASE ~force
    <3>1. PICK c \in Cats : truth' = [truth EXCEPT !.cat = c]
      BY <1>1, <2>2
    <3>2. truth' \in BriefingSources /\ truth'.detail = truth.detail
      BY <1>0, <3>1 DEF BriefingTyped, BriefingSources
    <3> QED  BY <1>c, <1>2, <1>7, <2>2, <3>2
  <2> QED  BY <2>1, <2>2
<1>9. /\ Cardinality(Unmarked') = Cardinality(Unmarked) + 1
      /\ note' \in [Notifiers -> BriefingNotes] /\ note'[n] = v
      /\ Cardinality(Unmarked) \in Nat
  <2>1. /\ Cardinality(Unmarked') = Cardinality(Unmarked)
              + Bit(v.pc \in {"read", "mark"}) - Bit(note[n].pc \in {"read", "mark"})
        /\ note' \in [Notifiers -> BriefingNotes] /\ note'[n] = v
    BY <1>0, <1>4, <1>5, NotesMove
  <2>2. Bit(v.pc \in {"read", "mark"}) = 1 /\ Bit(note[n].pc \in {"read", "mark"}) = 0
    BY <1>2, <1>5 DEF Bit
  <2> QED  BY <2>1, <2>2, OwedParts
<1>T. BriefingTyped'
  BY <1>0, <1>2, <1>6, <1>8, <1>9 DEF BriefingTyped
<1>M. MarksAreChanges'
  <2>1. count \in 0..MaxChanges /\ count + Cardinality(Unmarked) <= changes /\ count \in Nat
    BY <1>0, <1>c DEF MarksAreChanges
  <2>2. \A i, j, k \in Nat : i + j <= k => i + (j + 1) <= k + 1
    OBVIOUS
  <2>3. count' + Cardinality(Unmarked') <= changes' /\ count' \in 0..MaxChanges
    BY <1>c, <1>2, <1>9, <2>1, <2>2
  <2>4. /\ changes' \in Nat /\ changes <= changes'
        /\ Cardinality(Unmarked') <= Cardinality(Unmarked) + (changes' - changes)
    BY <1>c, <1>2, <1>9
  <2> QED  BY <1>0, <1>4, <1>5, <1>8, <2>3, <2>4, NoteStepMarks
<1>R. RunIsCurrent'
  <2>1. Stir'
    BY <1>5, <1>9 DEF Stir
  <2> QED  BY <1>0, <1>2, <2>1 DEF RunIsCurrent, Collected
<1>O. ReceiptsAreOwed'
  <2>1. OwedForce' = OwedForce
    BY <1>2 DEF OwedForce
  <2>2. OwedCat' <= OwedCat + 1 /\ (force => OwedCat' = OwedCat)
    BY <1>2, <1>8 DEF OwedCat, Bit
  <2>3. Bit(v.pc \in {"read", "mark"}) = 1 /\ Bit(note[n].pc \in {"read", "mark"}) = 0
    BY <1>2, <1>5 DEF Bit
  <2>4. /\ Bit(v.force /\ v.pc \in {"read", "mark", "force"}) = Bit(force)
        /\ Bit(note[n].force /\ note[n].pc \in {"read", "mark", "force"}) = 0
    BY <1>2, <1>5 DEF Bit
  <2>5. Bit(force) = (IF force THEN 1 ELSE 0)
    BY DEF Bit
  <2>6. OwedCat' + OwedForce' + 1 + Bit(force) <= OwedCat + OwedForce + 0 + 0 + 2 * 1
    <3>1. PICK a \in Nat : a = OwedCat
      BY OwedParts
    <3>2. PICK b \in Nat : b = OwedCat'
      BY OwedPartsNext
    <3>3. PICK c \in Nat : c = OwedForce
      BY OwedParts
    <3>4. PICK d \in 0..1 : d = Bit(force)
      BY DEF Bit
    <3>5. b <= a + 1 /\ (d = 1 => b = a)
      BY <2>2, <2>5, <3>1, <3>2, <3>4
    <3>6. b + c + 1 + d <= a + c + 0 + 0 + 2 * 1
      BY <3>5
    <3> QED  BY <2>1, <3>1, <3>2, <3>3, <3>4, <3>6
  <2>7. 1 \in 0..1 /\ UNCHANGED <<receipt, receiptAge, made, refreshes>>
    BY <1>2
  <2> QED  BY <1>0, <1>2, <1>4, <1>5, <2>3, <2>4, <2>6, <2>7, NoteStepOwed
<1> QED  BY <1>T, <1>M, <1>R, <1>O DEF BriefingInv

(* An announcement stirs until it is done, and takes back no force. *)
LEMMA AnnouncementsKeepBriefing ==
    ASSUME BriefingInv, NEW n \in Notifiers, NEW v \in BriefingNotes, note' = [note EXCEPT ![n] = v],
           UNCHANGED <<truth, failed, receipt, receiptAge, made, work, changes, refreshes, restarts>>,
           fp' \in Cats \cup {None}, pending' \in BOOLEAN, forced' \in BOOLEAN, wake' \in BOOLEAN,
           Stir', forced => forced', count' \in 0..MaxChanges,
           v.pc \in {"read", "mark"} => note[n].pc \in {"read", "mark"},
           count' + Cardinality(Unmarked') <= changes,
           v.pc = "mark" => v.count + Cardinality(Unmarked') <= changes,
           v.pc = "force" => v.force,
           OwedForce' + Bit(v.pc \in {"read", "mark"})
              + Bit(v.force /\ v.pc \in {"read", "mark", "force"})
           <= OwedForce + Bit(note[n].pc \in {"read", "mark"})
              + Bit(note[n].force /\ note[n].pc \in {"read", "mark", "force"})
    PROVE  BriefingInv'
<1>0. BriefingTyped /\ MarksAreChanges /\ RunIsCurrent /\ ReceiptsAreOwed
  BY DEF BriefingInv
<1>1. /\ Cardinality(Unmarked') = Cardinality(Unmarked)
            + Bit(v.pc \in {"read", "mark"}) - Bit(note[n].pc \in {"read", "mark"})
      /\ note' \in [Notifiers -> BriefingNotes]
      /\ Cardinality(Unmarked') \in Nat
  BY <1>0, NotesMove
<1>T. BriefingTyped'
  BY <1>0, <1>1 DEF BriefingTyped
<1>M. MarksAreChanges'
  <2>1. changes \in Nat /\ truth.detail <= changes
    BY <1>0, BriefingConstantsHold DEF BriefingTyped, BriefingConstants, MarksAreChanges
  <2>2. Bit(v.pc \in {"read", "mark"}) <= Bit(note[n].pc \in {"read", "mark"})
    BY DEF Bit
  <2>3. Cardinality(Unmarked') <= Cardinality(Unmarked) + (changes' - changes)
    <3>1. PICK a \in 0..1 : a = Bit(v.pc \in {"read", "mark"})
      BY DEF Bit
    <3>2. PICK b \in 0..1 : b = Bit(note[n].pc \in {"read", "mark"})
      BY DEF Bit
    <3>3. \A i, j \in Nat : i = j + a - b /\ a <= b => i <= j + (changes - changes)
      BY <2>1
    <3> QED  BY <1>1, <2>2, <3>1, <3>2, <3>3, OwedParts
  <2>4. changes' \in Nat /\ changes <= changes' /\ truth'.detail <= changes'
    BY <2>1
  <2>5. count' + Cardinality(Unmarked') <= changes'
        /\ (v.pc = "mark" => v.count + Cardinality(Unmarked') <= changes')
    OBVIOUS
  <2> QED  BY <1>0, <2>3, <2>4, <2>5, NoteStepMarks
<1>R. RunIsCurrent'
  BY <1>0 DEF RunIsCurrent, Collected
<1>O. ReceiptsAreOwed'
  <2>1. OwedCat' = OwedCat
    BY DEF OwedCat
  <2>2. changes' = changes + 0 /\ 0 \in 0..1
    BY <1>0, BriefingConstantsHold DEF BriefingTyped, BriefingConstants
  <2>3. OwedCat' + OwedForce' + Bit(v.pc \in {"read", "mark"})
           + Bit(v.force /\ v.pc \in {"read", "mark", "force"})
        <= OwedCat + OwedForce + Bit(note[n].pc \in {"read", "mark"})
           + Bit(note[n].force /\ note[n].pc \in {"read", "mark", "force"}) + 2 * 0
    <3>1. PICK a \in 0..1 : a = Bit(v.pc \in {"read", "mark"})
      BY DEF Bit
    <3>2. PICK b \in 0..1 : b = Bit(note[n].pc \in {"read", "mark"})
      BY DEF Bit
    <3>3. PICK c \in 0..1 : c = Bit(v.force /\ v.pc \in {"read", "mark", "force"})
      BY DEF Bit
    <3>4. PICK d \in 0..1 : d = Bit(note[n].force /\ note[n].pc \in {"read", "mark", "force"})
      BY DEF Bit
    <3>5. PICK i \in Nat : i = OwedForce'
      BY OwedPartsNext
    <3>6. PICK j \in Nat : j = OwedForce
      BY OwedParts
    <3>7. PICK k \in Nat : k = OwedCat
      BY OwedParts
    <3>8. i + a + c <= j + b + d
      BY <3>1, <3>2, <3>3, <3>4, <3>5, <3>6
    <3>9. k + i + a + c <= k + j + b + d + 2 * 0
      BY <3>8
    <3> QED  BY <2>1, <3>1, <3>2, <3>3, <3>4, <3>5, <3>6, <3>7, <3>9
  <2> QED  BY <1>0, <2>2, <2>3, NoteStepOwed
<1> QED  BY <1>T, <1>M, <1>R, <1>O DEF BriefingInv

(* The number of announcements that have not marked, after a move. *)
LEMMA UnmarkedMoves ==
    ASSUME BriefingTyped, NEW n \in Notifiers, NEW v \in BriefingNotes, note' = [note EXCEPT ![n] = v],
           note[n].pc # "idle"
    PROVE  /\ Cardinality(Unmarked) \in Nat /\ Cardinality(Unmarked') \in Nat
           /\ (v.pc \in {"read", "mark"} <=> note[n].pc \in {"read", "mark"})
                 => Cardinality(Unmarked') = Cardinality(Unmarked)
           /\ v.pc \notin {"read", "mark"} /\ note[n].pc \in {"read", "mark"}
                 => Cardinality(Unmarked') + 1 = Cardinality(Unmarked)
<1>1. /\ Cardinality(Unmarked') = Cardinality(Unmarked)
            + Bit(v.pc \in {"read", "mark"}) - Bit(note[n].pc \in {"read", "mark"})
      /\ Cardinality(Unmarked') \in Nat /\ Cardinality(Unmarked) \in Nat
  BY NotesMove, OwedParts
<1>2. \A i \in Nat : i + 0 - 0 = i /\ i + 1 - 1 = i /\ (i + 0 - 1) + 1 = i
  OBVIOUS
<1>3. CASE v.pc \in {"read", "mark"} /\ note[n].pc \in {"read", "mark"}
  <2>1. Bit(v.pc \in {"read", "mark"}) = 1 /\ Bit(note[n].pc \in {"read", "mark"}) = 1
    BY <1>3 DEF Bit
  <2> QED  BY <1>1, <1>2, <1>3, <2>1
<1>4. CASE v.pc \notin {"read", "mark"} /\ note[n].pc \notin {"read", "mark"}
  <2>1. Bit(v.pc \in {"read", "mark"}) = 0 /\ Bit(note[n].pc \in {"read", "mark"}) = 0
    BY <1>4 DEF Bit
  <2> QED  BY <1>1, <1>2, <1>4, <2>1
<1>5. CASE v.pc \notin {"read", "mark"} /\ note[n].pc \in {"read", "mark"}
  <2>1. Bit(v.pc \in {"read", "mark"}) = 0 /\ Bit(note[n].pc \in {"read", "mark"}) = 1
    BY <1>5 DEF Bit
  <2> QED  BY <1>1, <1>2, <1>5, <2>1
<1>6. CASE v.pc \in {"read", "mark"} /\ note[n].pc \notin {"read", "mark"}
  BY <1>1, <1>6
<1> QED  BY <1>3, <1>4, <1>5, <1>6

(* What the notes owe, after a move. *)
LEMMA BitsMove ==
    ASSUME NEW a \in 0..2, NEW b \in 0..2,
           NEW p \in BOOLEAN, NEW q \in BOOLEAN, NEW r \in BOOLEAN, NEW s \in BOOLEAN,
           r => s, p => q, b <= a + 1, b = a \/ (q /\ ~p) \/ (s /\ ~r)
    PROVE  b + Bit(p) + Bit(r) <= a + Bit(q) + Bit(s)
<1>1. PICK w \in 0..1 : w = Bit(p) /\ (w = 1 <=> p)
  BY DEF Bit
<1>2. PICK x \in 0..1 : x = Bit(q) /\ (x = 1 <=> q)
  BY DEF Bit
<1>3. PICK y \in 0..1 : y = Bit(r) /\ (y = 1 <=> r)
  BY DEF Bit
<1>4. PICK z \in 0..1 : z = Bit(s) /\ (z = 1 <=> s)
  BY DEF Bit
<1>5. w <= x /\ y <= z /\ (b = a \/ w < x \/ y < z)
  BY <1>1, <1>2, <1>3, <1>4
<1>6. b + w + y <= a + x + z
  BY <1>5
<1> QED  BY <1>1, <1>2, <1>3, <1>4, <1>6

(* A forced receipt is owed at most once. *)
LEMMA OwedForceMoves ==
    ASSUME BriefingInv, work' = work, forced' = forced \/ count' = count, forced => forced', forced' \in BOOLEAN
    PROVE  OwedForce \in 0..2 /\ OwedForce' \in 0..2 /\ OwedForce' <= OwedForce + 1
BY OwedParts, OwedPartsNext DEF BriefingInv, BriefingTyped, OwedForce, Bit

(* The announcements, write by write. *)
LEMMA BriefingReadCount == ASSUME NEW n \in Notifiers, BriefingInv, Briefing!ReadCount(n) PROVE BriefingInv'
<1>0. BriefingTyped /\ MarksAreChanges
  BY DEF BriefingInv
<1>1. /\ note[n].pc = "read" /\ note' = [note EXCEPT ![n].pc = "mark", ![n].count = count]
      /\ UNCHANGED <<truth, fp, pending, forced, count, failed, wake, receipt, receiptAge, made, work,
                     changes, refreshes, restarts>>
  BY DEF Briefing!ReadCount, Briefing!runtime, Briefing!marks, Briefing!store, Briefing!bounds
<1>2. PICK v : v = [note[n] EXCEPT !.pc = "mark", !.count = count]
  OBVIOUS
<1>3. note' = [note EXCEPT ![n] = v]
  BY <1>0, <1>1, <1>2 DEF BriefingTyped
<1>4. /\ v \in BriefingNotes /\ v.pc = "mark" /\ v.force = note[n].force /\ v.count = count
      /\ count \in 0..MaxChanges
  BY <1>0, <1>2, NoteIsTyped DEF BriefingNotes, MarksAreChanges
<1>5. Cardinality(Unmarked') = Cardinality(Unmarked)
  BY <1>0, <1>1, <1>3, <1>4, UnmarkedMoves
<1>6. note'[n] = v
  BY <1>0, <1>3, <1>4, NotesMove
<1>7. Stir'
  BY <1>4, <1>6 DEF Stir
<1>8. OwedForce' = OwedForce
  BY <1>1 DEF OwedForce
<1>9. /\ Bit(v.pc \in {"read", "mark"}) = Bit(note[n].pc \in {"read", "mark"})
      /\ Bit(v.force /\ v.pc \in {"read", "mark", "force"})
           = Bit(note[n].force /\ note[n].pc \in {"read", "mark", "force"})
  BY <1>1, <1>4 DEF Bit
<1>10. PICK a \in Nat : a = OwedForce + Bit(note[n].pc \in {"read", "mark"})
             + Bit(note[n].force /\ note[n].pc \in {"read", "mark", "force"})
  BY OwedParts DEF Bit
<1>11. OwedForce' + Bit(v.pc \in {"read", "mark"}) + Bit(v.force /\ v.pc \in {"read", "mark", "force"})
         <= OwedForce + Bit(note[n].pc \in {"read", "mark"})
              + Bit(note[n].force /\ note[n].pc \in {"read", "mark", "force"})
  BY <1>8, <1>9, <1>10
<1>12. count + Cardinality(Unmarked) <= changes
  BY <1>0 DEF MarksAreChanges
<1> QED  BY <1>0, <1>1, <1>3, <1>4, <1>5, <1>7, <1>11, <1>12, AnnouncementsKeepBriefing DEF BriefingTyped

LEMMA BriefingMark == ASSUME NEW n \in Notifiers, BriefingInv, Briefing!Mark(n) PROVE BriefingInv'
<1>0. BriefingTyped /\ MarksAreChanges
  BY DEF BriefingInv
<1>1. /\ note[n].pc = "mark" /\ fp' = None /\ pending' = TRUE /\ count' = note[n].count + 1
      /\ note' = [note EXCEPT ![n].pc = IF note[n].force THEN "force" ELSE "wake"]
      /\ UNCHANGED <<truth, forced, failed, wake, receipt, receiptAge, made, work,
                     changes, refreshes, restarts>>
  BY DEF Briefing!Mark, Briefing!store, Briefing!bounds
<1>p. PICK p \in {"force", "wake"} : p = (IF note[n].force THEN "force" ELSE "wake")
  OBVIOUS
<1>2. PICK v : v = [note[n] EXCEPT !.pc = p]
  OBVIOUS
<1>3. note' = [note EXCEPT ![n] = v]
  BY <1>0, <1>1, <1>2, <1>p DEF BriefingTyped
<1>4. /\ v \in BriefingNotes /\ v.pc = p /\ v.force = note[n].force /\ v.force \in BOOLEAN
      /\ (p = "force" => v.force) /\ (note[n].force => p = "force")
  BY <1>0, <1>2, <1>p, NoteIsTyped DEF BriefingNotes
<1>5. Cardinality(Unmarked') + 1 = Cardinality(Unmarked) /\ Cardinality(Unmarked') \in Nat
  BY <1>0, <1>1, <1>3, <1>4, UnmarkedMoves
<1>6. note'[n] = v
  BY <1>0, <1>3, <1>4, NotesMove
<1>7. Stir'
  BY <1>4, <1>6 DEF Stir
<1>8. count' \in 0..MaxChanges /\ count' + Cardinality(Unmarked') <= changes
  <2>1. note[n].count \in Nat /\ changes \in Nat /\ MaxChanges \in Nat /\ changes <= MaxChanges
    BY <1>0, NoteIsTyped, BriefingConstantsHold DEF BriefingConstants, BriefingTyped
  <2>2. note[n].count + Cardinality(Unmarked) <= changes
    BY <1>0, <1>1 DEF MarksAreChanges
  <2>3. \A i, j, k, l, m \in Nat :
           j + 1 = k /\ i + k <= l /\ l <= m => i + 1 \in 0..m /\ (i + 1) + j <= l
    OBVIOUS
  <2>4. Cardinality(Unmarked) \in Nat
    BY OwedParts
  <2> QED  BY <1>1, <1>5, <2>1, <2>2, <2>3, <2>4
<1>9. OwedForce \in 0..2 /\ OwedForce' \in 0..2 /\ OwedForce' <= OwedForce + 1
  <2>1. work' = work /\ forced' = forced /\ forced \in BOOLEAN
    BY <1>0, <1>1 DEF BriefingTyped
  <2> QED  BY <2>1, OwedForceMoves
<1>10. OwedForce' + Bit(v.pc \in {"read", "mark"}) + Bit(v.force /\ v.pc \in {"read", "mark", "force"})
         <= OwedForce + Bit(note[n].pc \in {"read", "mark"})
              + Bit(note[n].force /\ note[n].pc \in {"read", "mark", "force"})
  <2>1. /\ Bit(v.pc \in {"read", "mark"}) = 0 /\ Bit(note[n].pc \in {"read", "mark"}) = 1
        /\ Bit(v.force /\ v.pc \in {"read", "mark", "force"})
             = Bit(note[n].force /\ note[n].pc \in {"read", "mark", "force"})
    BY <1>1, <1>4 DEF Bit
  <2>2. PICK z \in 0..1 : z = Bit(note[n].force /\ note[n].pc \in {"read", "mark", "force"})
    BY DEF Bit
  <2>3. PICK a \in 0..2 : a = OwedForce
    BY <1>9
  <2>4. PICK b \in 0..2 : b = OwedForce'
    BY <1>9
  <2>5. b <= a + 1
    BY <1>9, <2>3, <2>4
  <2>6. \A i, j \in 0..2, k \in 0..1 : j <= i + 1 => j + 0 + k <= i + 1 + k
    OBVIOUS
  <2>7. b + 0 + z <= a + 1 + z
    BY <2>5, <2>6
  <2> QED  BY <2>1, <2>2, <2>3, <2>4, <2>7
<1>11. None \in Cats \cup {None} /\ TRUE \in BOOLEAN /\ forced' \in BOOLEAN /\ wake' \in BOOLEAN
  BY <1>0, <1>1 DEF BriefingTyped
<1> QED  BY <1>1, <1>3, <1>4, <1>7, <1>8, <1>10, <1>11, AnnouncementsKeepBriefing

LEMMA BriefingForce == ASSUME NEW n \in Notifiers, BriefingInv, Briefing!Force(n) PROVE BriefingInv'
<1>0. BriefingTyped /\ MarksAreChanges
  BY DEF BriefingInv
<1>1. /\ note[n].pc = "force" /\ forced' = TRUE
      /\ note' = [note EXCEPT ![n].pc = "wake"]
      /\ UNCHANGED <<truth, fp, pending, count, failed, wake, receipt, receiptAge, made, work,
                     changes, refreshes, restarts>>
  BY DEF Briefing!Force, Briefing!store, Briefing!bounds
<1>2. PICK v : v = [note[n] EXCEPT !.pc = "wake"]
  OBVIOUS
<1>3. note' = [note EXCEPT ![n] = v]
  BY <1>0, <1>1, <1>2 DEF BriefingTyped
<1>4. v \in BriefingNotes /\ v.pc = "wake" /\ note[n].force
  BY <1>0, <1>1, <1>2, NoteIsTyped DEF BriefingNotes, MarksAreChanges
<1>5. Cardinality(Unmarked') = Cardinality(Unmarked)
  BY <1>0, <1>1, <1>3, <1>4, UnmarkedMoves
<1>6. note'[n] = v
  BY <1>0, <1>3, <1>4, NotesMove
<1>7. Stir'
  BY <1>4, <1>6 DEF Stir
<1>8. count \in 0..MaxChanges /\ count + Cardinality(Unmarked) <= changes
  BY <1>0 DEF MarksAreChanges
<1>9. OwedForce \in 0..2 /\ OwedForce' \in 0..2 /\ OwedForce' <= OwedForce + 1
  <2>1. work' = work /\ count' = count /\ forced' = TRUE
    BY <1>1
  <2> QED  BY <2>1, OwedForceMoves
<1>10. OwedForce' + Bit(v.pc \in {"read", "mark"}) + Bit(v.force /\ v.pc \in {"read", "mark", "force"})
         <= OwedForce + Bit(note[n].pc \in {"read", "mark"})
              + Bit(note[n].force /\ note[n].pc \in {"read", "mark", "force"})
  <2>1. /\ Bit(v.pc \in {"read", "mark"}) = 0 /\ Bit(note[n].pc \in {"read", "mark"}) = 0
        /\ Bit(v.force /\ v.pc \in {"read", "mark", "force"}) = 0
        /\ Bit(note[n].force /\ note[n].pc \in {"read", "mark", "force"}) = 1
    BY <1>1, <1>4 DEF Bit
  <2>2. PICK a \in 0..2 : a = OwedForce
    BY <1>9
  <2>3. PICK b \in 0..2 : b = OwedForce'
    BY <1>9
  <2>4. b <= a + 1
    BY <1>9, <2>2, <2>3
  <2>5. \A i, j \in 0..2 : j <= i + 1 => j + 0 + 0 <= i + 0 + 1
    OBVIOUS
  <2>6. b + 0 + 0 <= a + 0 + 1
    BY <2>4, <2>5
  <2> QED  BY <2>1, <2>2, <2>3, <2>6
<1> QED  BY <1>0, <1>1, <1>3, <1>4, <1>5, <1>7, <1>8, <1>10, AnnouncementsKeepBriefing DEF BriefingTyped

LEMMA BriefingWake == ASSUME NEW n \in Notifiers, BriefingInv, Briefing!Wake(n) PROVE BriefingInv'
<1>0. BriefingTyped /\ MarksAreChanges
  BY DEF BriefingInv
<1>1. /\ note[n].pc = "wake" /\ wake' = TRUE
      /\ note' = [note EXCEPT ![n] = Briefing!NoNote]
      /\ UNCHANGED <<truth, fp, pending, forced, count, failed, receipt, receiptAge, made, work,
                     changes, refreshes, restarts>>
  BY DEF Briefing!Wake, Briefing!runtime, Briefing!marks, Briefing!store, Briefing!bounds
<1>2. PICK v : v = Briefing!NoNote
  OBVIOUS
<1>3. note' = [note EXCEPT ![n] = v]
  BY <1>1, <1>2
<1>4. v \in BriefingNotes /\ v.pc = "idle"
  <2>1. 0 \in 0..MaxChanges
    BY BriefingConstantsHold DEF BriefingConstants
  <2> QED  BY <1>2, <2>1 DEF BriefingNotes, Briefing!NoNote
<1>5. Cardinality(Unmarked') = Cardinality(Unmarked)
  BY <1>0, <1>1, <1>3, <1>4, UnmarkedMoves
<1>7. Stir'
  BY <1>1 DEF Stir
<1>8. count \in 0..MaxChanges /\ count + Cardinality(Unmarked) <= changes
  BY <1>0 DEF MarksAreChanges
<1>9. OwedForce' = OwedForce
  BY <1>1 DEF OwedForce
<1>10. OwedForce' + Bit(v.pc \in {"read", "mark"}) + Bit(v.force /\ v.pc \in {"read", "mark", "force"})
         <= OwedForce + Bit(note[n].pc \in {"read", "mark"})
              + Bit(note[n].force /\ note[n].pc \in {"read", "mark", "force"})
  <2>1. /\ Bit(v.pc \in {"read", "mark"}) = 0 /\ Bit(note[n].pc \in {"read", "mark"}) = 0
        /\ Bit(v.force /\ v.pc \in {"read", "mark", "force"}) = 0
        /\ Bit(note[n].force /\ note[n].pc \in {"read", "mark", "force"}) = 0
    BY <1>1, <1>4 DEF Bit
  <2>2. PICK a \in 0..2 : a = OwedForce
    BY OwedParts
  <2>3. a + 0 + 0 <= a + 0 + 0
    OBVIOUS
  <2> QED  BY <1>9, <2>1, <2>2, <2>3
<1> QED  BY <1>0, <1>1, <1>3, <1>4, <1>5, <1>7, <1>8, <1>10, AnnouncementsKeepBriefing DEF BriefingTyped

(* Every step. *)
LEMMA BriefingInvStep == BriefingInv /\ [Briefing!Next]_(Briefing!vars) => BriefingInv'
<1> SUFFICES ASSUME BriefingInv, [Briefing!Next]_(Briefing!vars) PROVE BriefingInv'
  OBVIOUS
<1>1. ASSUME NEW n \in Notifiers, Briefing!Change(n) \/ Briefing!Announce(n) PROVE BriefingInv'
  BY <1>1, BriefingChange, BriefingReadCount, BriefingMark, BriefingForce, BriefingWake DEF Briefing!Announce
<1>2. CASE Briefing!Drift
  BY <1>2 DEF Briefing!Drift
<1>3. CASE Briefing!Work
  BY <1>3, BriefingWoken, BriefingTimedOut, BriefingBegin, BriefingReadForce, BriefingCollect,
     BriefingPublish, BriefingRecord, BriefingPostpone, BriefingSkip, BriefingFail, BriefingCheck,
     BriefingClear, BriefingUnforce DEF Briefing!Work
<1>4. CASE UNCHANGED Briefing!vars
  <2>1. UNCHANGED <<truth, fp, pending, forced, count, failed, wake, receipt, receiptAge, note, work,
                    made, changes, refreshes, restarts>>
    BY <1>4 DEF Briefing!vars, Briefing!runtime, Briefing!marks, Briefing!store, Briefing!bounds
  <2>2. BriefingTyped' /\ MarksAreChanges' /\ RunIsCurrent'
    BY <2>1, NotesStay DEF BriefingInv, BriefingTyped, MarksAreChanges, RunIsCurrent, Collected, Stir
  <2>3. ReceiptsAreOwed'
    BY <2>1, NotesStay
    DEF BriefingInv, ReceiptsAreOwed, Owed, OwedFirst, OwedAge, OwedCat, OwedForce
  <2> QED  BY <2>2, <2>3 DEF BriefingInv
<1> QED  BY <1>1, <1>2, <1>3, <1>4, BriefingGrowOld, BriefingDie DEF Briefing!Next

(* What the invariant means. *)
LEMMA BriefingInvIsFresh == BriefingInv => BriefingIsFresh
<1> SUFFICES ASSUME BriefingInv PROVE BriefingIsFresh
  OBVIOUS
<1>0. BriefingTyped /\ MarksAreChanges /\ RunIsCurrent /\ ReceiptsAreOwed
  BY DEF BriefingInv
<1>1. Briefing!TypeOK
  <2>1. work.pc \in {"publish", "decide"} => work.seen # None
    BY <1>0 DEF RunIsCurrent, Collected
  <2>2. count \in 0..MaxChanges
    BY <1>0 DEF MarksAreChanges
  <2> QED  BY <1>0, <2>1, <2>2
      DEF Briefing!TypeOK, Briefing!Sources, Briefing!NotePc, Briefing!Stages, BriefingTyped,
          BriefingSources, BriefingNotes, BriefingStages
<1>2. Briefing!NothingForgotten
  BY <1>0 DEF Briefing!NothingForgotten, Briefing!Quiet, Briefing!At, RunIsCurrent, Stir
<1>3. Briefing!NoChurn
  <2>1. made \in Nat /\ changes \in Nat /\ refreshes \in Nat
    BY <1>0, BriefingConstantsHold DEF BriefingTyped, BriefingConstants
  <2>2. PICK o \in Nat : o = Owed
    BY OwedParts
  <2>3. made + o <= 1 + 2 * changes + refreshes
    BY <1>0, <2>2 DEF ReceiptsAreOwed
  <2>4. made <= 1 + 2 * changes + refreshes
    BY <2>1, <2>3
  <2> QED  BY <2>4 DEF Briefing!NoChurn
<1> QED  BY <1>1, <1>2, <1>3 DEF BriefingIsFresh

(* The operator briefing: however request_operations_briefing_refresh, with
   its three writes that no lock protects, falls into a run of
   run_operations_briefing, the worker does not go to sleep on an announced
   change of category, and it signs no receipt that no change, no day gone by
   and no start asked for; over any number of announcing threads, changes,
   failures and restarts. *)
THEOREM BriefingFresh == Briefing!Spec => []BriefingIsFresh
<1>1. Briefing!Spec => []BriefingInv
  BY BriefingInvInit, BriefingInvStep, PTL DEF Briefing!Spec
<1> QED  BY <1>1, BriefingInvIsFresh, PTL
=============================================================================
