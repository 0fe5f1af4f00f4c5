----------------------- MODULE OutboundWebhooks_proofs -----------------------
(***************************************************************************)
(* Theorems about the webhook dispatcher, for every set of events,         *)
(* requests, threads and endpoints and every size of the queue.            *)
(***************************************************************************)
EXTENDS OutboundWebhooks, FiniteSetTheorems, FunctionTheorems, TLAPS

EventSeq == Seq(Events)
RestSeq == Seq(EndpointIds)
Outcomes == EndpointIds \X {"delivered", "failed"}
Counts == [EndpointIds -> Nat]
WorkerType ==
    [pc : {"dead", "get", "send", "leaving"}, event : Events \cup {None}, rest : RestSeq,
     attempt : 1..Attempts, records : SUBSET Outcomes, got : Counts]

(* The types, with all fields of a worker.                                 *)
Typed ==
    /\ queue \in EventSeq /\ Len(queue) <= Capacity
    /\ thread \in Workers \cup {None} /\ lock \in Producers \cup {None}
    /\ producer \in [Producers -> {"idle", "ensure", "start"}]
    /\ worker \in [Workers -> WorkerType]
    /\ \A w \in Workers : Sending(w) => worker[w].event \in Events

(* The request between its look at the thread and its start of a new one   *)
(* is the one that holds the lock, and no thread is alive until it is over.*)
Exclusive ==
    /\ \A p \in Producers : producer[p] = "start" <=> lock = p
    /\ lock # None => \A w \in Workers : ~Alive(w)

IInv == Typed /\ Exclusive /\ OneWorker

-----------------------------------------------------------------------------
(* A thread that is not sending. *)
LEMMA DeadType ==
    ASSUME NEW pc \in {"dead", "get", "send", "leaving"}
    PROVE  [Dead EXCEPT !.pc = pc] \in WorkerType /\ [Dead EXCEPT !.pc = pc].pc = pc
<1>1. 1 \in 1..Attempts
  BY WebhookAssumption
<1>2. <<>> \in RestSeq /\ Endpoints \in RestSeq
  BY WebhookAssumption DEF RestSeq, EndpointIds
<1>3. [i \in EndpointIds |-> 0] \in Counts
  BY DEF Counts
<1> QED BY <1>1, <1>2, <1>3 DEF Dead, WorkerType

LEMMA DeadIsDead == [Dead EXCEPT !.pc = "dead"] = Dead
  BY Z3 DEF Dead

(* A thread that takes an event of the queue. *)
LEMMA TakeType ==
    ASSUME NEW e \in Events, NEW rest \in {Endpoints, <<>>}
    PROVE  [Dead EXCEPT !.pc = "send", !.event = e, !.rest = rest] \in WorkerType
<1>1. 1 \in 1..Attempts
  BY WebhookAssumption
<1>2. <<>> \in RestSeq /\ Endpoints \in RestSeq
  BY WebhookAssumption DEF RestSeq, EndpointIds
<1>3. [i \in EndpointIds |-> 0] \in Counts
  BY DEF Counts
<1> QED BY <1>1, <1>2, <1>3 DEF Dead, WorkerType

(* One attempt leaves a thread sending its event. *)
LEMMA AnswerType ==
    ASSUME Typed, NEW w \in Workers, worker[w].rest # <<>>,
           NEW answered \in BOOLEAN, NEW arrives \in BOOLEAN
    PROVE  LET after == [Answer(w, answered) EXCEPT
                           !.got[Head(worker[w].rest)] = @ + (IF arrives THEN 1 ELSE 0)]
           IN  /\ after \in WorkerType
               /\ after.pc = worker[w].pc /\ after.event = worker[w].event
<1> DEFINE me == worker[w]
           head == Head(me.rest)
<1>1. me \in WorkerType
  BY DEF Typed
<1>2. head \in EndpointIds /\ Tail(me.rest) \in RestSeq
  BY <1>1 DEF WorkerType, RestSeq
<1>3. {<<head, IF answered THEN "delivered" ELSE "failed">>} \subseteq Outcomes
  BY <1>2 DEF Outcomes
<1>4. Answer(w, answered) \in WorkerType /\ Answer(w, answered).pc = me.pc
        /\ Answer(w, answered).event = me.event
  <2>1. CASE ~answered /\ ~FinalAttempt(w)
    <3>1. me.attempt + 1 \in 1..Attempts
      BY <1>1, <2>1, WebhookAssumption DEF FinalAttempt, WorkerType
    <3> QED BY <1>1, <2>1, <3>1 DEF Answer, WorkerType
  <2>2. CASE ~(~answered /\ ~FinalAttempt(w))
    <3>1. 1 \in 1..Attempts
      BY WebhookAssumption
    <3>2. me.records \cup {<<head, IF answered THEN "delivered" ELSE "failed">>} \in SUBSET Outcomes
      BY <1>1, <1>3 DEF WorkerType
    <3>3. Answer(w, answered) =
            [me EXCEPT !.rest = Tail(@), !.attempt = 1,
                       !.records = @ \cup {<<head, IF answered THEN "delivered" ELSE "failed">>}]
      BY <2>2 DEF Answer
    <3> HIDE DEF head
    <3> QED BY <1>1, <1>2, <3>1, <3>2, <3>3 DEF WorkerType
  <2> QED BY <2>1, <2>2
<1> DEFINE ans == Answer(w, answered)
<1> HIDE DEF ans, head, me
<1>5. ans.got \in Counts /\ ans \in WorkerType /\ ans.pc = me.pc /\ ans.event = me.event
  BY <1>4 DEF WorkerType, ans
<1>6. [ans.got EXCEPT ![head] = @ + (IF arrives THEN 1 ELSE 0)] \in Counts
  BY <1>2, <1>5 DEF Counts
<1>7. [ans EXCEPT !.got[head] = @ + (IF arrives THEN 1 ELSE 0)]
        = [ans EXCEPT !.got = [ans.got EXCEPT ![head] = @ + (IF arrives THEN 1 ELSE 0)]]
  OBVIOUS
<1>8. [ans EXCEPT !.got = [ans.got EXCEPT ![head] = @ + (IF arrives THEN 1 ELSE 0)]] \in WorkerType
  BY <1>5, <1>6 DEF WorkerType
<1> QED BY <1>5, <1>7, <1>8 DEF ans, head, me, WorkerType

-----------------------------------------------------------------------------
LEMMA InitIInv == Init => IInv
<1> SUFFICES ASSUME Init PROVE IInv
  OBVIOUS
<1>1. Dead \in WorkerType /\ Dead.pc = "dead"
  BY DeadType, DeadIsDead
<1>2. None \notin Producers
  BY WebhookAssumption
<1>3. Typed
  BY <1>1, WebhookAssumption DEF Init, Typed, EventSeq, Sending
<1>4. Exclusive /\ OneWorker
  BY <1>1, <1>2 DEF Init, Exclusive, OneWorker, Alive
<1> QED BY <1>3, <1>4 DEF IInv

(* A step that changes one thread, and lets none come to life.             *)
LEMMA OneThread ==
    ASSUME IInv, NEW w \in Workers, NEW me \in WorkerType,
           worker' = [worker EXCEPT ![w] = me], UNCHANGED <<thread, lock, producer>>,
           Alive(w) \/ me.pc = "dead", me.pc = "send" => me.event \in Events,
           queue' \in EventSeq, Len(queue') <= Capacity
    PROVE  IInv'
<1>1. Typed'
  BY DEF IInv, Typed, Sending
<1>2. \A v \in Workers : Alive(v)' => Alive(v)
  BY DEF IInv, Typed, Alive
<1>3. Exclusive'
  BY <1>2 DEF IInv, Exclusive
<1>4. OneWorker'
  BY <1>2 DEF IInv, OneWorker
<1> QED BY <1>1, <1>3, <1>4 DEF IInv

LEMMA NextIInv == IInv /\ [Next]_vars => IInv'
<1> SUFFICES ASSUME IInv, [Next]_vars PROVE IInv'
  OBVIOUS
<1> USE DEF IInv
<1>1. ASSUME NEW p \in Producers, NEW e \in Events, Put(p, e) PROVE IInv'
  <2>1. queue' \in EventSeq /\ Len(queue') <= Capacity
    BY <1>1, WebhookAssumption DEF Put, Full, Typed, EventSeq
  <2>2. Typed'
    BY <1>1, <2>1 DEF Put, Typed, Sending
  <2>3. Exclusive' /\ OneWorker'
    BY <1>1 DEF Put, Exclusive, OneWorker, Alive, Typed
  <2> QED BY <2>2, <2>3
<1>2. ASSUME NEW p \in Producers, Drop(p) PROVE IInv'
  BY <1>2 DEF Drop, Typed, Exclusive, OneWorker, Alive, Sending
<1>3. ASSUME NEW p \in Producers, Check(p) PROVE IInv'
  <2>1. Typed' /\ OneWorker'
    BY <1>3, WebhookAssumption DEF Check, Typed, OneWorker, Alive, Sending
  <2>2. CASE Serving
    BY <1>3, <2>1, <2>2, WebhookAssumption DEF Check, Free, Exclusive, Typed, Alive
  <2>3. CASE ~Serving
    <3>1. \A w \in Workers : ~Alive(w)
      BY <2>3, WebhookAssumption DEF Serving, OneWorker
    <3>2. lock = None /\ lock' = p /\ producer' = [producer EXCEPT ![p] = "start"]
      BY <1>3, <2>3 DEF Check, Free
    <3>3. \A q \in Producers : producer'[q] = "start" <=> lock' = q
      BY <3>2, WebhookAssumption DEF Exclusive, Typed
    <3>4. \A w \in Workers : ~Alive(w)'
      BY <1>3, <3>1 DEF Check, Alive
    <3> QED BY <2>1, <3>3, <3>4 DEF Exclusive
  <2> QED BY <2>2, <2>3
<1>4. ASSUME NEW p \in Producers, Start(p) PROVE IInv'
  <2>1. PICK w \in Workers : /\ ~Alive(w) /\ thread' = w
                              /\ worker' = [worker EXCEPT ![w] = [Dead EXCEPT !.pc = "get"]]
    BY <1>4 DEF Start
  <2>2. [Dead EXCEPT !.pc = "get"] \in WorkerType /\ [Dead EXCEPT !.pc = "get"].pc = "get"
    BY DeadType
  <2>3. lock = p /\ lock' = None /\ producer' = [producer EXCEPT ![p] = "idle"] /\ queue' = queue
    BY <1>4 DEF Start, Exclusive
  <2>4. Typed'
    BY <2>1, <2>2, <2>3 DEF Typed, Sending
  <2>5. \A v \in Workers : ~Alive(v)
    BY <2>3, WebhookAssumption DEF Exclusive
  <2>6. OneWorker'
    BY <2>1, <2>5 DEF OneWorker, Alive, Typed
  <2>7. Exclusive'
    BY <2>3, WebhookAssumption DEF Exclusive, Typed
  <2> QED BY <2>4, <2>6, <2>7
<1>5. ASSUME NEW w \in Workers, Take(w) PROVE IInv'
  <2>1. PICK rest \in {Endpoints, <<>>} :
          worker' = [worker EXCEPT ![w] = [Dead EXCEPT !.pc = "send", !.event = Head(queue), !.rest = rest]]
    BY <1>5 DEF Take
  <2>2. Head(queue) \in Events /\ queue' \in EventSeq /\ Len(queue') <= Capacity
    BY <1>5, WebhookAssumption DEF Take, Typed, EventSeq
  <2>3. [Dead EXCEPT !.pc = "send", !.event = Head(queue), !.rest = rest] \in WorkerType
    BY <2>2, TakeType
  <2>4. [Dead EXCEPT !.pc = "send", !.event = Head(queue), !.rest = rest].event = Head(queue)
    BY DEF Dead
  <2>5. Alive(w) /\ UNCHANGED <<thread, lock, producer>>
    BY <1>5 DEF Take, Alive
  <2> DEFINE me == [Dead EXCEPT !.pc = "send", !.event = Head(queue), !.rest = rest]
  <2> HIDE DEF me
  <2>6. me \in WorkerType /\ me.event \in Events /\ worker' = [worker EXCEPT ![w] = me]
    BY <2>1, <2>2, <2>3, <2>4 DEF me
  <2> QED BY <2>2, <2>5, <2>6, OneThread
<1>6. ASSUME NEW w \in Workers, NEW pc \in {"dead", "get", "leaving"}, Alive(w),
             worker' = [worker EXCEPT ![w] = [Dead EXCEPT !.pc = pc]],
             UNCHANGED <<queue, thread, lock, producer>>
      PROVE  IInv'
  <2>1. [Dead EXCEPT !.pc = pc] \in WorkerType /\ [Dead EXCEPT !.pc = pc].pc = pc
    BY DeadType
  <2> DEFINE me == [Dead EXCEPT !.pc = pc]
  <2> HIDE DEF me
  <2>2. me \in WorkerType /\ me.pc # "send" /\ worker' = [worker EXCEPT ![w] = me]
    BY <1>6, <2>1 DEF me
  <2>3. queue' \in EventSeq /\ Len(queue') <= Capacity
    BY <1>6 DEF Typed
  <2> QED BY <1>6, <2>2, <2>3, OneThread
<1>7. ASSUME NEW w \in Workers, GiveUp(w) \/ NextEvent(w) \/ Die(w) \/ End(w) PROVE IInv'
  <2>1. Alive(w) /\ UNCHANGED <<queue, thread, lock, producer>>
    BY <1>7 DEF GiveUp, NextEvent, Die, End, Alive
  <2>2. \/ worker' = [worker EXCEPT ![w] = [Dead EXCEPT !.pc = "leaving"]]
        \/ worker' = [worker EXCEPT ![w] = [Dead EXCEPT !.pc = "get"]]
        \/ worker' = [worker EXCEPT ![w] = Dead]
    BY <1>7 DEF GiveUp, NextEvent, Die, End
  <2>4. CASE worker' = [worker EXCEPT ![w] = [Dead EXCEPT !.pc = "leaving"]]
    BY <1>6, <2>1, <2>4
  <2>5. CASE worker' = [worker EXCEPT ![w] = [Dead EXCEPT !.pc = "get"]]
    BY <1>6, <2>1, <2>5
  <2>6. CASE worker' = [worker EXCEPT ![w] = Dead]
    <3>1. worker' = [worker EXCEPT ![w] = [Dead EXCEPT !.pc = "dead"]]
      BY DeadIsDead, <2>6
    <3> QED BY <1>6, <2>1, <3>1
  <2> QED BY <2>2, <2>4, <2>5, <2>6
<1>8. ASSUME NEW w \in Workers, Attempt(w) PROVE IInv'
  <2>1. PICK arrives \in BOOLEAN, answered \in BOOLEAN :
          worker' = [worker EXCEPT ![w] =
                       [Answer(w, answered) EXCEPT !.got[Head(worker[w].rest)] = @ + (IF arrives THEN 1 ELSE 0)]]
    BY <1>8 DEF Attempt
  <2> DEFINE me == [Answer(w, answered) EXCEPT !.got[Head(worker[w].rest)] = @ + (IF arrives THEN 1 ELSE 0)]
  <2>2. me \in WorkerType /\ me.pc = worker[w].pc /\ me.event = worker[w].event
    BY <1>8, AnswerType DEF Attempt
  <2>3. worker[w].pc = "send" /\ Alive(w) /\ UNCHANGED <<queue, thread, lock, producer>>
    BY <1>8 DEF Attempt, Alive
  <2>4. worker' = [worker EXCEPT ![w] = me]
    BY <2>1
  <2> HIDE DEF me
  <2>5. me.event \in Events /\ queue' \in EventSeq /\ Len(queue') <= Capacity
    BY <2>2, <2>3 DEF Typed, Sending
  <2> QED BY <2>2, <2>3, <2>4, <2>5, OneThread
<1>9. CASE Restart
  <2>1. Dead \in WorkerType /\ Dead.pc = "dead"
    BY DeadType, DeadIsDead
  <2>2. Typed'
    BY <1>9, <2>1, WebhookAssumption DEF Restart, Typed, EventSeq, Sending
  <2>3. Exclusive' /\ OneWorker'
    BY <1>9, <2>1, WebhookAssumption DEF Restart, Exclusive, OneWorker, Alive
  <2> QED BY <2>2, <2>3
<1>10. CASE UNCHANGED vars
  BY <1>10 DEF vars, Typed, Exclusive, OneWorker, Alive, Sending
<1> QED
  BY <1>1, <1>2, <1>3, <1>4, <1>5, <1>7, <1>8, <1>9, <1>10 DEF Next, Enqueue, WorkerStep

LEMMA Invariant == Spec => []IInv
  BY InitIInv, NextIInv, PTL DEF Spec

-----------------------------------------------------------------------------
(* Sequences of events. *)
LEMMA PutBehind ==
    ASSUME NEW x \in Events, NEW e \in Events, NEW q \in EventSeq
    PROVE  Append(<<x>> \o q, e) = <<x>> \o Append(q, e)
  BY DEF EventSeq

LEMMA FirstAndRest ==
    ASSUME NEW q \in EventSeq, q # <<>>
    PROVE  <<Head(q)>> \o Tail(q) = q
  BY DEF EventSeq

LEMMA RestOfLine ==
    ASSUME NEW x \in Events, NEW q \in EventSeq
    PROVE  Tail(<<x>> \o q) = q
  BY DEF EventSeq

LEMMA OrderStep == IInv /\ InOrder /\ [Next]_vars => InOrder'
<1> SUFFICES ASSUME IInv, InOrder, [Next]_vars PROVE InOrder'
  OBVIOUS
<1>0. Typed /\ OneWorker /\ queue \in EventSeq
  BY DEF IInv, Typed
<1>1. ASSUME NEW p \in Producers, NEW e \in Events, Put(p, e) PROVE InOrder'
  <2>1. queue' = Append(queue, e) /\ line' = Append(line, e) /\ worker' = worker
    BY <1>1 DEF Put
  <2>2. CASE (\A w \in Workers : ~Sending(w)) /\ line = queue
    BY <2>1, <2>2 DEF InOrder, Sending
  <2>3. CASE \E w \in Workers : /\ Sending(w) /\ line = <<worker[w].event>> \o queue
                                /\ \A v \in Workers \ {w} : ~Sending(v)
    <3>1. PICK w \in Workers : /\ Sending(w) /\ line = <<worker[w].event>> \o queue
                               /\ \A v \in Workers \ {w} : ~Sending(v)
      BY <2>3
    <3>2. line' = <<worker[w].event>> \o Append(queue, e)
      BY <1>0, <2>1, <3>1, PutBehind DEF Typed
    <3> QED BY <2>1, <3>1, <3>2 DEF InOrder, Sending
  <2> QED BY <2>2, <2>3 DEF InOrder
<1>2. ASSUME NEW w \in Workers, Take(w) PROVE InOrder'
  <2>1. PICK rest \in {Endpoints, <<>>} :
          worker' = [worker EXCEPT ![w] = [Dead EXCEPT !.pc = "send", !.event = Head(queue), !.rest = rest]]
    BY <1>2 DEF Take
  <2> DEFINE me == [Dead EXCEPT !.pc = "send", !.event = Head(queue), !.rest = rest]
  <2>2. me.pc = "send" /\ me.event = Head(queue) /\ worker' = [worker EXCEPT ![w] = me]
    BY <2>1 DEF Dead
  <2> HIDE DEF me
  <2>3. \A v \in Workers : ~Sending(v)
    BY <1>0, <1>2 DEF Take, OneWorker, Alive, Sending
  <2>4. line' = <<Head(queue)>> \o queue'
    BY <1>0, <1>2, <2>3, FirstAndRest DEF Take, InOrder
  <2>5. Sending(w)' /\ worker'[w].event = Head(queue) /\ \A v \in Workers \ {w} : ~Sending(v)'
    BY <1>0, <2>2, <2>3 DEF Sending, Typed
  <2> QED BY <2>4, <2>5 DEF InOrder
<1>3. ASSUME NEW w \in Workers, NextEvent(w) \/ Die(w) PROVE InOrder'
  <2>1. Sending(w) /\ line' = Tail(line) /\ queue' = queue
    BY <1>3 DEF NextEvent, Die, Sending
  <2>2. \/ worker' = [worker EXCEPT ![w] = [Dead EXCEPT !.pc = "leaving"]]
        \/ worker' = [worker EXCEPT ![w] = [Dead EXCEPT !.pc = "get"]]
    BY <1>3 DEF NextEvent, Die
  <2>3. line = <<worker[w].event>> \o queue /\ \A v \in Workers \ {w} : ~Sending(v)
    BY <2>1 DEF InOrder
  <2>4. line' = queue
    BY <1>0, <2>1, <2>3, RestOfLine DEF Typed
  <2>5. \A v \in Workers : ~Sending(v)'
    <3>1. [Dead EXCEPT !.pc = "leaving"].pc # "send" /\ [Dead EXCEPT !.pc = "get"].pc # "send"
      BY DEF Dead
    <3> QED BY <1>0, <2>2, <2>3, <3>1 DEF Sending, Typed
  <2> QED BY <2>1, <2>4, <2>5 DEF InOrder
<1>4. ASSUME NEW w \in Workers, NEW me, me.pc = worker[w].pc, me.event = worker[w].event,
             worker' = [worker EXCEPT ![w] = me], UNCHANGED <<queue, line>>
      PROVE  InOrder'
  <2>1. \A v \in Workers : (Sending(v)' <=> Sending(v)) /\ worker'[v].event = worker[v].event
    BY <1>0, <1>4 DEF Sending, Typed
  <2> QED BY <1>4, <2>1 DEF InOrder
<1>5. ASSUME NEW w \in Workers, Attempt(w) PROVE InOrder'
  <2>1. PICK arrives \in BOOLEAN, answered \in BOOLEAN :
          worker' = [worker EXCEPT ![w] =
                       [Answer(w, answered) EXCEPT !.got[Head(worker[w].rest)] = @ + (IF arrives THEN 1 ELSE 0)]]
    BY <1>5 DEF Attempt
  <2> DEFINE me == [Answer(w, answered) EXCEPT !.got[Head(worker[w].rest)] = @ + (IF arrives THEN 1 ELSE 0)]
  <2>2. me.pc = worker[w].pc /\ me.event = worker[w].event
    BY <1>0, <1>5, AnswerType DEF Attempt
  <2>3. worker' = [worker EXCEPT ![w] = me] /\ UNCHANGED <<queue, line>>
    BY <1>5, <2>1 DEF Attempt
  <2> HIDE DEF me
  <2> QED BY <1>4, <2>2, <2>3
<1>6. ASSUME NEW w \in Workers, NEW pc \in {"dead", "get", "leaving"}, ~Sending(w),
             worker' = [worker EXCEPT ![w] = [Dead EXCEPT !.pc = pc]], UNCHANGED <<queue, line>>
      PROVE  InOrder'
  <2>1. [Dead EXCEPT !.pc = pc].pc # "send"
    BY DeadType
  <2>2. \A v \in Workers : (Sending(v)' <=> Sending(v)) /\ (Sending(v) => worker'[v].event = worker[v].event)
    BY <1>0, <1>6, <2>1 DEF Sending, Typed
  <2> QED BY <1>6, <2>2 DEF InOrder
<1>7. ASSUME NEW w \in Workers, GiveUp(w) PROVE InOrder'
  BY <1>6, <1>7 DEF GiveUp, Sending
<1>8. ASSUME NEW w \in Workers, End(w) PROVE InOrder'
  <2>1. worker' = [worker EXCEPT ![w] = [Dead EXCEPT !.pc = "dead"]]
    BY <1>8, DeadIsDead DEF End
  <2> QED BY <1>6, <1>8, <2>1 DEF End, Sending
<1>9. ASSUME NEW p \in Producers, Start(p) PROVE InOrder'
  <2>1. PICK w \in Workers : ~Alive(w) /\ worker' = [worker EXCEPT ![w] = [Dead EXCEPT !.pc = "get"]]
    BY <1>9 DEF Start
  <2>2. ~Sending(w) /\ UNCHANGED <<queue, line>>
    BY <1>9, <2>1 DEF Start, Sending, Alive
  <2> QED BY <1>6, <2>1, <2>2
<1>10. CASE Restart
  BY <1>10 DEF Restart, InOrder, Sending, Dead
<1>11. ASSUME NEW p \in Producers, Drop(p) \/ Check(p) PROVE InOrder'
  BY <1>11 DEF Drop, Check, InOrder, Sending
<1>12. CASE UNCHANGED vars
  BY <1>12 DEF vars, InOrder, Sending
<1> QED
  BY <1>1, <1>2, <1>3, <1>5, <1>7, <1>8, <1>9, <1>10, <1>11, <1>12 DEF Next, Enqueue, WorkerStep

-----------------------------------------------------------------------------
(* The records of an event: each endpoint still to come has none and no    *)
(* request, but for the attempts at the first; each one that was dealt     *)
(* with has one record, and "delivered" was received.                      *)
Once(s) == \A i, j \in 1..Len(s) : s[i] = s[j] => i = j

ToCome(me, i) ==
    /\ <<i, "delivered">> \notin me.records /\ <<i, "failed">> \notin me.records
    /\ me.got[i] <= (IF i = Head(me.rest) THEN me.attempt - 1 ELSE 0)
    /\ i \in Plain => me.got[i] = 0

DealtWith(me, i) ==
    /\ me.got[i] <= Attempts /\ (i \in Plain => me.got[i] = 0)
    /\ \/ <<i, "delivered">> \in me.records /\ <<i, "failed">> \notin me.records /\ me.got[i] > 0
       \/ <<i, "failed">> \in me.records /\ <<i, "delivered">> \notin me.records

Nothing(me) == me.rest = <<>> /\ me.records = {} /\ \A i \in EndpointIds : me.got[i] = 0

Faithful(me) ==
    /\ Once(me.rest)
    /\ \/ Nothing(me)
       \/ \A i \in EndpointIds : IF i \in Range(me.rest) THEN ToCome(me, i) ELSE DealtWith(me, i)

AllFaithful == \A w \in Workers : Sending(w) => Faithful(worker[w])

LEMMA EndpointsFinite == IsFiniteSet(EndpointIds) /\ IsFiniteSet(Outcomes)
<1>1. IsFiniteSet(1..Len(Endpoints)) /\ DOMAIN Endpoints = 1..Len(Endpoints)
  BY WebhookAssumption, FS_Interval
<1>2. Endpoints \in Surjection(1..Len(Endpoints), EndpointIds)
  BY <1>1, WebhookAssumption DEF Surjection, EndpointIds, Range
<1>3. IsFiniteSet(EndpointIds)
  BY <1>1, <1>2, FS_Surjection
<1>4. IsFiniteSet({"delivered"}) /\ IsFiniteSet({"failed"})
  BY FS_Singleton
<1>5. IsFiniteSet({"delivered", "failed"})
  <2>1. IsFiniteSet({"delivered"} \cup {"failed"})
    BY <1>4, FS_Union
  <2>2. {"delivered"} \cup {"failed"} = {"delivered", "failed"}
    OBVIOUS
  <2> QED BY <2>1, <2>2
<1> QED BY <1>3, <1>5, FS_Product DEF Outcomes

(* Where each endpoint has one outcome at most, records count endpoints.   *)
LEMMA OneEach ==
    ASSUME NEW R \in SUBSET Outcomes,
           \A i \in EndpointIds : ~(<<i, "delivered">> \in R /\ <<i, "failed">> \in R)
    PROVE  Cardinality({r[1] : r \in R}) = Cardinality(R)
<1> DEFINE T == {r[1] : r \in R}
           f == [r \in R |-> r[1]]
<1>1. IsFiniteSet(R)
  BY EndpointsFinite, FS_Subset
<1>2. f \in [R -> T] /\ \A t \in T : \E r \in R : f[r] = t
  OBVIOUS
<1>3. \A r, s \in R : f[r] = f[s] => r = s
  <2> SUFFICES ASSUME NEW r \in R, NEW s \in R, r[1] = s[1] PROVE r = s
    OBVIOUS
  <2>1. r \in Outcomes /\ s \in Outcomes
    OBVIOUS
  <2>2. r = <<r[1], r[2]>> /\ s = <<s[1], s[2]>> /\ r[1] \in EndpointIds
          /\ r[2] \in {"delivered", "failed"} /\ s[2] \in {"delivered", "failed"}
    BY <2>1 DEF Outcomes
  <2> QED BY <2>2
<1>4. f \in Bijection(R, T)
  <2> HIDE DEF f, T
  <2> QED BY <1>2, <1>3, Fun_IsBij
<1>5. Bijection(R, T) # {}
  BY <1>4
<1> HIDE DEF T, f
<1>6. Cardinality(T) = Cardinality(R)
  BY <1>1, <1>5, FS_Bijection DEF ExistsBijection
<1> QED BY <1>6 DEF T

LEMMA FaithfulIsTrue == IInv /\ AllFaithful => RecordsAreTrue
<1> SUFFICES ASSUME IInv, AllFaithful, NEW w \in Workers, Sending(w)
             PROVE  LET me == worker[w]
                    IN  /\ \/ {r[1] : r \in me.records} = EndpointIds \ Range(me.rest)
                           \/ me.rest = <<>> /\ me.records = {}
                        /\ Cardinality({r[1] : r \in me.records}) = Cardinality(me.records)
                        /\ \A i \in EndpointIds :
                              /\ <<i, "delivered">> \in me.records => me.got[i] > 0
                              /\ me.got[i] <= IF i \in Plain THEN 0 ELSE Attempts
  BY DEF RecordsAreTrue
<1> DEFINE me == worker[w]
<1>1. me \in WorkerType /\ Faithful(me)
  BY DEF IInv, Typed, AllFaithful
<1>2. me.records \in SUBSET Outcomes /\ me.got \in [EndpointIds -> Nat] /\ me.attempt \in 1..Attempts
        /\ Attempts \in Nat
  BY <1>1, WebhookAssumption DEF WorkerType, Counts
<1> HIDE DEF me
<1>3. CASE Nothing(me)
  <2>1. \A i \in EndpointIds : ~(<<i, "delivered">> \in me.records /\ <<i, "failed">> \in me.records)
    BY <1>3 DEF Nothing
  <2> QED BY <1>2, <1>3, <2>1, OneEach DEF Nothing, me
<1>4. CASE \A i \in EndpointIds : IF i \in Range(me.rest) THEN ToCome(me, i) ELSE DealtWith(me, i)
  <2>1. \A i \in EndpointIds : ~(<<i, "delivered">> \in me.records /\ <<i, "failed">> \in me.records)
    BY <1>4 DEF ToCome, DealtWith
  <2>2. \A i \in EndpointIds : (<<i, "delivered">> \in me.records => me.got[i] > 0)
                          /\ me.got[i] <= IF i \in Plain THEN 0 ELSE Attempts
    <3> SUFFICES ASSUME NEW i \in EndpointIds
                 PROVE  (<<i, "delivered">> \in me.records => me.got[i] > 0)
                          /\ me.got[i] <= IF i \in Plain THEN 0 ELSE Attempts
      OBVIOUS
    <3>1. CASE i \in Range(me.rest)
      <4>1. ToCome(me, i) /\ me.got[i] \in Nat
        BY <1>2, <1>4, <3>1
      <4> QED BY <1>2, <4>1 DEF ToCome
    <3>2. CASE i \notin Range(me.rest)
      <4>1. DealtWith(me, i)
        BY <1>4, <3>2
      <4> QED BY <4>1 DEF DealtWith
    <3> QED BY <3>1, <3>2
  <2>3. \A r \in me.records : r[1] \in EndpointIds \ Range(me.rest)
    <3> SUFFICES ASSUME NEW r \in me.records PROVE r[1] \in EndpointIds \ Range(me.rest)
      OBVIOUS
    <3>1. r \in Outcomes
      BY <1>2
    <3>2. r[1] \in EndpointIds /\ (r = <<r[1], "delivered">> \/ r = <<r[1], "failed">>)
      BY <3>1 DEF Outcomes
    <3> QED BY <1>4, <3>2 DEF ToCome
  <2>4. \A i \in EndpointIds \ Range(me.rest) : \E r \in me.records : r[1] = i
    <3> SUFFICES ASSUME NEW i \in EndpointIds \ Range(me.rest) PROVE \E r \in me.records : r[1] = i
      OBVIOUS
    <3>1. DealtWith(me, i)
      BY <1>4
    <3>2. <<i, "delivered">>[1] = i /\ <<i, "failed">>[1] = i
      OBVIOUS
    <3> QED BY <3>1, <3>2 DEF DealtWith
  <2>5. {r[1] : r \in me.records} = EndpointIds \ Range(me.rest)
    BY <2>3, <2>4
  <2> QED BY <1>2, <2>1, <2>2, <2>5, OneEach DEF me
<1> QED BY <1>1, <1>3, <1>4 DEF Faithful

(* The first of a sequence whose elements differ, and the others.          *)
LEMMA HeadApart ==
    ASSUME NEW s \in RestSeq, s # <<>>, Once(s)
    PROVE  /\ Head(s) \in EndpointIds /\ Tail(s) \in RestSeq /\ Once(Tail(s))
           /\ Range(Tail(s)) = Range(s) \ {Head(s)}
           /\ Head(s) \in Range(s)
<1>1. Head(s) \in EndpointIds /\ Tail(s) \in RestSeq /\ Len(Tail(s)) = Len(s) - 1 /\ Len(s) > 0
        /\ Len(s) \in Nat /\ Head(s) = s[1] /\ \A i \in 1..Len(Tail(s)) : Tail(s)[i] = s[i + 1]
  BY DEF RestSeq
<1>2. Once(Tail(s))
  BY <1>1 DEF Once
<1>3. Range(s) = {s[i] : i \in 1..Len(s)} /\ Range(Tail(s)) = {Tail(s)[i] : i \in 1..Len(Tail(s))}
  <2>1. DOMAIN s = 1..Len(s) /\ DOMAIN Tail(s) = 1..Len(Tail(s))
    BY <1>1 DEF RestSeq
  <2> QED BY <2>1 DEF Range
<1>4. Head(s) \in Range(s)
  BY <1>1, <1>3
<1>5. \A x \in Range(Tail(s)) : x \in Range(s) /\ x # Head(s)
  BY <1>1, <1>3 DEF Once
<1>6. \A x \in Range(s) : x # Head(s) => x \in Range(Tail(s))
  <2> SUFFICES ASSUME NEW i \in 1..Len(s), s[i] # Head(s) PROVE s[i] \in Range(Tail(s))
    BY <1>3
  <2>1. i - 1 \in 1..Len(Tail(s)) /\ Tail(s)[i - 1] = s[i]
    BY <1>1
  <2> QED BY <1>3, <2>1
<1> QED BY <1>1, <1>2, <1>4, <1>5, <1>6

(* An event that is taken has no record and no request yet.                *)
LEMMA TakeFaithful ==
    ASSUME NEW e, NEW rest \in {Endpoints, <<>>}
    PROVE  Faithful([Dead EXCEPT !.pc = "send", !.event = e, !.rest = rest])
<1> DEFINE me == [Dead EXCEPT !.pc = "send", !.event = e, !.rest = rest]
<1>1. me.rest = rest /\ me.records = {} /\ me.attempt = 1 /\ me.got = [i \in EndpointIds |-> 0]
  BY DEF Dead
<1> HIDE DEF me
<1>2. Once(rest)
  BY WebhookAssumption DEF Once
<1>3. CASE rest = <<>>
  BY <1>1, <1>2, <1>3 DEF Faithful, Nothing, me
<1>4. CASE rest = Endpoints
  <2>1. Range(rest) = EndpointIds
    BY <1>4 DEF EndpointIds
  <2>2. \A i \in EndpointIds : ToCome(me, i)
    BY <1>1 DEF ToCome
  <2> QED BY <1>1, <1>2, <2>1, <2>2 DEF Faithful, me
<1> QED BY <1>3, <1>4

(* An attempt is counted for its endpoint, and told when it was the last.  *)
LEMMA AnswerFaithful ==
    ASSUME IInv, NEW w \in Workers, worker[w].rest # <<>>, Faithful(worker[w]),
           NEW answered \in BOOLEAN, NEW arrives \in BOOLEAN,
           answered => arrives, arrives => Head(worker[w].rest) \notin Plain
    PROVE  Faithful([Answer(w, answered) EXCEPT
                       !.got[Head(worker[w].rest)] = @ + (IF arrives THEN 1 ELSE 0)])
<1> DEFINE me == worker[w]
           head == Head(me.rest)
           n == IF arrives THEN 1 ELSE 0
           ans == Answer(w, answered)
           after == [ans EXCEPT !.got[head] = @ + n]
           final == answered \/ FinalAttempt(w)
           told == <<head, IF answered THEN "delivered" ELSE "failed">>
<1>1. me \in WorkerType /\ me.rest \in RestSeq /\ Once(me.rest) /\ me.rest # <<>>
  BY DEF IInv, Typed, Faithful, WorkerType
<1>2. head \in EndpointIds /\ head \in Range(me.rest) /\ Once(Tail(me.rest))
        /\ Range(Tail(me.rest)) = Range(me.rest) \ {head}
  BY <1>1, HeadApart
<1>3. \A i \in EndpointIds : IF i \in Range(me.rest) THEN ToCome(me, i) ELSE DealtWith(me, i)
  BY <1>1 DEF Faithful, Nothing
<1>4. me.got \in [EndpointIds -> Nat] /\ me.attempt \in 1..Attempts /\ Attempts \in Nat
        /\ n \in {0, 1} /\ (answered => n = 1) /\ (~FinalAttempt(w) => me.attempt < Attempts)
        /\ (head \in Plain => n = 0)
  BY <1>1, WebhookAssumption DEF WorkerType, Counts, FinalAttempt
<1>5. ans = IF final THEN [me EXCEPT !.rest = Tail(@), !.attempt = 1, !.records = @ \cup {told}]
            ELSE [me EXCEPT !.attempt = @ + 1]
  BY DEF Answer
<1>6. ans.got = me.got /\ "got" \in DOMAIN ans
  BY <1>1, <1>5 DEF WorkerType
<1>7. after.rest = ans.rest /\ after.records = ans.records /\ after.attempt = ans.attempt
        /\ after.got = [me.got EXCEPT ![head] = @ + n]
  <2>1. after = [ans EXCEPT !.got = [ans.got EXCEPT ![head] = @ + n]]
    OBVIOUS
  <2> HIDE DEF ans, head, n
  <2> QED BY <1>6, <2>1, <1>1, <1>5 DEF WorkerType
<1>8. after.got[head] = me.got[head] + n /\ \A i \in EndpointIds \ {head} : after.got[i] = me.got[i]
  <2> HIDE DEF after, head, n, me
  <2> QED BY <1>2, <1>4, <1>7
<1>9. me.got[head] <= me.attempt - 1 /\ me.got[head] \in Nat
        /\ <<head, "delivered">> \notin me.records /\ <<head, "failed">> \notin me.records
        /\ (head \in Plain => me.got[head] = 0)
  BY <1>2, <1>3, <1>4 DEF ToCome
<1>10. CASE ~final
  <2>1. after.rest = me.rest /\ after.records = me.records /\ after.attempt = me.attempt + 1
    BY <1>1, <1>5, <1>7, <1>10 DEF WorkerType
  <2>2. \A i \in EndpointIds : IF i \in Range(me.rest) THEN ToCome(after, i) ELSE DealtWith(after, i)
    <3> SUFFICES ASSUME NEW i \in EndpointIds
                 PROVE  IF i \in Range(me.rest) THEN ToCome(after, i) ELSE DealtWith(after, i)
      OBVIOUS
    <3> HIDE DEF after, head, n, me, ans, final
    <3>1. CASE i = head
      <4>0. after.got[i] <= after.attempt - 1
        BY <1>4, <1>8, <1>9, <2>1, <3>1
      <4>1. after.got[i] <= after.attempt - 1 /\ (i \in Plain => after.got[i] = 0)
        <5> SUFFICES ASSUME i \in Plain PROVE after.got[i] = 0
          BY <4>0
        <5>1. head \in Plain
          BY <3>1
        <5>2. n = 0 /\ me.got[head] = 0
          BY <1>4, <1>9, <5>1
        <5>3. after.got[i] = me.got[head] + n
          BY <1>8, <3>1
        <5> QED BY <5>2, <5>3
      <4>2. <<i, "delivered">> \notin after.records /\ <<i, "failed">> \notin after.records
        BY <1>9, <2>1, <3>1
      <4>3. i = Head(after.rest) /\ i \in Range(me.rest)
        BY <1>2, <2>1, <3>1 DEF head
      <4>4. ToCome(after, i)
        BY <4>1, <4>2, <4>3 DEF ToCome
      <4> QED BY <4>3, <4>4
    <3>2. CASE i # head
      BY <1>3, <1>8, <2>1, <3>2 DEF ToCome, DealtWith, head
    <3> QED BY <3>1, <3>2
  <2> QED BY <1>1, <2>1, <2>2 DEF Faithful
<1>11. CASE final
  <2>1. after.rest = Tail(me.rest) /\ after.records = me.records \cup {told} /\ after.attempt = 1
    BY <1>1, <1>5, <1>7, <1>11 DEF WorkerType
  <2>2. \A i \in EndpointIds : IF i \in Range(Tail(me.rest)) THEN ToCome(after, i) ELSE DealtWith(after, i)
    <3> SUFFICES ASSUME NEW i \in EndpointIds
                 PROVE  IF i \in Range(Tail(me.rest)) THEN ToCome(after, i) ELSE DealtWith(after, i)
      OBVIOUS
    <3>0. (told = <<head, "delivered">> /\ answered) \/ told = <<head, "failed">>
      OBVIOUS
    <3> HIDE DEF after, head, n, me, ans, final, told
    <3>1. CASE i = head
      <4>1. after.got[i] <= Attempts /\ (answered => after.got[i] > 0)
            /\ (i \in Plain => after.got[i] = 0)
        BY <1>4, <1>8, <1>9, <3>1
      <4>2. DealtWith(after, i)
        BY <1>9, <2>1, <3>0, <3>1, <4>1 DEF DealtWith
      <4> QED BY <1>2, <3>1, <4>2
    <3>2. CASE i # head
      <4>1. after.got[i] = me.got[i] /\ \A s : <<i, s>> \in after.records <=> <<i, s>> \in me.records
        BY <1>8, <2>1, <3>0, <3>2
      <4>2. CASE i \in Range(me.rest)
        <5>1. ToCome(me, i) /\ i \in Range(Tail(me.rest)) /\ me.got[i] \in Nat
          BY <1>2, <1>3, <1>4, <3>2, <4>2
        <5>2. me.got[i] = 0
          BY <3>2, <5>1 DEF ToCome, head
        <5> QED BY <2>1, <4>1, <5>1, <5>2 DEF ToCome
      <4>3. CASE i \notin Range(me.rest)
        BY <1>2, <1>3, <4>1, <4>3 DEF DealtWith
      <4> QED BY <4>2, <4>3
    <3> QED BY <3>1, <3>2
  <2> QED BY <1>2, <2>1, <2>2 DEF Faithful
<1> QED BY <1>10, <1>11

LEMMA FaithfulStep == IInv /\ AllFaithful /\ [Next]_vars => AllFaithful'
<1> SUFFICES ASSUME IInv, AllFaithful, [Next]_vars PROVE AllFaithful'
  OBVIOUS
<1>0. worker \in [Workers -> WorkerType]
  BY DEF IInv, Typed
<1>1. ASSUME NEW w \in Workers, NEW me, worker' = [worker EXCEPT ![w] = me],
             me.pc = "send" => Faithful(me)
      PROVE  AllFaithful'
  BY <1>0, <1>1 DEF AllFaithful, Sending
<1>2. ASSUME NEW w \in Workers, Take(w) PROVE AllFaithful'
  <2>1. PICK rest \in {Endpoints, <<>>} :
          worker' = [worker EXCEPT ![w] = [Dead EXCEPT !.pc = "send", !.event = Head(queue), !.rest = rest]]
    BY <1>2 DEF Take
  <2> QED BY <1>1, <2>1, TakeFaithful
<1>3. ASSUME NEW w \in Workers, NEW pc \in {"dead", "get", "leaving"},
             worker' = [worker EXCEPT ![w] = [Dead EXCEPT !.pc = pc]]
      PROVE  AllFaithful'
  <2>1. [Dead EXCEPT !.pc = pc].pc # "send"
    BY DeadType
  <2> QED BY <1>1, <1>3, <2>1
<1>4. ASSUME NEW w \in Workers, GiveUp(w) \/ NextEvent(w) \/ Die(w) PROVE AllFaithful'
  BY <1>3, <1>4 DEF GiveUp, NextEvent, Die
<1>5. ASSUME NEW w \in Workers, End(w) PROVE AllFaithful'
  <2>1. worker' = [worker EXCEPT ![w] = [Dead EXCEPT !.pc = "dead"]]
    BY <1>5, DeadIsDead DEF End
  <2> QED BY <1>3, <2>1
<1>6. ASSUME NEW p \in Producers, Start(p) PROVE AllFaithful'
  <2>1. PICK w \in Workers : worker' = [worker EXCEPT ![w] = [Dead EXCEPT !.pc = "get"]]
    BY <1>6 DEF Start
  <2> QED BY <1>3, <2>1
<1>7. ASSUME NEW w \in Workers, Attempt(w) PROVE AllFaithful'
  <2>1. PICK arrives \in BOOLEAN, answered \in BOOLEAN :
          /\ (answered => arrives) /\ (arrives => Head(worker[w].rest) \notin Plain)
          /\ worker' = [worker EXCEPT ![w] =
               [Answer(w, answered) EXCEPT !.got[Head(worker[w].rest)] = @ + (IF arrives THEN 1 ELSE 0)]]
    BY <1>7 DEF Attempt
  <2>2. Faithful(worker[w]) /\ worker[w].rest # <<>>
    BY <1>7 DEF Attempt, AllFaithful, Sending
  <2> QED BY <1>1, <2>1, <2>2, AnswerFaithful
<1>8. CASE Restart
  BY <1>8, DeadType, DeadIsDead DEF Restart, AllFaithful, Sending, Dead
<1>9. ASSUME UNCHANGED worker PROVE AllFaithful'
  BY <1>9 DEF AllFaithful, Sending
<1>10. ASSUME NEW p \in Producers, Drop(p) \/ Check(p) \/ \E e \in Events : Put(p, e) PROVE AllFaithful'
  BY <1>9, <1>10 DEF Drop, Check, Put
<1>11. CASE UNCHANGED vars
  BY <1>9, <1>11 DEF vars
<1> QED
  BY <1>2, <1>4, <1>5, <1>6, <1>7, <1>8, <1>10, <1>11 DEF Next, Enqueue, WorkerStep

-----------------------------------------------------------------------------
(* The queue of the dispatcher holds events, never more than queue_size of *)
(* them, and no event is attempted oftener than max_attempts.              *)
THEOREM TypeCorrect == Spec => []TypeOK
<1>1. IInv => TypeOK
  BY DEF IInv, Typed, TypeOK, WorkerType, EventSeq
<1> QED BY <1>1, Invariant, PTL

(* However requests put events, threads run out of work or die, and the    *)
(* process restarts: the dispatcher never has two workers (_ensure_worker).*)
THEOREM OneWorkerOnly == Spec => []OneWorker
<1>1. IInv => OneWorker
  BY DEF IInv
<1> QED BY <1>1, Invariant, PTL

(* Events go out in the order in which they were put, and what is not      *)
(* through is at hand or in the queue (_worker, deliver_now).              *)
THEOREM SentInOrder == Spec => []InOrder
<1>1. Init => InOrder
  BY DEF Init, InOrder, Sending, Dead
<1> QED BY <1>1, OrderStep, Invariant, PTL DEF Spec

(* Each endpoint that was dealt with has one record that tells the truth,  *)
(* and none is asked oftener than max_attempts (deliver_now, _deliver).    *)
THEOREM DeliveriesTrue == Spec => []DeliveriesAreTrue
<1>1. Init => AllFaithful
  BY DEF Init, AllFaithful, Sending, Dead
<1>2. IInv /\ AllFaithful => DeliveriesAreTrue
  <2>1. IInv => TypeOK /\ OneWorker
    BY DEF IInv, Typed, TypeOK, WorkerType, EventSeq
  <2> QED BY <2>1, FaithfulIsTrue DEF DeliveriesAreTrue
<1> QED BY <1>1, <1>2, FaithfulStep, Invariant, PTL DEF Spec
=============================================================================
