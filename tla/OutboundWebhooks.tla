-------------------------- MODULE OutboundWebhooks --------------------------
(***************************************************************************)
(* The dispatcher of outbound webhooks: requests put audit events into a   *)
(* bounded queue and make sure that a worker thread runs; the worker ends  *)
(* when the queue stays empty, and sends every event to the endpoints in   *)
(* turn, with retries.                                                     *)
(*                                                                         *)
(* Event identities are used again when their last use is over, so that    *)
(* behaviours go on for ever; `line` is what was put and is not over: sent *)
(* to its endpoints, or given up with the rest of them by a dying thread.  *)
(***************************************************************************)
EXTENDS Naturals, Sequences, SequencesExt, FiniteSets

CONSTANTS
    Events,
    Producers,  \* requests that record an audit event
    Workers,    \* thread objects
    Endpoints,  \* sequence: the enabled endpoints that match, in the file's order
    Plain,      \* those of them with an http address that is not allowed
    Capacity,   \* queue_size
    Attempts,   \* max_attempts
    Uncaught,   \* an answer may raise what _deliver does not catch
    MaxLate,    \* bound: events put while a worker that gave up is still alive
    None

ASSUME WebhookAssumption ==
    /\ {Capacity, Attempts} \subseteq Nat \ {0} /\ MaxLate \in Nat
    /\ Endpoints \in Seq(Range(Endpoints)) /\ Plain \subseteq Range(Endpoints)
    /\ Uncaught \in BOOLEAN
    \* load_config refuses an id that is used twice
    /\ \A i, j \in 1..Len(Endpoints) : Endpoints[i] = Endpoints[j] => i = j
    /\ None \notin Events \cup Workers \cup Producers

VARIABLES
    queue,      \* Dispatcher.queue
    thread,     \* Dispatcher._thread
    lock,       \* Dispatcher._lock
    producer,   \* Producers -> place in enqueue
    worker,     \* Workers -> [pc, event, rest, attempt] and, of its event, the
                \* records of delivery.jsonl and the requests each endpoint got
    dropped,    \* Dispatcher._dropped modulo 2
    line,       \* history: events put and not over, in that order; what
                \* is over next should be its first
    late        \* puts since the worker gave up

vars == <<queue, thread, lock, producer, worker, dropped, line, late>>

EndpointIds == Range(Endpoints)
Dead == [pc |-> "dead", event |-> None, rest |-> <<>>, attempt |-> 1,
         records |-> {}, got |-> [i \in EndpointIds |-> 0]]

Init ==
    /\ queue = <<>> /\ thread = None /\ lock = None
    /\ producer = [p \in Producers |-> "idle"]
    /\ worker = [w \in Workers |-> Dead]
    /\ dropped = 0 /\ line = <<>> /\ late = 0

Alive(w) == worker[w].pc # "dead"

-----------------------------------------------------------------------------
(* enqueue *)
Full == Len(queue) >= Capacity

Put(p, e) ==
    /\ producer[p] = "idle" /\ e \notin Range(line) /\ ~Full
    /\ (thread # None /\ worker[thread].pc = "leaving") => late < MaxLate
    /\ late' = IF thread # None /\ worker[thread].pc = "leaving" THEN late + 1 ELSE 0
    /\ queue' = Append(queue, e) /\ line' = Append(line, e)
    /\ producer' = [producer EXCEPT ![p] = "ensure"]
    /\ UNCHANGED <<thread, lock, worker, dropped>>

(* queue.Full: the drop is counted and recorded, no worker is looked for. *)
Drop(p) ==
    /\ producer[p] = "idle" /\ Full
    /\ dropped' = (dropped + 1) % 2
    /\ UNCHANGED <<queue, thread, lock, producer, worker, line, late>>

Enqueue == \E p \in Producers : Drop(p) \/ \E e \in Events : Put(p, e)

(* _ensure_worker: `with self._lock` *)
Free(p) == lock = None

Serving == thread # None /\ Alive(thread)

Check(p) ==
    /\ producer[p] = "ensure" /\ Free(p)
    /\ producer' = [producer EXCEPT ![p] = IF Serving THEN "idle" ELSE "start"]
    /\ lock' = IF Serving THEN None ELSE p
    /\ UNCHANGED <<queue, thread, worker, dropped, line, late>>

Start(p) ==
    /\ producer[p] = "start"
    /\ \E w \in Workers :
          /\ ~Alive(w) /\ thread' = w
          /\ worker' = [worker EXCEPT ![w] = [Dead EXCEPT !.pc = "get"]]
    /\ producer' = [producer EXCEPT ![p] = "idle"] /\ lock' = None /\ late' = 0
    /\ UNCHANGED <<queue, dropped, line>>

-----------------------------------------------------------------------------
(* _worker *)
(* A configuration that cannot be read has no endpoints. *)
Take(w) ==
    /\ worker[w].pc = "get" /\ queue # <<>>
    /\ \E rest \in {Endpoints, <<>>} :
          worker' = [worker EXCEPT ![w] =
                        [Dead EXCEPT !.pc = "send", !.event = Head(queue), !.rest = rest]]
    /\ queue' = Tail(queue)
    /\ UNCHANGED <<thread, lock, producer, dropped, line, late>>

GiveUp(w) ==
    /\ worker[w].pc = "get" /\ queue = <<>>
    /\ worker' = [worker EXCEPT ![w] = [Dead EXCEPT !.pc = "leaving"]]
    /\ late' = 0
    /\ UNCHANGED <<queue, thread, lock, producer, dropped, line>>

End(w) ==
    /\ worker[w].pc = "leaving"
    /\ worker' = [worker EXCEPT ![w] = Dead]
    /\ UNCHANGED <<queue, thread, lock, producer, dropped, line, late>>

(* One attempt of _deliver. A request may arrive and its answer be lost.   *)
(* To an address that is not allowed there is none, and it has failed.     *)
FinalAttempt(w) == worker[w].attempt >= Attempts \/ Head(worker[w].rest) \in Plain

(* Fault: the first failure is final, and is not recorded. *)
Answer_Once(w, answered) ==
    [worker[w] EXCEPT !.rest = Tail(@),
                      !.records = IF answered THEN @ \cup {<<Head(worker[w].rest), "delivered">>} ELSE @]
Answer(w, answered) ==
    IF ~answered /\ ~FinalAttempt(w) THEN [worker[w] EXCEPT !.attempt = @ + 1]
    ELSE [worker[w] EXCEPT
            !.rest = Tail(@), !.attempt = 1,
            !.records = @ \cup {<<Head(worker[w].rest), IF answered THEN "delivered" ELSE "failed">>}]

Attempt(w) ==
    /\ worker[w].pc = "send" /\ worker[w].rest # <<>>
    /\ \E arrives, answered \in BOOLEAN :
          /\ (answered => arrives) /\ (arrives => Head(worker[w].rest) \notin Plain)
          /\ worker' = [worker EXCEPT ![w] =
                [Answer(w, answered) EXCEPT !.got[Head(worker[w].rest)] = @ + (IF arrives THEN 1 ELSE 0)]]
    /\ UNCHANGED <<queue, thread, lock, producer, dropped, line, late>>

NextEvent(w) ==
    /\ worker[w].pc = "send" /\ worker[w].rest = <<>>
    /\ worker' = [worker EXCEPT ![w] = [Dead EXCEPT !.pc = "get"]]
    /\ line' = Tail(line)
    /\ UNCHANGED <<queue, thread, lock, producer, dropped, late>>

(* Fault: what could not be sent is queued again. *)
Die_Requeue(w) ==
    /\ Uncaught /\ worker[w].pc = "send" /\ worker[w].rest # <<>> /\ ~Full
    /\ queue' = Append(queue, worker[w].event)
    /\ worker' = [worker EXCEPT ![w] = [Dead EXCEPT !.pc = "leaving"]]
    /\ UNCHANGED <<thread, lock, producer, dropped, line, late>>

(* http.client.HTTPException is neither a URLError nor an OSError: it      *)
(* leaves _deliver, deliver_now and _worker, and the thread ends: the      *)
(* endpoints that are left do not get the event.                           *)
Die(w) ==
    /\ Uncaught /\ worker[w].pc = "send" /\ worker[w].rest # <<>>
    /\ Head(worker[w].rest) \notin Plain
    /\ worker' = [worker EXCEPT ![w] = [Dead EXCEPT !.pc = "leaving"]]
    /\ line' = Tail(line)
    /\ late' = 0
    /\ UNCHANGED <<queue, thread, lock, producer, dropped>>

(* Queue and threads are the process's. *)
Restart ==
    /\ queue' = <<>> /\ thread' = None /\ lock' = None /\ line' = <<>> /\ late' = 0
    /\ producer' = [p \in Producers |-> "idle"] /\ worker' = [w \in Workers |-> Dead]
    /\ dropped' = 0

WorkerStep(w) == Take(w) \/ GiveUp(w) \/ End(w) \/ Attempt(w) \/ NextEvent(w) \/ Die(w)

Next ==
    \/ Enqueue \/ Restart
    \/ \E p \in Producers : Check(p) \/ Start(p)
    \/ \E w \in Workers : WorkerStep(w)

Spec == Init /\ [][Next]_vars

(* Every attempt has a timeout and a queue is never waited for longer than *)
(* a second; a request that put an event goes on to look for the worker.   *)
FairSpec ==
    /\ Spec
    /\ \A w \in Workers : WF_vars(WorkerStep(w))
    /\ \A p \in Producers : WF_vars(Check(p) \/ Start(p))

-----------------------------------------------------------------------------
(* Properties.                                                             *)
Sending(w) == worker[w].pc = "send"

(* The variables stay in their sets; the queue keeps its limit.            *)
TypeOK ==
    /\ queue \in Seq(Events) /\ Len(queue) <= Capacity
    /\ thread \in Workers \cup {None} /\ lock \in Producers \cup {None}
    /\ producer \in [Producers -> {"idle", "ensure", "start"}]
    /\ \A w \in Workers :
          /\ worker[w].pc \in {"dead", "get", "send", "leaving"}
          /\ Sending(w) => worker[w].event \in Events /\ worker[w].attempt \in 1..Attempts

(* However enqueues and ends of workers interleave, one worker is alive at *)
(* most, and it is the one the dispatcher knows (_ensure_worker).          *)
OneWorker == \A w \in Workers : Alive(w) => w = thread

(* Events are sent in the order in which they were put, each by itself and *)
(* none passed over: what is not over is at hand or in the queue (_worker).*)
InOrder ==
    \/ /\ \A w \in Workers : ~Sending(w)
       /\ line = queue
    \/ \E w \in Workers :
          /\ Sending(w) /\ line = <<worker[w].event>> \o queue
          /\ \A v \in Workers \ {w} : ~Sending(v)

(* The records of an event tell what happened to it: each endpoint that    *)
(* was dealt with has one, "delivered" was received, and no endpoint gets  *)
(* a request oftener than max_attempts, or over http if that is not        *)
(* allowed (deliver_now, _deliver).                                        *)
RecordsAreTrue ==
    \A w \in Workers : Sending(w) =>
        LET me == worker[w]
        IN  /\ \/ {r[1] : r \in me.records} = EndpointIds \ Range(me.rest)
               \/ me.rest = <<>> /\ me.records = {}
            /\ Cardinality({r[1] : r \in me.records}) = Cardinality(me.records)
            /\ \A i \in EndpointIds :
                  /\ <<i, "delivered">> \in me.records => me.got[i] > 0
                  /\ me.got[i] <= IF i \in Plain THEN 0 ELSE Attempts

(* One worker is alive at most, and the records of an event tell what      *)
(* happened to it (_ensure_worker, _deliver).                              *)
DeliveriesAreTrue == TypeOK /\ OneWorker /\ RecordsAreTrue

(* As long as events keep coming, the worker comes back and none of them   *)
(* waits for ever.                                                         *)
EventsAreTaken ==
    []<><<Enqueue>>_vars => \A e \in Events : (e \in Range(queue)) ~> (e \notin Range(queue))
=============================================================================
