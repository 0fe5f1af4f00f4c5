------------------------- MODULE AdminDispatch_proofs -------------------------
(***************************************************************************)
(* Theorems about change contracts and about the gates of do_POST that     *)
(* they are the first of, for every set of threads, operators, targets,    *)
(* contracts, approvals and requests, every lifetime and any number of     *)
(* restarts.                                                               *)
(***************************************************************************)
EXTENDS AdminDispatch, TLAPS

-----------------------------------------------------------------------------
(* The contracts by themselves.                                            *)

Entries == Seq(CC!AcceptedType)

ContractsTyped ==
    /\ clock \in Nat /\ process \in Nat
    /\ contracts \in [ContractIds -> CC!ContractType]
    /\ consumed \in [ContractIds -> Nat]
    /\ attempt \in [Threads -> CC!AttemptType]
    /\ accepted \in [ContractIds -> Entries]

(* Every request past verify() carries a contract of this process, for its *)
(* operator and target; and consume() does not read a clock of the future. *)
AttemptsAreVerified ==
    \A t \in Threads : LET a == attempt[t] IN a.pc # "idle" =>
      /\ a.id \in ContractIds /\ a.operator \in Operators /\ a.target \in Targets
      /\ contracts[a.id].issuer = process
      /\ contracts[a.id].operator = a.operator /\ contracts[a.id].target = a.target
      /\ a.now <= clock

(* The guard remembers what it let through until the contract has expired, *)
(* in the process that can verify it.                                      *)
GuardRemembers ==
    \A c \in ContractIds : accepted[c] # << >> =>
      /\ contracts[c] # CC!NoContract
      /\ contracts[c].issuer = process =>
           consumed[c] = contracts[c].expires \/ contracts[c].expires <= clock

(* No contract was issued by a process that has not run yet. *)
IssuersHaveRun == \A c \in ContractIds : contracts[c].issuer <= process

ContractsInv == /\ ContractsTyped /\ IssuersHaveRun /\ AttemptsAreVerified /\ GuardRemembers
        /\ CC!AcceptedAsReviewed /\ CC!OnceWhileAlive

-----------------------------------------------------------------------------
LEMMA NothingType == CC!NoContract \in CC!ContractType /\ CC!NoAttempt \in CC!AttemptType /\ CC!NoAttempt.pc = "idle"
  BY DEF CC!NoContract, CC!NoAttempt, CC!ContractType, CC!AttemptType

LEMMA InitContracts == CC!Init => ContractsInv
<1> SUFFICES ASSUME CC!Init PROVE ContractsInv
  OBVIOUS
<1>1. << >> \in Entries /\ DOMAIN << >> = {}
  BY DEF Entries
<1>2. CC!NoContract.issuer <= 0
  BY DEF CC!NoContract
<1> QED BY <1>1, <1>2, NothingType DEF CC!Init, ContractsInv, ContractsTyped, IssuersHaveRun, AttemptsAreVerified,
       GuardRemembers, CC!AcceptedAsReviewed, CC!OnceWhileAlive

(* Dropping entries whose expiry has passed. *)
LEMMA PrunedType ==
    ASSUME ContractsInv, NEW now \in Nat, now <= clock
    PROVE  /\ CC!Pruned(now) \in [ContractIds -> Nat]
           /\ \A c \in ContractIds :
                CC!Pruned(now)[c] = consumed[c] \/ (CC!Pruned(now)[c] = 0 /\ consumed[c] <= clock)
  BY DEF ContractsInv, ContractsTyped, CC!Pruned

(* One more entry at the end. *)
LEMMA EntryAppended ==
    ASSUME NEW s \in Entries, NEW e \in CC!AcceptedType
    PROVE  /\ Append(s, e) \in Entries /\ Append(s, e) # << >>
           /\ DOMAIN Append(s, e) = DOMAIN s \cup {Len(s) + 1}
           /\ Append(s, e)[Len(s) + 1] = e
           /\ \A k \in DOMAIN s : Append(s, e)[k] = s[k]
           /\ s = << >> => DOMAIN s = {}
  BY DEF Entries

(* A step of one thread that leaves contracts and acceptances alone.       *)
LEMMA ThreadStep ==
    ASSUME ContractsInv, NEW t \in Threads, NEW a \in CC!AttemptType,
           attempt' = [attempt EXCEPT ![t] = a],
           a.pc # "idle" =>
             /\ a.id \in ContractIds /\ a.operator \in Operators /\ a.target \in Targets
             /\ contracts[a.id].issuer = process
             /\ contracts[a.id].operator = a.operator /\ contracts[a.id].target = a.target
             /\ a.now <= clock,
           UNCHANGED <<clock, process, contracts, accepted>>,
           consumed' \in [ContractIds -> Nat],
           \A c \in ContractIds : consumed'[c] = consumed[c] \/ consumed[c] <= clock
    PROVE  ContractsInv'
<1>1. ContractsTyped'
  BY DEF ContractsInv, ContractsTyped
<1>2. AttemptsAreVerified'
  BY DEF ContractsInv, ContractsTyped, AttemptsAreVerified
<1>3. GuardRemembers'
  BY DEF ContractsInv, GuardRemembers
<1> QED BY <1>1, <1>2, <1>3 DEF ContractsInv, IssuersHaveRun, CC!AcceptedAsReviewed, CC!OnceWhileAlive

LEMMA ConsumeStep ==
    ASSUME ContractsInv, NEW t \in Threads, CC!Consume(t)
    PROVE  ContractsInv'
<1> DEFINE a == attempt[t]
           e == [process |-> process, at |-> clock, operator |-> a.operator, target |-> a.target]
<1>1. /\ a \in CC!AttemptType /\ a.pc = "guard" /\ a.id \in ContractIds
      /\ a.operator \in Operators /\ a.target \in Targets
      /\ contracts[a.id].issuer = process /\ contracts[a.id].operator = a.operator
      /\ contracts[a.id].target = a.target /\ a.now <= clock /\ a.now \in Nat
  BY DEF CC!Consume, ContractsInv, ContractsTyped, AttemptsAreVerified, CC!AttemptType
<1>2. /\ CC!Pruned(a.now)[a.id] = 0
      /\ consumed' = [CC!Pruned(a.now) EXCEPT ![a.id] = contracts[a.id].expires]
      /\ accepted' = [accepted EXCEPT ![a.id] = Append(accepted[a.id], e)]
      /\ attempt' = [attempt EXCEPT ![t] = [a EXCEPT !.pc = "accepted"]]
      /\ UNCHANGED <<clock, process, contracts>>
  BY DEF CC!Consume
<1>3. e \in CC!AcceptedType /\ e.process = process /\ e.at = clock
        /\ e.operator = a.operator /\ e.target = a.target
  BY <1>1 DEF CC!AcceptedType, ContractsInv, ContractsTyped
<1>4. /\ CC!Pruned(a.now) \in [ContractIds -> Nat]
      /\ \A c \in ContractIds :
           CC!Pruned(a.now)[c] = consumed[c] \/ (CC!Pruned(a.now)[c] = 0 /\ consumed[c] <= clock)
  BY <1>1, PrunedType
<1>5. contracts[a.id] \in CC!ContractType /\ contracts[a.id].expires \in Nat /\ accepted[a.id] \in Entries
        /\ clock \in Nat /\ process \in Nat /\ consumed \in [ContractIds -> Nat]
  BY <1>1 DEF ContractsInv, ContractsTyped, CC!ContractType
<1>6. [a EXCEPT !.pc = "accepted"] \in CC!AttemptType /\ [a EXCEPT !.pc = "accepted"].pc = "accepted"
      /\ \A f \in {"id", "operator", "target", "now"} : [a EXCEPT !.pc = "accepted"][f] = a[f]
  BY <1>1 DEF CC!AttemptType
<1> HIDE DEF e
<1>7. /\ Append(accepted[a.id], e) \in Entries /\ Append(accepted[a.id], e) # << >>
      /\ DOMAIN Append(accepted[a.id], e) = DOMAIN accepted[a.id] \cup {Len(accepted[a.id]) + 1}
      /\ Append(accepted[a.id], e)[Len(accepted[a.id]) + 1] = e
      /\ \A k \in DOMAIN accepted[a.id] : Append(accepted[a.id], e)[k] = accepted[a.id][k]
      /\ accepted[a.id] = << >> => DOMAIN accepted[a.id] = {}
  BY <1>3, <1>5, EntryAppended
<1> DEFINE new == Append(accepted[a.id], e)
           after == [a EXCEPT !.pc = "accepted"]
<1> HIDE DEF new, after
<1>8. accepted'[a.id] = new /\ \A c \in ContractIds \ {a.id} : accepted'[c] = accepted[c]
  BY <1>1, <1>2 DEF ContractsInv, ContractsTyped, new
<1>9. ContractsTyped'
  BY <1>1, <1>2, <1>4, <1>5, <1>6, <1>7 DEF ContractsInv, ContractsTyped
<1>10. AttemptsAreVerified'
  <2>1. attempt'[t] = after /\ \A u \in Threads \ {t} : attempt'[u] = attempt[u]
    BY <1>2 DEF ContractsInv, ContractsTyped, after
  <2>2. after.id = a.id /\ after.operator = a.operator /\ after.target = a.target /\ after.now = a.now
    BY <1>1 DEF after, CC!AttemptType
  <2> QED BY <1>1, <1>2, <2>1, <2>2 DEF ContractsInv, AttemptsAreVerified
<1>11. GuardRemembers'
  <2>1. contracts[a.id] # CC!NoContract
    BY <1>1, <1>5 DEF CC!NoContract
  <2>2. consumed'[a.id] = contracts[a.id].expires
    BY <1>1, <1>2, <1>4
  <2>3. \A c \in ContractIds \ {a.id} : consumed'[c] = consumed[c] \/ consumed[c] <= clock
    BY <1>2, <1>4
  <2> QED BY <1>1, <1>2, <1>8, <2>1, <2>2, <2>3 DEF ContractsInv, GuardRemembers
<1>12. CC!AcceptedAsReviewed'
  BY <1>1, <1>2, <1>3, <1>7, <1>8 DEF ContractsInv, CC!AcceptedAsReviewed, new
<1>13. accepted[a.id] # << >> => contracts[a.id].expires <= clock
  <2>1. consumed[a.id] <= clock
    BY <1>1, <1>2, <1>4, <1>5
  <2> QED BY <1>1, <2>1 DEF ContractsInv, GuardRemembers
<1>14. CC!OnceWhileAlive'
  <2>1. ASSUME NEW c \in ContractIds, NEW j \in DOMAIN accepted'[c], NEW k \in DOMAIN accepted'[c],
               accepted'[c][j].at < contracts[c].expires, accepted'[c][k].at < contracts[c].expires
        PROVE  j = k
    <3>1. CASE c # a.id
      BY <1>8, <2>1, <3>1 DEF ContractsInv, CC!OnceWhileAlive
    <3>2. CASE c = a.id /\ accepted[a.id] = << >>
      BY <1>7, <1>8, <2>1, <3>2 DEF new
    <3>3. CASE c = a.id /\ accepted[a.id] # << >>
      <4>1. ~ (clock < contracts[c].expires)
        BY <1>5, <1>13, <3>3
      <4>2. j \in DOMAIN accepted[c] /\ k \in DOMAIN accepted[c]
        BY <1>3, <1>7, <1>8, <2>1, <3>3, <4>1 DEF new
      <4> QED BY <1>7, <1>8, <2>1, <3>3, <4>2 DEF ContractsInv, CC!OnceWhileAlive, new
    <3> QED BY <3>1, <3>2, <3>3
  <2> QED BY <1>2, <2>1 DEF CC!OnceWhileAlive
<1> QED BY <1>2, <1>9, <1>10, <1>11, <1>12, <1>14 DEF ContractsInv, IssuersHaveRun

LEMMA NextContracts == ContractsInv /\ [CC!Next]_CC!vars => ContractsInv'
<1> SUFFICES ASSUME ContractsInv, [CC!Next]_CC!vars PROVE ContractsInv'
  OBVIOUS
<1>0. /\ clock \in Nat /\ process \in Nat /\ consumed \in [ContractIds -> Nat]
      /\ attempt \in [Threads -> CC!AttemptType] /\ contracts \in [ContractIds -> CC!ContractType]
  BY DEF ContractsInv, ContractsTyped
<1>1. ASSUME NEW c \in ContractIds, NEW o \in Operators, NEW g \in Targets, CC!Issue(c, o, g)
      PROVE  ContractsInv'
  <2> DEFINE r == [issuer |-> process, operator |-> o, target |-> g, expires |-> clock + TTL]
  <2>1. r \in CC!ContractType /\ r.issuer = process
    BY <1>0, DispatchAssumption DEF CC!ContractType, CC!ContractsAssumption
  <2>2. contracts[c] = CC!NoContract /\ contracts' = [contracts EXCEPT ![c] = r]
        /\ UNCHANGED <<clock, process, consumed, attempt, accepted>>
    BY <1>1 DEF CC!Issue
  <2> HIDE DEF r
  <2>3. accepted[c] = << >>
    BY <2>2 DEF ContractsInv, GuardRemembers
  <2>4. \A t \in Threads : attempt[t].pc # "idle" => attempt[t].id # c
    BY <1>0, <2>2 DEF ContractsInv, AttemptsAreVerified, CC!NoContract
  <2>5. \A d \in ContractIds \ {c} : contracts'[d] = contracts[d]
    BY <1>0, <2>2
  <2>6. ContractsTyped'
    BY <1>0, <2>1, <2>2 DEF ContractsInv, ContractsTyped
  <2>7. AttemptsAreVerified'
    BY <2>2, <2>4, <2>5 DEF ContractsInv, AttemptsAreVerified
  <2>8. GuardRemembers'
    BY <2>2, <2>3, <2>5 DEF ContractsInv, GuardRemembers
  <2>9. DOMAIN accepted[c] = {}
    BY <2>3
  <2>10. CC!AcceptedAsReviewed' /\ CC!OnceWhileAlive'
    BY <2>2, <2>5, <2>9 DEF ContractsInv, CC!AcceptedAsReviewed, CC!OnceWhileAlive
  <2>11. IssuersHaveRun'
    BY <1>0, <2>1, <2>2, <2>5 DEF ContractsInv, IssuersHaveRun
  <2> QED BY <2>6, <2>7, <2>8, <2>10, <2>11 DEF ContractsInv
<1>2. ASSUME NEW t \in Threads, NEW c \in ContractIds, NEW o \in Operators, NEW g \in Targets,
             CC!Verify(t, c, o, g)
      PROVE  ContractsInv'
  <2> DEFINE a == [pc |-> "verified", id |-> c, operator |-> o, target |-> g, now |-> 0]
  <2>1. a \in CC!AttemptType /\ a.id = c /\ a.operator = o /\ a.target = g /\ a.now = 0
    BY DEF CC!AttemptType
  <2>2. attempt' = [attempt EXCEPT ![t] = a]
        /\ UNCHANGED <<clock, process, contracts, consumed, accepted>> /\ CC!Verifies(c, o, g)
    BY <1>2 DEF CC!Verify
  <2> HIDE DEF a
  <2>3. /\ contracts[c].issuer = process /\ contracts[c].operator = o /\ contracts[c].target = g
        /\ 0 <= clock
    BY <1>0, <2>2 DEF CC!Verifies
  <2>4. consumed' \in [ContractIds -> Nat] /\ \A d \in ContractIds : consumed'[d] = consumed[d]
    BY <1>0, <2>2
  <2> QED BY <2>1, <2>2, <2>3, <2>4, ThreadStep
<1>3. ASSUME NEW t \in Threads, CC!ReadGuardClock(t) PROVE ContractsInv'
  <2> DEFINE a == [attempt[t] EXCEPT !.pc = "guard", !.now = clock]
  <2>1. a \in CC!AttemptType /\ a.id = attempt[t].id /\ a.operator = attempt[t].operator
        /\ a.target = attempt[t].target /\ a.now = clock
    BY <1>0 DEF CC!AttemptType
  <2>2. attempt' = [attempt EXCEPT ![t] = a] /\ attempt[t].pc = "verified"
        /\ UNCHANGED <<clock, process, contracts, consumed, accepted>>
    BY <1>3 DEF CC!ReadGuardClock
  <2> HIDE DEF a
  <2>3. /\ a.id \in ContractIds /\ a.operator \in Operators /\ a.target \in Targets
        /\ contracts[a.id].issuer = process /\ contracts[a.id].operator = a.operator
        /\ contracts[a.id].target = a.target
    BY <2>1, <2>2 DEF ContractsInv, AttemptsAreVerified
  <2>4. consumed' \in [ContractIds -> Nat] /\ \A d \in ContractIds : consumed'[d] = consumed[d]
    BY <1>0, <2>2
  <2>5. a.now <= clock
    BY <1>0, <2>1
  <2> QED BY <2>1, <2>2, <2>3, <2>4, <2>5, ThreadStep
<1>4. ASSUME NEW t \in Threads, CC!Consume(t) PROVE ContractsInv'
  BY <1>4, ConsumeStep
<1>5. ASSUME NEW t \in Threads, CC!RefuseReplay(t) PROVE ContractsInv'
  <2>1. attempt[t].now \in Nat /\ attempt[t].now <= clock
    BY <1>0, <1>5 DEF CC!RefuseReplay, ContractsInv, AttemptsAreVerified, CC!AttemptType
  <2>2. consumed' = CC!Pruned(attempt[t].now) /\ attempt' = [attempt EXCEPT ![t] = CC!NoAttempt]
        /\ UNCHANGED <<clock, process, contracts, accepted>>
    BY <1>5 DEF CC!RefuseReplay
  <2> QED BY <1>0, <2>1, <2>2, PrunedType, NothingType, ThreadStep
<1>6. ASSUME NEW t \in Threads, CC!Finish(t) PROVE ContractsInv'
  <2>1. attempt' = [attempt EXCEPT ![t] = CC!NoAttempt]
        /\ UNCHANGED <<clock, process, contracts, consumed, accepted>>
    BY <1>6 DEF CC!Finish
  <2> QED BY <1>0, <2>1, NothingType, ThreadStep
<1>7. CASE CC!Restart
  <2>1. process' = process + 1 /\ consumed' = [c \in ContractIds |-> 0]
        /\ attempt' = [t \in Threads |-> CC!NoAttempt] /\ UNCHANGED <<clock, contracts, accepted>>
    BY <1>7 DEF CC!Restart
  <2>2. ContractsTyped' /\ AttemptsAreVerified'
    BY <1>0, <2>1, NothingType DEF ContractsInv, ContractsTyped, AttemptsAreVerified
  <2>3. \A c \in ContractIds : contracts[c].issuer <= process /\ contracts[c].issuer \in Int
    BY <1>0 DEF ContractsInv, IssuersHaveRun, CC!ContractType
  <2>4. \A c \in ContractIds : contracts'[c].issuer <= process' /\ contracts'[c].issuer # process'
    BY <1>0, <2>1, <2>3
  <2>5. IssuersHaveRun' /\ GuardRemembers'
    BY <2>1, <2>4 DEF ContractsInv, IssuersHaveRun, GuardRemembers
  <2> QED BY <2>1, <2>2, <2>5 DEF ContractsInv, CC!AcceptedAsReviewed, CC!OnceWhileAlive
<1>8. CASE CC!Tick
  BY <1>0, <1>8 DEF CC!Tick, ContractsInv, ContractsTyped, IssuersHaveRun, AttemptsAreVerified, GuardRemembers,
     CC!AcceptedAsReviewed, CC!OnceWhileAlive, CC!ContractType, CC!AttemptType
<1>9. CASE UNCHANGED CC!vars
  BY <1>9 DEF CC!vars, ContractsInv, ContractsTyped, IssuersHaveRun, AttemptsAreVerified, GuardRemembers,
     CC!AcceptedAsReviewed, CC!OnceWhileAlive
<1> QED BY <1>1, <1>2, <1>3, <1>4, <1>5, <1>6, <1>7, <1>8, <1>9 DEF CC!Next

LEMMA ContractsKeep == CC!Spec => []ContractsInv
  BY InitContracts, NextContracts, PTL DEF CC!Spec

-----------------------------------------------------------------------------
(* The recorder, as far as the gates need it.                              *)

RecorderTyped ==
    /\ log \in Seq(FR!Events) /\ sealed \in Nat /\ sealed <= Len(log) /\ ran \subseteq Requests
    /\ task \in [Threads -> FR!TaskType]

(* A governed request stands before, at or behind its route; there it has  *)
(* its admission under the seal.                                           *)
Governed(k) ==
    /\ k.subject = None /\ k.pc \in {"idle", "admit", "run", "complete"}
    /\ k.pc # "idle" => k.request \in Requests
    /\ k.pc \in {"run", "complete"} => SealedAdmission(k.request)

OwnRequest ==
    \A t, u \in Threads : t # u /\ task[t].pc # "idle" => task[u].request # task[t].request

RecorderInv ==
    /\ RecorderTyped /\ OwnRequest
    /\ \A t \in Threads : Governed(task[t])
    /\ \A r \in ran : SealedAdmission(r)

(* Nothing sealed is lost.                                                 *)
SealedStays == \A r : SealedAdmission(r) => SealedAdmission(r)'

LEMMA IdleTask ==
    /\ FR!Idle \in FR!TaskType /\ FR!Idle.pc = "idle" /\ FR!Idle.request = None
    /\ FR!Idle.subject = None
  BY DEF FR!Idle, FR!TaskType

LEMMA LongerLog ==
    ASSUME RecorderTyped, log' \in Seq(FR!Events), sealed' \in Nat, sealed <= sealed',
           \A k \in 1..Len(log) : log'[k] = log[k]
    PROVE  SealedStays
<1> SUFFICES ASSUME NEW r, NEW k \in 1..sealed, log[k] = [kind |-> "admitted", request |-> r]
             PROVE  SealedAdmission(r)'
  BY DEF SealedStays, SealedAdmission
<1>1. k \in 1..Len(log) /\ k \in 1..sealed'
  BY DEF RecorderTyped
<1> QED BY <1>1 DEF SealedAdmission

(* One thread's task moves on.                                             *)
LEMMA TaskMoves ==
    ASSUME RecorderInv, NEW t \in Threads, NEW k \in FR!TaskType, task' = [task EXCEPT ![t] = k],
           log' \in Seq(FR!Events), sealed' \in Nat, sealed' <= Len(log'), SealedStays,
           Governed(k)',
           k.pc # "idle" => \A u \in Threads \ {t} : task[u].request # k.request,
           \A u \in Threads \ {t} : task[u].pc # "idle" => k.request # task[u].request,
           ran' \subseteq Requests, \A r \in ran' : r \in ran \/ SealedAdmission(r)
    PROVE  RecorderInv' /\ task'[t] = k /\ \A u \in Threads \ {t} : task'[u] = task[u]
<1>1. task'[t] = k /\ \A u \in Threads \ {t} : task'[u] = task[u]
  BY DEF RecorderInv, RecorderTyped
<1>2. RecorderTyped'
  BY DEF RecorderInv, RecorderTyped
<1>3. OwnRequest'
  BY <1>1 DEF RecorderInv, OwnRequest
<1>4. ASSUME NEW u \in Threads PROVE Governed(task[u])'
  <2>1. CASE u = t
    BY <1>1, <2>1 DEF Governed, SealedAdmission
  <2>2. CASE u # t
    BY <1>1, <2>2 DEF RecorderInv, Governed, SealedStays
  <2> QED BY <2>1, <2>2
<1>5. \A r \in ran' : SealedAdmission(r)'
  BY DEF RecorderInv, SealedStays
<1> QED BY <1>1, <1>2, <1>3, <1>4, <1>5 DEF RecorderInv

LEMMA QuietLedger ==
    ASSUME RecorderTyped, UNCHANGED <<log, sealed>>
    PROVE  log' \in Seq(FR!Events) /\ sealed' \in Nat /\ sealed' <= Len(log') /\ SealedStays
  BY DEF RecorderTyped, SealedStays, SealedAdmission

(* A new request is one of which the sealed ledger knows nothing, in       *)
(* nobody else's hands.                                                    *)
LEMMA BeginStep ==
    ASSUME RecorderInv, NEW t \in Threads, FR!Begin(t), task'[t].subject = None
    PROVE  /\ RecorderInv' /\ SealedStays /\ task[t].pc = "idle" /\ task'[t].pc = "admit"
           /\ task'[t].request \in Requests /\ ~ SealedAdmission(task'[t].request)
           /\ \A u \in Threads : task[u].request # task'[t].request
           /\ \A u \in Threads \ {t} : task'[u] = task[u]
           /\ ran' = ran
<1>1. PICK r \in Requests, s \in Requests \cup {None} :
        /\ ~ FR!Logged("admitted", r) /\ \A u \in Threads : task[u].request # r
        /\ task' = [task EXCEPT ![t] =
                      [pc |-> "admit", request |-> r, subject |-> s, step |-> "commit"]]
  BY DEF FR!Begin
<1>2. UNCHANGED <<log, sealed, ran>> /\ task[t].pc = "idle"
  BY DEF FR!Begin
<1>0. PICK k : k = [pc |-> "admit", request |-> r, subject |-> s, step |-> "commit"]
  OBVIOUS
<1>3. k \in FR!TaskType /\ k.pc = "admit" /\ k.request = r /\ k.subject = s
  BY <1>0 DEF FR!TaskType
<1>4. task' = [task EXCEPT ![t] = k]
  BY <1>0, <1>1
<1>5. task'[t] = k /\ s = None
  BY <1>3, <1>4 DEF RecorderInv, RecorderTyped
<1>6. ~ SealedAdmission(r)
  <2>1. SUFFICES ASSUME NEW j \in 1..sealed, log[j] = [kind |-> "admitted", request |-> r] PROVE FALSE
    BY DEF SealedAdmission
  <2>2. j \in DOMAIN log
    BY DEF RecorderInv, RecorderTyped
  <2> QED BY <1>1, <2>1, <2>2 DEF FR!Logged, FR!Event
<1>7. Governed(k)'
  BY <1>3, <1>5 DEF Governed
<1>8. log' \in Seq(FR!Events) /\ sealed' \in Nat /\ sealed' <= Len(log') /\ SealedStays
  BY <1>2, QuietLedger DEF RecorderInv
<1>9. ran' \subseteq Requests /\ \A x \in ran' : x \in ran
  BY <1>2 DEF RecorderInv, RecorderTyped
<1>10. RecorderInv' /\ \A u \in Threads \ {t} : task'[u] = task[u]
  BY <1>1, <1>3, <1>4, <1>7, <1>8, <1>9, TaskMoves
<1> QED BY <1>1, <1>2, <1>3, <1>5, <1>6, <1>8, <1>10

LEMMA StaysMine ==
    ASSUME RecorderInv, NEW t \in Threads, task[t].pc # "idle"
    PROVE  /\ \A u \in Threads \ {t} : task[u].request # task[t].request
           /\ \A u \in Threads \ {t} : task[u].pc # "idle" => task[t].request # task[u].request
           /\ task[t].request \in Requests /\ task[t].subject = None /\ task[t] \in FR!TaskType
  BY DEF RecorderInv, OwnRequest, RecorderTyped, Governed

(* What a step of a thread between its gates does.                         *)
MovesOn(t) ==
    /\ RecorderInv' /\ SealedStays
    /\ \A u \in Threads \ {t} : task'[u] = task[u]
    /\ task[t].pc # "idle"
    /\ task'[t].pc # "idle" => task'[t].request = task[t].request

(* An append of a task that has an event to write.                         *)
LEMMA AppendStep ==
    ASSUME RecorderInv, NEW t \in Threads,
           FR!AppendCommit(t) \/ FR!AppendSeal(t) \/ FR!AppendReturn(t) \/ FR!AppendFails(t)
    PROVE  MovesOn(t) /\ task[t].pc # "run" /\ ran' = ran
<1>1. /\ task[t].pc \in {"admit", "complete"} /\ task[t].pc \in FR!Appending
      /\ Governed(task[t]) /\ ran' = ran
  BY DEF RecorderInv, Governed, FR!AppendCommit, FR!AppendSeal, FR!AppendReturn, FR!AppendFails, FR!Appending
<1>2. /\ \A u \in Threads \ {t} : task[u].request # task[t].request
      /\ \A u \in Threads \ {t} : task[u].pc # "idle" => task[t].request # task[u].request
      /\ task[t].request \in Requests /\ task[t].subject = None /\ task[t] \in FR!TaskType
  BY <1>1, StaysMine
<1>3. ran' \subseteq Requests /\ (\A r \in ran' : r \in ran) /\ RecorderTyped
  BY <1>1 DEF RecorderInv, RecorderTyped
<1>4. /\ FR!Pending(t) \in FR!Events
      /\ task[t].pc = "admit" => FR!Pending(t) = [kind |-> "admitted", request |-> task[t].request]
  BY <1>1, <1>2 DEF FR!Pending, FR!Event, FR!Events, FR!Kinds
<1>5. CASE FR!AppendCommit(t)
  <2>0. PICK k : k = [task[t] EXCEPT !.step = "seal"]
    OBVIOUS
  <2>1. /\ task' = [task EXCEPT ![t] = k] /\ log' = Append(log, FR!Pending(t)) /\ sealed' = sealed
        /\ sealed = Len(log)
    BY <1>5, <2>0 DEF FR!AppendCommit, FR!L!Commit, FR!L!Intact
  <2>2. k \in FR!TaskType /\ k.request = task[t].request /\ k.subject = task[t].subject /\ k.pc = task[t].pc
    BY <1>2, <2>0 DEF FR!TaskType
  <2>3. log' \in Seq(FR!Events) /\ sealed' \in Nat /\ sealed' <= Len(log')
        /\ \A j \in 1..Len(log) : log'[j] = log[j]
    BY <1>3, <1>4, <2>1 DEF RecorderTyped
  <2>4. SealedStays
    BY <1>3, <2>1, <2>3, LongerLog DEF RecorderTyped
  <2>5. Governed(k)'
    BY <1>1, <1>2, <2>2, <2>4 DEF Governed, SealedStays
  <2>6. /\ \A u \in Threads \ {t} : task[u].request # k.request
        /\ \A u \in Threads \ {t} : task[u].pc # "idle" => k.request # task[u].request
    BY <1>2, <2>2
  <2>7. RecorderInv' /\ task'[t] = k /\ \A u \in Threads \ {t} : task'[u] = task[u]
    BY <1>3, <2>1, <2>2, <2>3, <2>4, <2>5, <2>6, TaskMoves
  <2> QED BY <1>1, <2>2, <2>4, <2>7 DEF MovesOn
<1>6. CASE FR!AppendSeal(t)
  <2>0. PICK k : k = [task[t] EXCEPT !.step = "return"]
    OBVIOUS
  <2>1. task' = [task EXCEPT ![t] = k] /\ log' = log /\ sealed' = Len(log)
    BY <1>6, <2>0 DEF FR!AppendSeal, FR!L!Seal
  <2>2. k \in FR!TaskType /\ k.request = task[t].request /\ k.subject = task[t].subject /\ k.pc = task[t].pc
    BY <1>2, <2>0 DEF FR!TaskType
  <2>3. log' \in Seq(FR!Events) /\ sealed' \in Nat /\ sealed' <= Len(log') /\ sealed <= sealed'
    BY <1>3, <2>1 DEF RecorderTyped
  <2>4. SealedStays
    BY <1>3, <2>1, <2>3, LongerLog DEF RecorderTyped
  <2>5. Governed(k)'
    BY <1>1, <1>2, <2>2, <2>4 DEF Governed, SealedStays
  <2>6. /\ \A u \in Threads \ {t} : task[u].request # k.request
        /\ \A u \in Threads \ {t} : task[u].pc # "idle" => k.request # task[u].request
    BY <1>2, <2>2
  <2>7. RecorderInv' /\ task'[t] = k /\ \A u \in Threads \ {t} : task'[u] = task[u]
    BY <1>3, <2>1, <2>2, <2>3, <2>4, <2>5, <2>6, TaskMoves
  <2> QED BY <1>1, <2>2, <2>4, <2>7 DEF MovesOn
<1>7. CASE FR!AppendReturn(t) \/ FR!AppendFails(t)
  <2>1. UNCHANGED <<log, sealed>>
    BY <1>7 DEF FR!AppendReturn, FR!AppendFails, FR!L!Acknowledge
  <2>2. log' \in Seq(FR!Events) /\ sealed' \in Nat /\ sealed' <= Len(log') /\ SealedStays
    BY <1>3, <2>1, QuietLedger
  <2>3. PICK k \in FR!TaskType : /\ task' = [task EXCEPT ![t] = k] /\ k.subject = None
                                 /\ \/ k.pc = "idle" /\ k.request = None
                                    \/ /\ k.pc = "run" /\ k.request = task[t].request
                                       /\ SealedAdmission(k.request)
    <3>1. CASE FR!AppendReturn(t) /\ task[t].pc = "admit"
      <4> DEFINE k == [task[t] EXCEPT !.pc = "run", !.step = "commit"]
      <4>1. task' = [task EXCEPT ![t] = k]
        BY <3>1 DEF FR!AppendReturn, FR!Follows, FR!Goto
      <4>2. k \in FR!TaskType /\ k.request = task[t].request /\ k.subject = None /\ k.pc = "run"
        BY <1>2 DEF FR!TaskType
      <4>3. SealedAdmission(task[t].request)
        BY <1>4, <3>1 DEF FR!AppendReturn, FR!L!Acknowledge, SealedAdmission
      <4> HIDE DEF k
      <4> QED BY <4>1, <4>2, <4>3
    <3>2. CASE ~ (FR!AppendReturn(t) /\ task[t].pc = "admit")
      <4>1. task' = [task EXCEPT ![t] = FR!Idle]
        BY <1>1, <1>7, <3>2 DEF FR!AppendReturn, FR!AppendFails, FR!Follows, FR!AfterFailure, FR!Goto
      <4> QED BY <4>1, IdleTask
    <3> QED BY <3>1, <3>2
  <2>4. Governed(k)'
    BY <1>2, <2>2, <2>3 DEF Governed, SealedStays
  <2>5. /\ k.pc # "idle" => \A u \in Threads \ {t} : task[u].request # k.request
        /\ \A u \in Threads \ {t} : task[u].pc # "idle" => k.request # task[u].request
    <3>1. \A u \in Threads : task[u].pc # "idle" => task[u].request # None
      BY DispatchAssumption DEF RecorderInv, Governed
    <3> QED BY <1>2, <2>3, <3>1
  <2>6. RecorderInv' /\ task'[t] = k /\ \A u \in Threads \ {t} : task'[u] = task[u]
    BY <1>3, <2>2, <2>3, <2>4, <2>5, TaskMoves
  <2> QED BY <1>1, <2>2, <2>3, <2>6 DEF MovesOn
<1> QED BY <1>1, <1>5, <1>6, <1>7

(* The route, or a gate that refuses: the completion is next.              *)
LEMMA RouteStep ==
    ASSUME RecorderInv, NEW t \in Threads, FR!Run(t) \/ FR!Refuse(t)
    PROVE  /\ MovesOn(t) /\ task[t].pc = "run" /\ task'[t].pc = "complete"
           /\ SealedAdmission(task[t].request) /\ task[t].request \in Requests
           /\ FR!Refuse(t) => ran' = ran
           /\ FR!Run(t) => ran' = ran \cup {task[t].request}
<1>0. PICK k : k = [task[t] EXCEPT !.pc = "complete", !.step = "commit"]
  OBVIOUS
<1>1. task[t].pc = "run" /\ Governed(task[t])
  BY DEF FR!Run, FR!Refuse, RecorderInv
<1>2. /\ \A u \in Threads \ {t} : task[u].request # task[t].request
      /\ \A u \in Threads \ {t} : task[u].pc # "idle" => task[t].request # task[u].request
      /\ task[t].request \in Requests /\ task[t].subject = None /\ task[t] \in FR!TaskType
  BY <1>1, StaysMine
<1>3. task' = [task EXCEPT ![t] = k] /\ UNCHANGED <<log, sealed>>
  BY <1>0 DEF FR!Run, FR!Refuse, FR!Goto
<1>4. k \in FR!TaskType /\ k.request = task[t].request /\ k.subject = task[t].subject /\ k.pc = "complete"
  BY <1>0, <1>2 DEF FR!TaskType
<1>5. SealedAdmission(task[t].request)
  BY <1>1 DEF Governed
<1>6. /\ FR!Refuse(t) => ran' = ran
      /\ FR!Run(t) => ran' = ran \cup {task[t].request}
  BY DEF FR!Run, FR!Refuse
<1>7. log' \in Seq(FR!Events) /\ sealed' \in Nat /\ sealed' <= Len(log') /\ SealedStays
  BY <1>3, QuietLedger DEF RecorderInv
<1>8. ran' \subseteq Requests /\ \A r \in ran' : r \in ran \/ SealedAdmission(r)
  BY <1>2, <1>5, <1>6 DEF RecorderInv, RecorderTyped
<1>9. Governed(k)'
  BY <1>2, <1>4, <1>5, <1>7 DEF Governed, SealedStays
<1>10. /\ \A u \in Threads \ {t} : task[u].request # k.request
       /\ \A u \in Threads \ {t} : task[u].pc # "idle" => k.request # task[u].request
  BY <1>2, <1>4
<1>11. RecorderInv' /\ task'[t] = k /\ \A u \in Threads \ {t} : task'[u] = task[u]
  BY <1>3, <1>4, <1>7, <1>8, <1>9, <1>10, TaskMoves
<1> QED BY <1>1, <1>2, <1>4, <1>5, <1>6, <1>7, <1>11 DEF MovesOn

LEMMA PanelRestarts ==
    ASSUME RecorderInv, FR!Restart
    PROVE  RecorderInv' /\ SealedStays /\ ran' = ran /\ \A t \in Threads : task'[t].pc = "idle"
<1>1. task' = [t \in Threads |-> FR!Idle] /\ UNCHANGED <<log, sealed, ran>>
  BY DEF FR!Restart
<1>2. SealedStays /\ RecorderTyped'
  BY <1>1, IdleTask DEF RecorderInv, RecorderTyped, SealedStays, SealedAdmission
<1>3. OwnRequest' /\ \A t \in Threads : Governed(task[t])' /\ task'[t].pc = "idle"
  BY <1>1, IdleTask DEF OwnRequest, Governed
<1>4. \A r \in ran' : SealedAdmission(r)'
  BY <1>1, <1>2 DEF RecorderInv, SealedStays
<1> QED BY <1>1, <1>2, <1>3, <1>4 DEF RecorderInv

-----------------------------------------------------------------------------
(* The gates.                                                              *)

Abouts == [operator : Operators \cup {None}, target : Targets \cup {None},
           contract : ContractIds \cup {None}, approval : ApprovalIds \cup {None},
           named : ApprovalIds \cup {None}]

ApprovalType ==
    [state : {"none", "pending", "approved", "spent", "closed"}, requester : Operators \cup {None},
     what : Targets \cup {None}, approver : Operators \cup {None}]

Executions == Seq([actor : Operators \cup {None}, what : Targets \cup {None}])

GatesTyped ==
    /\ about \in [Requests -> Abouts] /\ spent \in [Threads -> ApprovalIds \cup {None}]
    /\ requests \in [ApprovalIds -> ApprovalType] /\ executed \in [ApprovalIds -> Executions]

(* The guard let this operator through, for this target.                   *)
Passed(d) ==
    /\ d.operator \in Operators /\ d.target \in Targets /\ d.contract \in ContractIds
    /\ \E k \in DOMAIN accepted[d.contract] :
         accepted[d.contract][k].operator = d.operator /\ accepted[d.contract][k].target = d.target

(* Its approval is used up, and another operator had given it for this.    *)
Agreed(d) ==
    /\ d.approval \in ApprovalIds /\ requests[d.approval].state = "spent"
    /\ requests[d.approval].approver \in Operators \ {d.operator}
    /\ requests[d.approval].requester = d.operator /\ requests[d.approval].what = d.target

FourEyes ==
    \A i \in ApprovalIds :
      /\ requests[i].state \in {"approved", "spent"} =>
           requests[i].approver \in Operators \ {requests[i].requester}
      /\ requests[i].state # "spent" => executed[i] = << >>

(* An approval in hand is the request's own, agreed and not yet executed.  *)
InHand(t) ==
    LET d == about[task[t].request] IN
    /\ task[t].pc # "idle" => Passed(d)
    /\ spent[t] # None =>
         /\ task[t].pc = "run" /\ d.target \in DualControlled
         /\ spent[t] = d.approval /\ Agreed(d) /\ executed[spent[t]] = << >>

OneHand == \A t, u \in Threads : spent[t] # None /\ spent[t] = spent[u] => t = u

Rightly(r) ==
    /\ Passed(about[r])
    /\ about[r].target \in DualControlled =>
         Agreed(about[r]) /\ executed[about[r].approval] # << >>

OneRun ==
    \A q, r \in ran :
      q # r /\ about[q].target \in DualControlled /\ about[r].target \in DualControlled
        => about[q].approval # about[r].approval

GatesInv ==
    /\ GatesTyped /\ FourEyes /\ OneHand /\ OneRun /\ SpentIsOnRecord
    /\ \A t \in Threads : InHand(t)
    /\ \A r \in ran : Rightly(r)

AcceptedGrows ==
    \A c \in ContractIds : \A k \in DOMAIN accepted[c] :
      k \in DOMAIN accepted'[c] /\ accepted'[c][k] = accepted[c][k]

LEMMA PassedStays == ASSUME AcceptedGrows, NEW d, Passed(d) PROVE Passed(d)'
  BY DEF AcceptedGrows, Passed

LEMMA AgreedStays ==
    ASSUME NEW d, Agreed(d),
           \A i \in ApprovalIds : requests[i].state = "spent" => requests'[i] = requests[i]
    PROVE  Agreed(d)'
  BY DEF Agreed

(* A step that leaves the approvals alone and begins and runs nothing.     *)
LEMMA GatesFrame ==
    ASSUME RecorderInv, GatesInv, AcceptedGrows, SealedStays, ran' = ran,
           UNCHANGED <<requests, executed, about>>,
           spent' \in [Threads -> ApprovalIds \cup {None}],
           \A t \in Threads : spent'[t] # None => spent'[t] = spent[t] /\ task'[t] = task[t],
           \A t \in Threads : task'[t].pc # "idle" =>
             task[t].pc # "idle" /\ task'[t].request = task[t].request
    PROVE  GatesInv'
<1>1. GatesTyped' /\ FourEyes'
  BY DEF GatesInv, GatesTyped, FourEyes
<1>2. OneHand' /\ OneRun'
  BY DEF GatesInv, OneHand, OneRun
<1>3. SpentIsOnRecord'
  BY DEF GatesInv, SpentIsOnRecord, SealedStays
<1>4. ASSUME NEW t \in Threads PROVE InHand(t)'
  <2>1. task'[t].pc # "idle" => Passed(about[task[t].request])' /\ task'[t].request = task[t].request
    <3> SUFFICES ASSUME task'[t].pc # "idle"
                 PROVE  Passed(about[task[t].request])' /\ task'[t].request = task[t].request
      OBVIOUS
    <3>1. task[t].pc # "idle" /\ task'[t].request = task[t].request
      OBVIOUS
    <3>2. PICK d : d = about[task[t].request]
      OBVIOUS
    <3>3. Passed(d)'
      BY <3>1, <3>2, PassedStays DEF GatesInv, InHand
    <3>4. about'[task'[t].request] = d
      BY <3>1, <3>2
    <3> QED BY <3>1, <3>3, <3>4 DEF Passed
  <2>2. spent'[t] # None =>
          /\ task'[t].pc = "run" /\ about'[task'[t].request].target \in DualControlled
          /\ spent'[t] = about'[task'[t].request].approval /\ Agreed(about[task[t].request])'
          /\ executed'[spent'[t]] = << >>
    BY DEF GatesInv, InHand, Agreed
  <2> QED BY <2>1, <2>2 DEF InHand, Passed
<1>5. ASSUME NEW r \in ran' PROVE Rightly(r)'
  <2>1. PICK d : d = about[r]
    OBVIOUS
  <2>2. Passed(d)'
    BY <2>1, PassedStays DEF GatesInv, Rightly
  <2> QED BY <2>1, <2>2 DEF GatesInv, Rightly, Agreed, Passed
<1> QED BY <1>1, <1>2, <1>3, <1>4, <1>5 DEF GatesInv

(* What an acceptance says.                                                *)
LEMMA AcceptanceSays ==
    ASSUME ContractsInv, NEW t \in Threads, CC!Consume(t)
    PROVE  /\ attempt[t].id \in ContractIds /\ attempt[t].operator \in Operators
           /\ attempt[t].target \in Targets /\ accepted \in [ContractIds -> Entries]
           /\ \E e \in CC!AcceptedType :
                /\ accepted' = [accepted EXCEPT ![attempt[t].id] = Append(@, e)]
                /\ e.operator = attempt[t].operator /\ e.target = attempt[t].target
<1>1. /\ attempt[t].id \in ContractIds /\ attempt[t].operator \in Operators
      /\ attempt[t].target \in Targets /\ accepted \in [ContractIds -> Entries]
      /\ process \in Nat /\ clock \in Nat
  BY DEF CC!Consume, ContractsInv, ContractsTyped, AttemptsAreVerified
<1>2. PICK e : e = [process |-> process, at |-> clock, operator |-> attempt[t].operator,
                    target |-> attempt[t].target]
  OBVIOUS
<1>3. e \in CC!AcceptedType /\ e.operator = attempt[t].operator /\ e.target = attempt[t].target
  BY <1>1, <1>2 DEF CC!AcceptedType
<1>4. accepted' = [accepted EXCEPT ![attempt[t].id] = Append(@, e)]
  BY <1>2 DEF CC!Consume
<1> QED BY <1>1, <1>3, <1>4

(* Only an acceptance adds to what the guard let through.                  *)
LEMMA AcceptanceGrows == ASSUME ContractsInv, [CC!Next]_CC!vars PROVE AcceptedGrows
<1>1. CASE accepted' = accepted
  BY <1>1 DEF AcceptedGrows
<1>2. ASSUME NEW t \in Threads, CC!Consume(t) PROVE AcceptedGrows
  <2>1. PICK e \in CC!AcceptedType : accepted' = [accepted EXCEPT ![attempt[t].id] = Append(@, e)]
    BY <1>2, AcceptanceSays
  <2>2. accepted \in [ContractIds -> Entries] /\ attempt[t].id \in ContractIds
    BY <1>2, AcceptanceSays
  <2> QED BY <2>1, <2>2, EntryAppended DEF AcceptedGrows
<1> QED BY <1>1, <1>2 DEF CC!Next, CC!vars, CC!Issue, CC!Verify, CC!ReadGuardClock, CC!RefuseReplay, CC!Finish,
       CC!Restart, CC!Tick

(* Steps of the contracts alone.                                           *)
LEMMA ContractsAlone ==
    ASSUME RecorderInv, GatesInv, AcceptedGrows, UNCHANGED <<recorderVars, approvalVars, about, spent>>
    PROVE  RecorderInv' /\ GatesInv'
<1>1. UNCHANGED <<log, sealed, task, ran, requests, executed, about, spent>>
  BY DEF recorderVars, approvalVars
<1>2. RecorderInv' /\ SealedStays
  BY <1>1 DEF RecorderInv, RecorderTyped, OwnRequest, Governed, SealedAdmission, SealedStays
<1>3. GatesInv'
  BY <1>1, <1>2, GatesFrame DEF GatesInv, GatesTyped
<1> QED BY <1>2, <1>3

LEMMA AcceptStep ==
    ASSUME ContractsInv, RecorderInv, GatesInv, AcceptedGrows, NEW t \in Threads, Accept(t)
    PROVE  RecorderInv' /\ GatesInv'
<1>1. /\ RecorderInv' /\ SealedStays /\ task[t].pc = "idle" /\ task'[t].pc = "admit"
      /\ task'[t].request \in Requests /\ ~ SealedAdmission(task'[t].request)
      /\ \A u \in Threads : task[u].request # task'[t].request
      /\ \A u \in Threads \ {t} : task'[u] = task[u]
      /\ ran' = ran
  BY BeginStep DEF Accept
<1>2. PICK r : r = task'[t].request
  OBVIOUS
<1>3. PICK i \in ApprovalIds \cup {None} : \E named \in {i, None} :
        about' = [about EXCEPT ![r] = [operator |-> attempt[t].operator, target |-> attempt[t].target,
                                       contract |-> attempt[t].id, approval |-> i, named |-> named]]
  BY <1>2 DEF Accept
<1>4. PICK named \in {i, None} :
        about' = [about EXCEPT ![r] = [operator |-> attempt[t].operator, target |-> attempt[t].target,
                                       contract |-> attempt[t].id, approval |-> i, named |-> named]]
  BY <1>3
<1>5. PICK d : d = [operator |-> attempt[t].operator, target |-> attempt[t].target,
                    contract |-> attempt[t].id, approval |-> i, named |-> named]
  OBVIOUS
<1>6. /\ attempt[t].id \in ContractIds /\ attempt[t].operator \in Operators /\ attempt[t].target \in Targets
      /\ accepted \in [ContractIds -> Entries]
  BY AcceptanceSays DEF Accept
<1>7. d \in Abouts /\ d.operator = attempt[t].operator /\ d.target = attempt[t].target /\ d.contract = attempt[t].id
  BY <1>5, <1>6 DEF Abouts
<1>8. Passed(d)'
  <2>1. PICK e \in CC!AcceptedType : /\ accepted' = [accepted EXCEPT ![attempt[t].id] = Append(@, e)]
                                     /\ e.operator = attempt[t].operator /\ e.target = attempt[t].target
    BY AcceptanceSays DEF Accept
  <2>2. /\ Len(accepted[d.contract]) + 1 \in DOMAIN accepted'[d.contract]
        /\ accepted'[d.contract][Len(accepted[d.contract]) + 1] = e
    BY <1>6, <1>7, <2>1, EntryAppended
  <2> QED BY <1>6, <1>7, <2>1, <2>2 DEF Passed
<1>9. UNCHANGED <<requests, executed, spent>> /\ about \in [Requests -> Abouts]
  BY DEF Accept, approvalVars, GatesInv, GatesTyped
<1>10. /\ about' \in [Requests -> Abouts] /\ about'[r] = d
       /\ \A q \in Requests \ {r} : about'[q] = about[q]
  BY <1>1, <1>2, <1>4, <1>5, <1>7, <1>9
<1>11. GatesTyped' /\ FourEyes' /\ OneHand'
  BY <1>9, <1>10 DEF GatesInv, GatesTyped, FourEyes, OneHand
<1>12. \A q \in ran : q \in Requests /\ q # r
  BY <1>1, <1>2 DEF RecorderInv, RecorderTyped
<1>13. OneRun'
  BY <1>1, <1>10, <1>12 DEF GatesInv, OneRun
<1>14. SpentIsOnRecord'
  <2> SUFFICES ASSUME NEW a \in ApprovalIds, requests[a].state = "spent"
               PROVE  \E q \in Requests : SealedAdmission(q)' /\ about'[q].approval = a
                        /\ about'[q].operator = requests[a].requester /\ about'[q].target = requests[a].what
    BY <1>9 DEF SpentIsOnRecord
  <2>1. PICK q \in Requests : SealedAdmission(q) /\ about[q].approval = a
                        /\ about[q].operator = requests[a].requester /\ about[q].target = requests[a].what
    BY DEF GatesInv, SpentIsOnRecord
  <2>2. q # r
    BY <1>1, <1>2, <2>1
  <2> QED BY <1>1, <1>10, <2>1, <2>2 DEF SealedStays
<1>15. ASSUME NEW u \in Threads PROVE InHand(u)'
  <2>1. CASE u = t
    <3>1. spent[t] = None
      BY <1>1 DEF GatesInv, InHand
    <3> QED BY <1>2, <1>8, <1>9, <1>10, <2>1, <3>1 DEF InHand, Passed
  <2>2. CASE u # t /\ task[u].pc = "idle"
    BY <1>1, <1>9, <2>2 DEF GatesInv, InHand
  <2>3. CASE u # t /\ task[u].pc # "idle"
    <3>1. task'[u] = task[u] /\ task[u].request \in Requests /\ task[u].request # r
      BY <1>1, <1>2, <2>3 DEF RecorderInv, Governed
    <3>2. about'[task'[u].request] = about[task[u].request]
      BY <1>10, <3>1
    <3>3. PICK x : x = about[task[u].request]
      OBVIOUS
    <3>4. Passed(x)'
      BY <2>3, <3>3, PassedStays DEF GatesInv, InHand
    <3>5. spent[u] # None => Agreed(x)'
      BY <1>9, <3>3 DEF GatesInv, InHand, Agreed
    <3>6. spent[u] # None =>
            /\ task[u].pc = "run" /\ x.target \in DualControlled
            /\ spent[u] = x.approval /\ executed[spent[u]] = << >>
      BY <3>3 DEF GatesInv, InHand
    <3> QED BY <1>9, <3>1, <3>2, <3>3, <3>4, <3>5, <3>6 DEF InHand, Passed, Agreed
  <2> QED BY <2>1, <2>2, <2>3
<1>16. ASSUME NEW q \in ran' PROVE Rightly(q)'
  <2>1. q \in ran /\ about'[q] = about[q]
    BY <1>1, <1>10, <1>12
  <2>2. PICK x : x = about[q]
    OBVIOUS
  <2>3. Passed(x)'
    BY <2>1, <2>2, PassedStays DEF GatesInv, Rightly
  <2>4. Agreed(x) => Agreed(x)'
    BY <1>9 DEF Agreed
  <2> QED BY <1>9, <2>1, <2>2, <2>3, <2>4 DEF GatesInv, Rightly, Passed, Agreed
<1> QED BY <1>1, <1>11, <1>13, <1>14, <1>15, <1>16 DEF GatesInv

(* Operators' own steps touch no approval that is used up.                 *)
LEMMA ApprovalsStep ==
    ASSUME RecorderInv, GatesInv, Approvals
    PROVE  RecorderInv' /\ GatesInv'
<1>1. /\ UNCHANGED <<accepted, log, sealed, task, ran, executed, about, spent>>
  BY DEF Approvals, contractVars, recorderVars
<1>2. PICK i \in ApprovalIds, s \in [state : {"pending", "approved", "closed"}, requester : Operators,
                                     what : Targets, approver : Operators \cup {None}] :
        /\ DC!Ask(requests[i], s) \/ DC!Agree(requests[i], s) \/ DC!Close(requests[i], s)
        /\ requests' = [requests EXCEPT ![i] = s]
  BY DEF Approvals
<1>3. requests \in [ApprovalIds -> ApprovalType] /\ s \in ApprovalType
  BY <1>2 DEF GatesInv, GatesTyped, ApprovalType
<1>4. /\ requests[i].state \in {"none", "pending", "approved"} /\ s.state \in {"pending", "approved", "closed"}
      /\ s.state = "approved" => s.approver \in Operators \ {s.requester}
  BY <1>2, <1>3 DEF DC!Ask, DC!Agree, DC!Close, DC!Blank
<1>5. requests'[i] = s /\ \A j \in ApprovalIds \ {i} : requests'[j] = requests[j]
  BY <1>2, <1>3
<1>6. \A j \in ApprovalIds : requests[j].state = "spent" \/ requests'[j].state = "spent" => requests'[j] = requests[j]
  BY <1>4, <1>5
<1>7. RecorderInv'
  BY <1>1 DEF RecorderInv, RecorderTyped, OwnRequest, Governed, SealedAdmission
<1>8. GatesTyped' /\ OneHand' /\ OneRun'
  BY <1>1, <1>2, <1>3 DEF GatesInv, GatesTyped, OneHand, OneRun
<1>9. FourEyes'
  BY <1>1, <1>4, <1>5 DEF GatesInv, FourEyes
<1>10. SpentIsOnRecord'
  <2> SUFFICES ASSUME NEW a \in ApprovalIds, requests'[a].state = "spent"
               PROVE  \E r \in Requests : SealedAdmission(r)' /\ about'[r].approval = a
                        /\ about'[r].operator = requests'[a].requester /\ about'[r].target = requests'[a].what
    BY DEF SpentIsOnRecord
  <2>1. requests[a].state = "spent" /\ requests'[a] = requests[a]
    BY <1>6
  <2>2. \A r : SealedAdmission(r) => SealedAdmission(r)'
    BY <1>1 DEF SealedAdmission
  <2> QED BY <1>1, <2>1, <2>2 DEF GatesInv, SpentIsOnRecord
<1>11. \A d : (Agreed(d) => Agreed(d)') /\ (Passed(d) => Passed(d)')
  BY <1>1, <1>6 DEF Agreed, Passed
<1>12. ASSUME NEW t \in Threads PROVE InHand(t)'
  <2>1. PICK d : d = about[task[t].request]
    OBVIOUS
  <2>2. /\ task[t].pc # "idle" => Passed(d)'
        /\ spent[t] # None =>
             /\ task[t].pc = "run" /\ d.target \in DualControlled
             /\ spent[t] = d.approval /\ Agreed(d)' /\ executed[spent[t]] = << >>
    BY <1>11, <2>1 DEF GatesInv, InHand
  <2> QED BY <1>1, <2>1, <2>2 DEF InHand, Passed, Agreed
<1>13. ASSUME NEW r \in ran' PROVE Rightly(r)'
  <2>1. PICK d : d = about[r]
    OBVIOUS
  <2>2. Passed(d)' /\ (d.target \in DualControlled => Agreed(d)' /\ executed[d.approval] # << >>)
    BY <1>1, <1>11, <2>1 DEF GatesInv, Rightly
  <2> QED BY <1>1, <2>1, <2>2 DEF Rightly, Passed, Agreed
<1> QED BY <1>7, <1>8, <1>9, <1>10, <1>12, <1>13 DEF GatesInv

(* An approval comes into one request's hands.                             *)
LEMMA SpendStep ==
    ASSUME RecorderInv, GatesInv, NEW t \in Threads, Spend(t)
    PROVE  RecorderInv' /\ GatesInv'
<1>1. UNCHANGED <<accepted, log, sealed, task, ran, executed, about>>
  BY DEF Spend, contractVars, recorderVars
<1>2. PICK d : d = about[task[t].request]
  OBVIOUS
<1>3. PICK i : i = d.approval
  OBVIOUS
<1>4. /\ task[t].pc = "run" /\ d.target \in DualControlled /\ spent[t] = None /\ i # None
      /\ requests[i].state = "approved" /\ requests[i].requester = d.operator /\ requests[i].what = d.target
      /\ requests' = [requests EXCEPT ![i].state = "spent"] /\ spent' = [spent EXCEPT ![t] = i]
  BY <1>2, <1>3 DEF Spend, AtApprovalGate, Mine, Consumable
<1>5. Passed(d) /\ task[t].request \in Requests /\ SealedAdmission(task[t].request)
  BY <1>2, <1>4 DEF GatesInv, InHand, RecorderInv, Governed
<1>6. /\ i \in ApprovalIds /\ requests[i] \in ApprovalType /\ requests \in [ApprovalIds -> ApprovalType]
      /\ spent \in [Threads -> ApprovalIds \cup {None}]
  BY <1>2, <1>3, <1>4, <1>5 DEF GatesInv, GatesTyped, Abouts
<1>7. PICK s : s = [requests[i] EXCEPT !.state = "spent"]
  OBVIOUS
<1>8. /\ s \in ApprovalType /\ s.state = "spent" /\ s.requester = d.operator /\ s.what = d.target
      /\ s.approver = requests[i].approver
  BY <1>4, <1>6, <1>7 DEF ApprovalType
<1>9. /\ requests'[i] = s /\ \A j \in ApprovalIds \ {i} : requests'[j] = requests[j]
      /\ requests' \in [ApprovalIds -> ApprovalType]
      /\ spent'[t] = i /\ \A u \in Threads \ {t} : spent'[u] = spent[u]
      /\ spent' \in [Threads -> ApprovalIds \cup {None}]
  BY <1>4, <1>6, <1>7, <1>8
<1>10. requests[i].approver \in Operators \ {d.operator} /\ executed[i] = << >>
  BY <1>4, <1>6 DEF GatesInv, FourEyes
<1>11. \A u \in Threads : spent[u] # None => spent[u] # i
  BY <1>4 DEF GatesInv, InHand, Agreed
<1>12. RecorderInv'
  BY <1>1 DEF RecorderInv, RecorderTyped, OwnRequest, Governed, SealedAdmission
<1>13. GatesTyped' /\ OneRun'
  BY <1>1, <1>9 DEF GatesInv, GatesTyped, OneRun
<1>14. FourEyes'
  BY <1>1, <1>8, <1>9, <1>10 DEF GatesInv, FourEyes
<1>15. OneHand'
  BY <1>4, <1>9, <1>11 DEF GatesInv, OneHand
<1>16. SpentIsOnRecord'
  <2> SUFFICES ASSUME NEW a \in ApprovalIds, requests'[a].state = "spent"
               PROVE  \E r \in Requests : SealedAdmission(r)' /\ about'[r].approval = a
                        /\ about'[r].operator = requests'[a].requester /\ about'[r].target = requests'[a].what
    BY DEF SpentIsOnRecord
  <2>1. CASE a = i
    BY <1>1, <1>2, <1>3, <1>5, <1>8, <1>9, <2>1 DEF SealedAdmission
  <2>2. CASE a # i
    BY <1>1, <1>9, <2>2 DEF GatesInv, SpentIsOnRecord, SealedAdmission
  <2> QED BY <2>1, <2>2
<1>17. \A x : (Agreed(x) => Agreed(x)') /\ (Passed(x) => Passed(x)')
  BY <1>1, <1>4, <1>9 DEF Agreed, Passed
<1>18. Agreed(d)'
  BY <1>3, <1>6, <1>8, <1>9, <1>10 DEF Agreed
<1>19. ASSUME NEW u \in Threads PROVE InHand(u)'
  <2>1. CASE u = t
    <3>1. Passed(d)'
      BY <1>5, <1>17
    <3> QED BY <1>1, <1>2, <1>3, <1>4, <1>9, <1>10, <1>18, <2>1, <3>1 DEF InHand, Passed, Agreed
  <2>2. CASE u # t
    <3>1. PICK x : x = about[task[u].request]
      OBVIOUS
    <3>2. /\ task[u].pc # "idle" => Passed(x)'
          /\ spent[u] # None =>
               /\ task[u].pc = "run" /\ x.target \in DualControlled
               /\ spent[u] = x.approval /\ Agreed(x)' /\ executed[spent[u]] = << >>
      BY <1>17, <3>1 DEF GatesInv, InHand
    <3> QED BY <1>1, <1>9, <2>2, <3>1, <3>2 DEF InHand, Passed, Agreed
  <2> QED BY <2>1, <2>2
<1>20. ASSUME NEW r \in ran' PROVE Rightly(r)'
  <2>1. PICK x : x = about[r]
    OBVIOUS
  <2>2. Passed(x)' /\ (x.target \in DualControlled => Agreed(x)' /\ executed[x.approval] # << >>)
    BY <1>1, <1>17, <2>1 DEF GatesInv, Rightly
  <2> QED BY <1>1, <2>1, <2>2 DEF Rightly, Passed, Agreed
<1> QED BY <1>12, <1>13, <1>14, <1>15, <1>16, <1>19, <1>20 DEF GatesInv

(* The route runs, on the approval in hand if it takes one.                *)
LEMMA DispatchStep ==
    ASSUME RecorderInv, GatesInv, NEW t \in Threads, Dispatch(t)
    PROVE  RecorderInv' /\ GatesInv'
<1>1. UNCHANGED <<accepted, about>>
  BY DEF Dispatch, contractVars
<1>2. PICK q : q = task[t].request
  OBVIOUS
<1>3. /\ RecorderInv' /\ SealedStays /\ task[t].pc = "run" /\ task'[t].pc = "complete"
      /\ \A u \in Threads \ {t} : task'[u] = task[u]
      /\ task'[t].request = q /\ q \in Requests /\ ran' = ran \cup {q}
  BY <1>2, RouteStep DEF Dispatch, MovesOn
<1>4. PICK d : d = about[q]
  OBVIOUS
<1>5. Passed(d) /\ spent \in [Threads -> ApprovalIds \cup {None}] /\ executed \in [ApprovalIds -> Executions]
        /\ requests \in [ApprovalIds -> ApprovalType]
  BY <1>2, <1>3, <1>4 DEF GatesInv, GatesTyped, InHand
<1>6. requests' = requests
  BY DEF Dispatch, approvalVars, DC!Execute
<1>7. /\ spent'[t] = None /\ \A u \in Threads \ {t} : spent'[u] = spent[u]
      /\ spent' \in [Threads -> ApprovalIds \cup {None}]
  BY <1>5 DEF Dispatch
<1>8. d.target \in DualControlled =>
        /\ spent[t] \in ApprovalIds /\ spent[t] = d.approval /\ Agreed(d) /\ executed[d.approval] = << >>
        /\ executed' = [executed EXCEPT ![d.approval] =
                          << [actor |-> requests[d.approval].requester, what |-> requests[d.approval].what] >>]
  BY <1>2, <1>4, <1>5 DEF Dispatch, Mine, DC!Execute, GatesInv, InHand
<1>9. d.target \notin DualControlled => executed' = executed
  BY <1>2, <1>4 DEF Dispatch, Mine, approvalVars
<1>10. /\ executed' \in [ApprovalIds -> Executions]
       /\ \A i \in ApprovalIds : i # d.approval \/ d.target \notin DualControlled => executed'[i] = executed[i]
       /\ d.target \in DualControlled => executed'[d.approval] # << >>
  <2>1. CASE d.target \in DualControlled
    <3>1. PICK x : x = << [actor |-> requests[d.approval].requester, what |-> requests[d.approval].what] >>
      OBVIOUS
    <3>2. x \in Executions /\ x # << >>
      BY <1>5, <1>8, <2>1, <3>1 DEF Executions, ApprovalType
    <3> QED BY <1>5, <1>8, <2>1, <3>1, <3>2
  <2>2. CASE d.target \notin DualControlled
    BY <1>5, <1>9, <2>2
  <2> QED BY <2>1, <2>2
<1>11. GatesTyped' /\ OneHand'
  BY <1>1, <1>5, <1>6, <1>7, <1>10 DEF GatesInv, GatesTyped, OneHand
<1>12. FourEyes'
  BY <1>6, <1>8, <1>10 DEF GatesInv, FourEyes, Agreed
<1>13. SpentIsOnRecord'
  BY <1>1, <1>3, <1>6 DEF GatesInv, SpentIsOnRecord, SealedStays
<1>14. \A x : (Agreed(x) => Agreed(x)') /\ (Passed(x) => Passed(x)')
  BY <1>1, <1>6 DEF Agreed, Passed
<1>15. \A r \in ran : about[r].target \in DualControlled => executed[about[r].approval] # << >>
  BY DEF GatesInv, Rightly
<1>16. OneRun'
  <2> SUFFICES ASSUME NEW r \in ran', NEW s \in ran', r # s, about[r].target \in DualControlled,
                      about[s].target \in DualControlled, about[r].approval = about[s].approval
               PROVE  FALSE
    BY <1>1 DEF OneRun
  <2>1. CASE r \in ran /\ s \in ran
    BY <2>1 DEF GatesInv, OneRun
  <2>2. CASE r = q \/ s = q
    BY <1>3, <1>4, <1>8, <1>15, <2>2
  <2> QED BY <1>3, <2>1, <2>2
<1>17. ASSUME NEW u \in Threads PROVE InHand(u)'
  <2>1. CASE u = t
    BY <1>1, <1>3, <1>4, <1>5, <1>7, <1>14, <2>1 DEF InHand, Passed
  <2>2. CASE u # t
    <3>1. PICK x : x = about[task[u].request]
      OBVIOUS
    <3>2. /\ task[u].pc # "idle" => Passed(x)'
          /\ spent[u] # None =>
               /\ task[u].pc = "run" /\ x.target \in DualControlled
               /\ spent[u] = x.approval /\ Agreed(x)' /\ executed[spent[u]] = << >>
               /\ spent[u] \in ApprovalIds
      BY <1>14, <3>1 DEF GatesInv, InHand, Agreed
    <3>3. spent[u] # None => spent[u] # spent[t]
      BY <2>2 DEF GatesInv, OneHand
    <3>4. spent[u] # None => executed'[spent[u]] = << >>
      BY <1>8, <1>10, <3>2, <3>3
    <3> QED BY <1>1, <1>3, <1>7, <2>2, <3>1, <3>2, <3>4 DEF InHand, Passed, Agreed
  <2> QED BY <2>1, <2>2
<1>18. ASSUME NEW r \in ran' PROVE Rightly(r)'
  <2>1. CASE r = q
    <3>1. d.target \in DualControlled => Agreed(d)'
      BY <1>8, <1>14
    <3> QED BY <1>1, <1>4, <1>5, <1>10, <1>14, <2>1, <3>1 DEF Rightly, Passed, Agreed
  <2>2. CASE r \in ran
    <3>1. PICK x : x = about[r]
      OBVIOUS
    <3>2. Passed(x)' /\ (x.target \in DualControlled =>
                           x.approval \in ApprovalIds /\ Agreed(x)' /\ executed[x.approval] # << >>)
      BY <1>14, <2>2, <3>1 DEF GatesInv, Rightly, Agreed
    <3>3. x.target \in DualControlled => executed'[x.approval] # << >>
      BY <1>10, <3>2
    <3> QED BY <1>1, <3>1, <3>2, <3>3 DEF Rightly, Passed, Agreed
  <2> QED BY <1>3, <2>1, <2>2
<1> QED BY <1>3, <1>11, <1>12, <1>13, <1>16, <1>17, <1>18 DEF GatesInv

DispatchInv == ContractsInv /\ RecorderInv /\ GatesInv

LEMMA InitDispatch == Init => DispatchInv
<1> SUFFICES ASSUME Init PROVE DispatchInv
  OBVIOUS
<1>1. ContractsInv
  BY InitContracts DEF Init
<1>2. /\ log = << >> /\ sealed = 0 /\ ran = {} /\ task = [t \in Threads |-> FR!Idle]
      /\ requests = [i \in ApprovalIds |-> DC!Blank] /\ executed = [i \in ApprovalIds |-> << >>]
      /\ about = [r \in Requests |-> Nothing] /\ spent = [t \in Threads |-> None]
  BY DEF Init, FR!Init, FR!L!Init, DC!Init
<1>3. RecorderInv
  <2>1. RecorderTyped
    BY <1>2, IdleTask DEF RecorderTyped
  <2>2. OwnRequest /\ \A t \in Threads : Governed(task[t])
    BY <1>2, IdleTask DEF OwnRequest, Governed
  <2> QED BY <1>2, <2>1, <2>2 DEF RecorderInv
<1>4. /\ Nothing \in Abouts /\ DC!Blank \in ApprovalType /\ DC!Blank.state = "none" /\ << >> \in Executions
  BY DEF Nothing, Abouts, DC!Blank, ApprovalType, Executions
<1>5. GatesTyped /\ FourEyes /\ OneHand /\ OneRun /\ SpentIsOnRecord
  BY <1>2, <1>4 DEF GatesTyped, FourEyes, OneHand, OneRun, SpentIsOnRecord
<1>6. \A t \in Threads : InHand(t)
  BY <1>2, IdleTask DEF InHand
<1> QED BY <1>1, <1>2, <1>3, <1>5, <1>6 DEF DispatchInv, GatesInv

(* The dispatcher uses the contracts and the recorder as they are.         *)
LEMMA ContractsAreUsed == [Next]_vars => [CC!Next]_CC!vars
<1> SUFFICES ASSUME [Next]_vars PROVE [CC!Next]_CC!vars
  OBVIOUS
<1>1. contractVars' = contractVars => CC!vars' = CC!vars
  BY DEF contractVars, CC!vars
<1>2. CASE \E t \in Threads : Receive(t) \/ GuardContract(t) \/ Accept(t) \/ Respond(t)
  BY <1>2 DEF Receive, GuardContract, Accept, Respond, CC!Next
<1>3. CASE Preflight \/ Restart \/ Tick
  BY <1>3 DEF Preflight, Restart, Tick, CC!Next
<1>4. CASE \/ \E t \in Threads : Record(t) \/ Spend(t) \/ Refuse(t) \/ Dispatch(t)
           \/ Approvals \/ UNCHANGED vars
  BY <1>1, <1>4 DEF Record, Spend, Refuse, Dispatch, Approvals, vars
<1> QED BY <1>2, <1>3, <1>4 DEF Next

LEMMA RecorderIsUsed == [Next]_vars => [FR!Next]_FR!vars
<1> SUFFICES ASSUME [Next]_vars PROVE [FR!Next]_FR!vars
  OBVIOUS
<1>1. recorderVars' = recorderVars => FR!vars' = FR!vars
  BY DEF recorderVars, FR!vars
<1>2. CASE \E t \in Threads : Accept(t) \/ Record(t) \/ Refuse(t) \/ Dispatch(t)
  BY <1>2 DEF Accept, Record, Refuse, Dispatch, FR!Next, FR!Step
<1>3. CASE Restart
  BY <1>3 DEF Restart, FR!Next
<1>4. CASE \/ \E t \in Threads : Receive(t) \/ GuardContract(t) \/ Respond(t) \/ Spend(t)
           \/ Preflight \/ Approvals \/ Tick \/ UNCHANGED vars
  BY <1>1, <1>4 DEF Receive, GuardContract, Respond, Spend, Preflight, Approvals, Tick, vars
<1> QED BY <1>2, <1>3, <1>4 DEF Next

LEMMA ApprovalsAreUsed == GatesInv /\ [Next]_vars => [DC!Next]_<<requests, executed>>
<1> SUFFICES ASSUME GatesInv, [Next]_vars, ~ UNCHANGED <<requests, executed>> PROVE DC!Next
  OBVIOUS
<1>0. requests \in [ApprovalIds -> ApprovalType]
  BY DEF GatesInv, GatesTyped
<1>1. CASE Approvals
  <2>0. PICK i \in ApprovalIds : \E s :
               /\ DC!Ask(requests[i], s) \/ DC!Agree(requests[i], s) \/ DC!Close(requests[i], s)
               /\ requests' = [requests EXCEPT ![i] = s] /\ executed' = executed
    BY <1>1 DEF Approvals
  <2>1. PICK s : /\ DC!Ask(requests[i], s) \/ DC!Agree(requests[i], s) \/ DC!Close(requests[i], s)
                 /\ requests' = [requests EXCEPT ![i] = s] /\ executed' = executed
    BY <2>0
  <2>2. requests'[i] = s /\ \A j \in ApprovalIds \ {i} : requests'[j] = requests[j]
    BY <1>0, <2>1
  <2>3. \A j \in ApprovalIds : DC!Moves(requests[j], requests'[j])
    BY <2>1, <2>2 DEF DC!Moves
  <2>4. requests' = [j \in ApprovalIds |-> requests'[j]]
    BY <1>0, <2>1
  <2> QED BY <2>1, <2>3, <2>4 DEF DC!Next
<1>2. ASSUME NEW t \in Threads, Spend(t) PROVE DC!Next
  <2>1. PICK i : /\ requests[i].state = "approved" /\ requests' = [requests EXCEPT ![i].state = "spent"]
                 /\ executed' = executed
    BY <1>2 DEF Spend, Consumable
  <2>2. \A j \in ApprovalIds : \/ requests'[j] = requests[j]
                               \/ j = i /\ requests'[j] = [requests[j] EXCEPT !.state = "spent"]
    BY <1>0, <2>1
  <2>3. \A j \in ApprovalIds : DC!Moves(requests[j], requests'[j])
    BY <2>1, <2>2 DEF DC!Moves, DC!Spend
  <2>4. requests' = [j \in ApprovalIds |-> requests'[j]]
    BY <1>0, <2>1
  <2> QED BY <2>1, <2>3, <2>4 DEF DC!Next
<1>3. ASSUME NEW t \in Threads, Dispatch(t) PROVE DC!Next
  <2>1. requests' = requests /\ ((spent[t] # None /\ DC!Execute(spent[t])) \/ executed' = executed)
    BY <1>3 DEF Dispatch, approvalVars
  <2>2. spent[t] # None => spent[t] \in ApprovalIds
    BY DEF GatesInv, GatesTyped
  <2>3. requests' = [j \in ApprovalIds |-> requests'[j]] /\ \A j \in ApprovalIds : DC!Moves(requests[j], requests'[j])
    BY <1>0, <2>1 DEF DC!Moves
  <2> QED BY <2>1, <2>2, <2>3 DEF DC!Next
<1>4. ~ UNCHANGED approvalVars
  BY DEF approvalVars
<1> QED BY <1>1, <1>2, <1>3, <1>4
       DEF Next, Receive, GuardContract, Accept, Record, Refuse, Respond, Preflight, Restart, Tick, vars

LEMMA NextDispatch == DispatchInv /\ [Next]_vars => DispatchInv'
<1> SUFFICES ASSUME ContractsInv, RecorderInv, GatesInv, [Next]_vars
             PROVE  ContractsInv' /\ RecorderInv' /\ GatesInv'
  BY DEF DispatchInv
<1>1. ContractsInv' /\ AcceptedGrows
  BY ContractsAreUsed, NextContracts, AcceptanceGrows
<1>2. CASE \/ \E t \in Threads : Receive(t) \/ GuardContract(t) \/ Respond(t)
           \/ Preflight \/ Tick \/ UNCHANGED vars
  BY <1>1, <1>2, ContractsAlone DEF Receive, GuardContract, Respond, Preflight, Tick, vars
<1>3. ASSUME NEW t \in Threads, Accept(t) PROVE RecorderInv' /\ GatesInv'
  BY <1>1, <1>3, AcceptStep
<1>4. ASSUME NEW t \in Threads, Record(t) PROVE RecorderInv' /\ GatesInv'
  <2>1. MovesOn(t) /\ task[t].pc # "run" /\ ran' = ran
    BY <1>4, AppendStep DEF Record
  <2>2. UNCHANGED <<requests, executed, about, spent>>
    BY <1>4 DEF Record, approvalVars
  <2>3. spent[t] = None
    BY <2>1 DEF GatesInv, InHand
  <2> QED BY <1>1, <2>1, <2>2, <2>3, GatesFrame DEF MovesOn, GatesInv, GatesTyped
<1>5. ASSUME NEW t \in Threads, Spend(t) PROVE RecorderInv' /\ GatesInv'
  BY <1>5, SpendStep
<1>6. ASSUME NEW t \in Threads, Refuse(t) PROVE RecorderInv' /\ GatesInv'
  <2>1. MovesOn(t) /\ ran' = ran
    BY <1>6, RouteStep DEF Refuse
  <2>2. UNCHANGED <<requests, executed, about>> /\ spent' = [spent EXCEPT ![t] = None]
    BY <1>6 DEF Refuse, approvalVars
  <2>3. /\ spent' \in [Threads -> ApprovalIds \cup {None}] /\ spent'[t] = None
        /\ \A u \in Threads \ {t} : spent'[u] = spent[u]
    BY <2>2 DEF GatesInv, GatesTyped
  <2> QED BY <1>1, <2>1, <2>2, <2>3, GatesFrame DEF MovesOn
<1>7. ASSUME NEW t \in Threads, Dispatch(t) PROVE RecorderInv' /\ GatesInv'
  BY <1>7, DispatchStep
<1>8. CASE Approvals
  BY <1>1, <1>8, ApprovalsStep
<1>9. CASE Restart
  <2>1. RecorderInv' /\ SealedStays /\ ran' = ran /\ \A t \in Threads : task'[t].pc = "idle"
    BY <1>9, PanelRestarts DEF Restart
  <2>2. UNCHANGED <<requests, executed, about>> /\ spent' = [t \in Threads |-> None]
    BY <1>9 DEF Restart, approvalVars
  <2> QED BY <1>1, <2>1, <2>2, GatesFrame
<1> QED BY <1>1, <1>2, <1>3, <1>4, <1>5, <1>6, <1>7, <1>8, <1>9 DEF Next

LEMMA DispatchKeeps == Spec => []DispatchInv
  BY InitDispatch, NextDispatch, PTL DEF Spec

-----------------------------------------------------------------------------
(* The theorems.                                                           *)

(* What the guard lets through is exactly what was reviewed, in the process *)
(* that reviewed it: verify() and consume() are two steps, and restarts and *)
(* other threads come between them.                                         *)
THEOREM OnlyAsReviewed == Spec => []AcceptedAsReviewed
<1>1. DispatchInv => AcceptedAsReviewed
  BY DEF DispatchInv, ContractsInv, AcceptedAsReviewed
<1> QED BY <1>1, DispatchKeeps, PTL

(* As long as a contract lives, ReplayGuard.consume() lets it through once, *)
(* although its clock is read before its lock is taken.                     *)
THEOREM AcceptedOnceWhileAlive == Spec => []OnceWhileAlive
<1>1. DispatchInv => OnceWhileAlive
  BY DEF DispatchInv, ContractsInv, OnceWhileAlive
<1> QED BY <1>1, DispatchKeeps, PTL

(* A contract keeps both promises to whatever caller takes its steps, the   *)
(* gates of do_POST or others.                                              *)
THEOREM ContractsAreSound == CC!Spec => [](CC!TypeOK /\ CC!AcceptedAsReviewed /\ CC!OnceWhileAlive)
<1>1. ContractsInv => CC!TypeOK /\ CC!AcceptedAsReviewed /\ CC!OnceWhileAlive
  BY DEF ContractsInv, ContractsTyped, AttemptsAreVerified, CC!TypeOK, Entries
<1> QED BY <1>1, ContractsKeep, PTL

(* do_POST lets no route run past a gate: its admission is sealed, its      *)
(* contract was for this operator and target, and where four eyes are asked *)
(* for, another operator agreed to this very target in an approval that no  *)
(* other run used; and no approval is used up off the record.               *)
THEOREM EveryGateIsPassed == Spec => []DispatchIsGated
<1>1. DispatchInv => TypeOK
  BY DEF DispatchInv, GatesInv, GatesTyped, InHand, TypeOK, Abouts
<1>2. DispatchInv => RunPassedEveryGate
  BY DEF DispatchInv, RecorderInv, GatesInv, Rightly, Passed, Agreed, OneRun, RunPassedEveryGate
<1>3. DispatchInv => DispatchIsGated
  BY <1>1, <1>2 DEF DispatchInv, GatesInv, DispatchIsGated
<1> QED BY <1>3, DispatchKeeps, PTL

(* The gates use the contracts, the recorder and the approvals only in the  *)
(* ways in which these are specified.                                       *)
THEOREM PartsAreUsedAsSpecified == Spec => CC!Spec /\ FR!Spec /\ DC!Spec
<1>1. Init => CC!Init /\ FR!Init /\ DC!Init
  BY DEF Init
<1>2. DispatchInv => GatesInv
  BY DEF DispatchInv
<1> QED BY <1>1, <1>2, ContractsAreUsed, RecorderIsUsed, ApprovalsAreUsed, DispatchKeeps, PTL
       DEF Spec, CC!Spec, FR!Spec, DC!Spec

-----------------------------------------------------------------------------
(* The recorder's theorems inside the dispatcher.                          *)

FRP == INSTANCE FlightRecorder_proofs

(* The recorder of the dispatcher is the one its own theorems are about.   *)
LEMMA SameRecorder == FR!Spec => FRP!Spec
<1>1. FR!Init => FRP!Init
  BY DEF FR!Init, FRP!Init, FR!L!Init, FRP!L!Init, FR!Idle, FRP!Idle
<1>2. [FR!Next]_FR!vars => [FRP!Next]_FRP!vars
  <2>1. ASSUME NEW t, FR!Begin(t) PROVE FRP!Begin(t)
    BY <2>1, Zenon DEF FR!Begin, FRP!Begin, FR!Logged, FRP!Logged, FR!Event, FRP!Event
  <2>2. ASSUME NEW t, FR!AppendCommit(t) PROVE FRP!AppendCommit(t)
    BY <2>2, Zenon DEF FR!AppendCommit, FRP!AppendCommit, FR!Pending, FRP!Pending, FR!Event, FRP!Event,
       FR!Appending, FRP!Appending, FR!L!Commit, FRP!L!Commit, FR!L!Intact, FRP!L!Intact
  <2>3. ASSUME NEW t, FR!AppendSeal(t) PROVE FRP!AppendSeal(t)
    BY <2>3, Zenon DEF FR!AppendSeal, FRP!AppendSeal, FR!Appending, FRP!Appending, FR!L!Seal, FRP!L!Seal
  <2>4. ASSUME NEW t, FR!AppendReturn(t) PROVE FRP!AppendReturn(t)
    BY <2>4, Zenon DEF FR!AppendReturn, FRP!AppendReturn, FR!Pending, FRP!Pending, FR!Event, FRP!Event,
       FR!Appending, FRP!Appending, FR!L!Acknowledge, FRP!L!Acknowledge, FR!Goto, FRP!Goto,
       FR!Follows, FRP!Follows, FR!Idle, FRP!Idle
  <2>5. ASSUME NEW t, FR!AppendFails(t) PROVE FRP!AppendFails(t)
    BY <2>5, Zenon DEF FR!AppendFails, FRP!AppendFails, FR!Released, FRP!Released,
       FR!Appending, FRP!Appending, FR!Goto, FRP!Goto,
       FR!AfterFailure, FRP!AfterFailure, FR!Idle, FRP!Idle
  <2>6. ASSUME NEW t, FR!Run(t) PROVE FRP!Run(t)
    BY <2>6, Zenon DEF FR!Run, FRP!Run, FR!Goto, FRP!Goto, FR!Idle, FRP!Idle
  <2>7. ASSUME NEW t, FR!Refuse(t) PROVE FRP!Refuse(t)
    BY <2>7, Zenon DEF FR!Refuse, FRP!Refuse, FR!Goto, FRP!Goto, FR!Idle, FRP!Idle
  <2>8. ASSUME NEW t, FR!ReconcileCheck(t) PROVE FRP!ReconcileCheck(t)
    BY <2>8, Zenon DEF FR!ReconcileCheck, FRP!ReconcileCheck, FR!Goto, FRP!Goto, FR!Idle, FRP!Idle,
       FR!L!Intact, FRP!L!Intact, FR!Open, FRP!Open, FR!Logged, FRP!Logged, FR!Event, FRP!Event
  <2>9. ASSUME NEW t, FR!ReconcileReturn(t) PROVE FRP!ReconcileReturn(t)
    BY <2>9, Zenon DEF FR!ReconcileReturn, FRP!ReconcileReturn, FR!Goto, FRP!Goto, FR!Idle, FRP!Idle
  <2>10. FR!Restart => FRP!Restart
    BY DEF FR!Restart, FRP!Restart, FR!Idle, FRP!Idle
  <2>11. UNCHANGED FR!vars => UNCHANGED FRP!vars
    BY DEF FR!vars, FRP!vars
  <2> QED
    BY <2>1, <2>2, <2>3, <2>4, <2>5, <2>6, <2>7, <2>8, <2>9, <2>10, <2>11
       DEF FR!Next, FR!Step, FRP!Next, FRP!Step
<1> QED  BY <1>1, <1>2, PTL DEF FR!Spec, FRP!Spec

(* Behind the gates of do_POST the ledger still tells each request once and *)
(* in order, and no route runs before its admission is sealed: what holds   *)
(* of the recorder by itself holds where it is used.                        *)
THEOREM RecorderKeepsItsWord == Spec => [](FR!RunIsSealed /\ FR!OneStoryPerRequest)
<1>1. FRP!ConstantsAssumption
  BY DispatchAssumption DEF FRP!ConstantsAssumption
<1>2. FRP!OneStoryPerRequest => FR!OneStoryPerRequest
  BY Zenon DEF FRP!OneStoryPerRequest, FR!OneStoryPerRequest
<1>3. FRP!RunIsSealed => FR!RunIsSealed
  BY Zenon DEF FRP!RunIsSealed, FR!RunIsSealed, FRP!Event, FR!Event
<1> QED
  BY <1>1, <1>2, <1>3, PartsAreUsedAsSpecified, SameRecorder, FRP!SealedBeforeRun, FRP!ToldOnce, PTL
=============================================================================
