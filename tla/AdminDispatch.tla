--------------------------- MODULE AdminDispatch ---------------------------
(***************************************************************************)
(* A governed POST through the gates of do_POST in admin/admin_panel.py,   *)
(* with change contracts, the fail-closed flight recorder and four-eyes    *)
(* control all switched on, over the real ChangeContracts and              *)
(* FlightRecorder and the promise of the approval store, DualControl:      *)
(*                                                                         *)
(*   contract verified and consumed -> admission sealed -> approval        *)
(*   consumed -> route run -> completion sealed -> response sent.          *)
(*                                                                         *)
(* The body is parsed once and kept (parse_body), so every gate judges the *)
(* same target.                                                            *)
(***************************************************************************)
EXTENDS Integers, Sequences

CONSTANTS
    Threads, Operators, Targets,
    DualControlled,  \* targets at or above DUAL_CONTROL_POLICY's risk
    ContractIds, ApprovalIds, Requests,
    TTL, MaxClock, MaxRestarts, None

VARIABLES
    clock, process, contracts, consumed, attempt, accepted,  \* the contracts
    log, sealed, acked, lock, recLock, task, ran,            \* the recorder
    requests, executed,                                      \* the approvals
    about,  \* by request id: operator, target, contract and approval, and the
            \* approval that its admission event names
    spent   \* the approval each thread's request has consumed

contractVars == <<clock, process, contracts, consumed, attempt, accepted>>
recorderVars == <<log, sealed, acked, lock, recLock, task, ran>>
approvalVars == <<requests, executed>>
vars == <<contractVars, recorderVars, approvalVars, about, spent>>

CC == INSTANCE ChangeContracts
FR == INSTANCE FlightRecorder
DC == INSTANCE DualControl WITH Ids <- ApprovalIds, Mutations <- Targets

ASSUME DispatchAssumption ==
    /\ CC!ContractsAssumption
    /\ DualControlled \subseteq Targets
    /\ None \notin ApprovalIds /\ None \notin Threads /\ None \notin Requests

Nothing == [operator |-> None, target |-> None, contract |-> None,
            approval |-> None, named |-> None]

Init ==
    /\ CC!Init /\ FR!Init /\ DC!Init
    /\ about = [r \in Requests |-> Nothing]
    /\ spent = [t \in Threads |-> None]

-----------------------------------------------------------------------------
(* The contract gate. *)

(* A contract is issued by the preflight route, which is not governed. *)
Preflight ==
    /\ \E c \in ContractIds, o \in Operators, g \in Targets : CC!Issue(c, o, g)
    /\ UNCHANGED <<recorderVars, approvalVars, about, spent>>

Receive(t) ==
    /\ \E c \in ContractIds, o \in Operators, g \in Targets :
         CC!Verify(t, c, o, g)
    /\ UNCHANGED <<recorderVars, approvalVars, about, spent>>

GuardContract(t) ==
    /\ CC!ReadGuardClock(t) \/ CC!RefuseReplay(t)
    /\ UNCHANGED <<recorderVars, approvalVars, about, spent>>

(* The guard lets the request through; it gets its id.  An approval id comes
   in a header or in the body; the admission event only copies the header. *)
Accept(t) ==
    /\ CC!Consume(t)
    /\ FR!Begin(t) /\ task'[t].subject = None
    /\ \E i \in ApprovalIds \cup {None} : \E named \in {i, None} :
         about' = [about EXCEPT ![task'[t].request] =
                     [operator |-> attempt[t].operator,
                      target |-> attempt[t].target,
                      contract |-> attempt[t].id, approval |-> i,
                      named |-> named]]
    /\ UNCHANGED <<approvalVars, spent>>

-----------------------------------------------------------------------------
(* The flight recorder: the admission first, later the completion. *)

Record(t) ==
    /\ FR!AppendCommit(t) \/ FR!AppendSeal(t) \/ FR!AppendReturn(t)
         \/ FR!AppendFails(t)
    /\ UNCHANGED <<contractVars, approvalVars, about, spent>>

-----------------------------------------------------------------------------
(* The approval gate. *)

(* Operators request, approve, reject and cancel; requests expire. *)
Approvals ==
    /\ \E i \in ApprovalIds, r \in [state : {"pending", "approved", "closed"},
                                    requester : Operators, what : Targets,
                                    approver : Operators \cup {None}] :
         /\ \/ DC!Ask(requests[i], r) \/ DC!Agree(requests[i], r)
            \/ DC!Close(requests[i], r)
         /\ requests' = [requests EXCEPT ![i] = r]
    /\ UNCHANGED <<contractVars, recorderVars, executed, about, spent>>

Mine(t) == about[task[t].request]

(* Fault: the approval is consumed before the admission is sealed. *)
AtApprovalGate_Early(t) ==
    /\ task[t].pc \in {"admit", "run"}
    /\ Mine(t).target \in DualControlled
    /\ spent[t] = None

AtApprovalGate(t) ==
    /\ task[t].pc = "run"
    /\ Mine(t).target \in DualControlled
    /\ spent[t] = None

Consumable(i, d) ==
    /\ requests[i].state = "approved"
    /\ requests[i].requester = d.operator
    /\ requests[i].what = d.target

Spend(t) ==
    /\ AtApprovalGate(t)
    /\ LET i == Mine(t).approval IN
         /\ i # None /\ Consumable(i, Mine(t))
         /\ requests' = [requests EXCEPT ![i].state = "spent"]
         /\ spent' = [spent EXCEPT ![t] = i]
    /\ UNCHANGED <<contractVars, recorderVars, executed, about>>

(* No approval, not the right one, or the store fails, if need be after its
   commit: the request is answered with an error. *)
Refuse(t) ==
    /\ FR!Refuse(t)
    /\ Mine(t).target \in DualControlled
    /\ spent' = [spent EXCEPT ![t] = None]
    /\ UNCHANGED <<contractVars, approvalVars, about>>

-----------------------------------------------------------------------------
(* The route, and the end of the request. *)

Dispatch(t) ==
    /\ FR!Run(t)
    /\ IF Mine(t).target \in DualControlled
         THEN spent[t] # None /\ DC!Execute(spent[t]) /\ UNCHANGED requests
         ELSE UNCHANGED approvalVars
    /\ spent' = [spent EXCEPT ![t] = None]
    /\ UNCHANGED <<contractVars, about>>

Respond(t) ==
    /\ task[t].pc = "idle"
    /\ CC!Finish(t)
    /\ UNCHANGED <<recorderVars, approvalVars, about, spent>>

Restart ==
    /\ CC!Restart /\ FR!Restart
    /\ spent' = [t \in Threads |-> None]
    /\ UNCHANGED <<approvalVars, about>>

Tick ==
    /\ CC!Tick
    /\ UNCHANGED <<recorderVars, approvalVars, about, spent>>

Next ==
    \/ \E t \in Threads :
         \/ Receive(t) \/ GuardContract(t) \/ Accept(t) \/ Record(t)
         \/ Spend(t) \/ Refuse(t) \/ Dispatch(t) \/ Respond(t)
    \/ Preflight \/ Approvals \/ Restart \/ Tick

Spec == Init /\ [][Next]_vars

-----------------------------------------------------------------------------
(* Properties. *)

(* Type invariant of what the composition adds to its parts; an approval is
   in a request's hands only while it stands before its route. *)
TypeOK ==
    /\ about \in [Requests -> [operator : Operators \cup {None},
                               target : Targets \cup {None},
                               contract : ContractIds \cup {None},
                               approval : ApprovalIds \cup {None},
                               named : ApprovalIds \cup {None}]]
    /\ spent \in [Threads -> ApprovalIds \cup {None}]
    /\ \A t \in Threads : spent[t] # None => task[t].pc = "run"

SealedAdmission(r) ==
    \E k \in 1..sealed : log[k] = [kind |-> "admitted", request |-> r]

(* Whatever route ran did so behind all the gates at once: its admission is
   sealed, its contract let this operator and target through, and where
   four eyes are demanded another operator agreed to this very target in an
   approval that no other request ever ran on, even when a contract is
   presented twice (do_POST, lines 13473-13558). *)
RunPassedEveryGate ==
    \A r \in ran :
      LET d == about[r] IN
      /\ SealedAdmission(r)
      /\ \E k \in DOMAIN accepted[d.contract] :
           /\ accepted[d.contract][k].operator = d.operator
           /\ accepted[d.contract][k].target = d.target
      /\ d.target \in DualControlled =>
           /\ requests[d.approval].approver \in Operators \ {d.operator}
           /\ requests[d.approval].requester = d.operator
           /\ requests[d.approval].what = d.target
           /\ \A q \in ran \ {r} : about[q].approval = d.approval =>
                about[q].target \notin DualControlled

(* An approval is used up only by a request that the sealed ledger admitted
   for the same operator and target: a failing ledger, a refused contract
   or a restart never costs an approval without leaving a trace of who
   spent it (the order of the gates in do_POST, lines 13473-13558). *)
SpentIsOnRecord ==
    \A i \in ApprovalIds : requests[i].state = "spent" =>
      \E r \in Requests :
        /\ SealedAdmission(r)
        /\ about[r].approval = i
        /\ about[r].operator = requests[i].requester
        /\ about[r].target = requests[i].what

(* docs/audit-ledger.md: the admission carries "request ID, principal, path,
   capability, body digest, and optional approval ID"; read as: a sealed
   admission names the approval that its request used. *)
SpentApprovalIsNamed ==
    \A i \in ApprovalIds : requests[i].state = "spent" =>
      \E r \in Requests : SealedAdmission(r) /\ about[r].named = i

(* Whatever route ran passed the contract, the recorder and the two-person
   rule, and an approval is spent by an admitted request only. *)
DispatchIsGated == TypeOK /\ RunPassedEveryGate /\ SpentIsOnRecord

(* The contract gate lets a request through only for the operator and the
   target that were reviewed, in the process that reviewed them. *)
AcceptedAsReviewed == CC!AcceptedAsReviewed

(* Until its contract expires, the gate lets one request through, however
   many threads present it. *)
OnceWhileAlive == CC!OnceWhileAlive

(* docs/change-contracts.md: "authorizes one attempt only". *)
OneAttempt == CC!OneAttempt

=============================================================================
