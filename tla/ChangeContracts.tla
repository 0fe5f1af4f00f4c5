-------------------------- MODULE ChangeContracts --------------------------
(***************************************************************************)
(* Blast-radius change contracts: issue(), verify() and ReplayGuard of     *)
(* admin/change_contracts.py, as the handler threads of do_POST use them.  *)
(*                                                                         *)
(* A contract binds one operator to one exact target until it expires.     *)
(* The signing secret and the replay guard live in process memory.         *)
(* verify() and ReplayGuard.consume() each read the clock for themselves,  *)
(* and consume() reads it before it takes the guard's lock.                *)
(***************************************************************************)
EXTENDS Integers, Sequences

CONSTANTS
    Threads,      \* handler threads
    Operators,    \* authenticated operators (principal["id"])
    Targets,      \* governed requests: route, capability, body, policy
    ContractIds,  \* random contract ids
    TTL,          \* CHANGE_CONTRACT_TTL_SECONDS, clamped to 30..300
    MaxClock,     \* bound on the wall clock
    MaxRestarts,  \* bound on the process restarts
    None

(* AdminDispatch, which uses this module, assumes it. *)
ContractsAssumption ==
    /\ TTL \in Nat \ {0} /\ MaxClock \in Nat /\ MaxRestarts \in Nat
    /\ None \notin Operators /\ None \notin Targets /\ None \notin ContractIds

VARIABLES
    clock,      \* time.time()
    process,    \* which process runs: its number stands for its secret
    contracts,  \* the contracts issued, by id
    consumed,   \* ReplayGuard._consumed: id -> expiry, 0 when absent
    attempt,    \* the governed request each thread handles
    accepted    \* history: by id, the attempts the guard let through

vars == <<clock, process, contracts, consumed, attempt, accepted>>

NoContract == [issuer |-> -1, operator |-> None, target |-> None, expires |-> 0]

NoAttempt == [pc |-> "idle", id |-> None, operator |-> None,
              target |-> None, now |-> 0]

Init ==
    /\ clock = 0 /\ process = 0
    /\ contracts = [c \in ContractIds |-> NoContract]
    /\ consumed = [c \in ContractIds |-> 0]
    /\ attempt = [t \in Threads |-> NoAttempt]
    /\ accepted = [c \in ContractIds |-> << >>]

-----------------------------------------------------------------------------

(* issue(), from the preflight route: the contract goes to the caller. *)
Issue(c, operator, target) ==
    /\ contracts[c] = NoContract
    /\ contracts' = [contracts EXCEPT ![c] =
                       [issuer |-> process, operator |-> operator,
                        target |-> target, expires |-> clock + TTL]]
    /\ UNCHANGED <<clock, process, consumed, attempt, accepted>>

(* Fault: a signature outlives the process that made it. *)
Verifies_AnyProcess(c, operator, target) ==
    /\ contracts[c].expires > clock
    /\ contracts[c].operator = operator
    /\ contracts[c].target = target

(* verify(): the signature is of this process, the contract has not
   expired, and it is for exactly this operator and target. *)
Verifies(c, operator, target) ==
    /\ contracts[c].issuer = process
    /\ contracts[c].expires > clock
    /\ contracts[c].operator = operator
    /\ contracts[c].target = target

Verify(t, c, operator, target) ==
    /\ attempt[t].pc = "idle"
    /\ Verifies(c, operator, target)
    /\ attempt' = [attempt EXCEPT ![t] =
                     [pc |-> "verified", id |-> c, operator |-> operator,
                      target |-> target, now |-> 0]]
    /\ UNCHANGED <<clock, process, contracts, consumed, accepted>>

(* consume() reads its own clock, then waits for the guard's lock. *)
ReadGuardClock(t) ==
    /\ attempt[t].pc = "verified"
    /\ attempt' = [attempt EXCEPT ![t] = [@ EXCEPT !.pc = "guard",
                                                   !.now = clock]]
    /\ UNCHANGED <<clock, process, contracts, consumed, accepted>>

(* Fault: the table is emptied. *)
Pruned_All(now) == [c \in ContractIds |-> 0]

(* Under the lock: entries whose expiry has passed are dropped. *)
Pruned(now) ==
    [c \in ContractIds |-> IF consumed[c] > now THEN consumed[c] ELSE 0]

Consume(t) ==
    LET a == attempt[t] IN
    /\ a.pc = "guard"
    /\ Pruned(a.now)[a.id] = 0
    /\ consumed' = [Pruned(a.now) EXCEPT ![a.id] = contracts[a.id].expires]
    /\ accepted' = [accepted EXCEPT ![a.id] =
                      Append(@, [process |-> process, at |-> clock,
                                 operator |-> a.operator,
                                 target |-> a.target])]
    /\ attempt' = [attempt EXCEPT ![t] = [@ EXCEPT !.pc = "accepted"]]
    /\ UNCHANGED <<clock, process, contracts>>

(* Already consumed: the drop of expired entries stays. *)
RefuseReplay(t) ==
    LET a == attempt[t] IN
    /\ a.pc = "guard"
    /\ Pruned(a.now)[a.id] # 0
    /\ consumed' = Pruned(a.now)
    /\ attempt' = [attempt EXCEPT ![t] = NoAttempt]
    /\ UNCHANGED <<clock, process, contracts, accepted>>

(* The response to an accepted request has been sent. *)
Finish(t) ==
    /\ attempt[t].pc = "accepted"
    /\ attempt' = [attempt EXCEPT ![t] = NoAttempt]
    /\ UNCHANGED <<clock, process, contracts, consumed, accepted>>

(* A new process: new secret, empty guard, no request in flight. *)
Restart ==
    /\ process < MaxRestarts
    /\ process' = process + 1
    /\ consumed' = [c \in ContractIds |-> 0]
    /\ attempt' = [t \in Threads |-> NoAttempt]
    /\ UNCHANGED <<clock, contracts, accepted>>

Tick ==
    /\ clock < MaxClock
    /\ clock' = clock + 1
    /\ UNCHANGED <<process, contracts, consumed, attempt, accepted>>

Next ==
    \/ \E c \in ContractIds, o \in Operators, g \in Targets :
         \/ Issue(c, o, g)
         \/ \E t \in Threads : Verify(t, c, o, g)
    \/ \E t \in Threads :
         \/ ReadGuardClock(t) \/ Consume(t) \/ RefuseReplay(t) \/ Finish(t)
    \/ Restart \/ Tick

Spec == Init /\ [][Next]_vars

-----------------------------------------------------------------------------
(* Properties. *)

ContractType ==
    [issuer : Nat \cup {-1}, operator : Operators \cup {None},
     target : Targets \cup {None}, expires : Nat]

AttemptType ==
    [pc : {"idle", "verified", "guard", "accepted"},
     id : ContractIds \cup {None}, operator : Operators \cup {None},
     target : Targets \cup {None}, now : Nat]

AcceptedType ==
    [process : Nat, at : Nat, operator : Operators, target : Targets]

(* Type invariant: contracts, guard and attempts keep their shape. *)
TypeOK ==
    /\ clock \in Nat /\ process \in Nat
    /\ contracts \in [ContractIds -> ContractType]
    /\ consumed \in [ContractIds -> Nat]
    /\ attempt \in [Threads -> AttemptType]
    /\ \A t \in Threads : attempt[t].pc # "idle" =>
         attempt[t].id \in ContractIds /\ attempt[t].operator \in Operators
           /\ attempt[t].target \in Targets
    /\ accepted \in [ContractIds -> Seq(AcceptedType)]

(* A contract lets through only its own operator and target, and only in
   the process that issued it, even when the process restarts between the
   issue, the verification and the consumption (verify, lines 349-403). *)
AcceptedAsReviewed ==
    \A c \in ContractIds : \A k \in DOMAIN accepted[c] :
      /\ accepted[c][k].process = contracts[c].issuer
      /\ accepted[c][k].operator = contracts[c].operator
      /\ accepted[c][k].target = contracts[c].target

(* Until the contract expires, the guard lets it through once, however many
   threads present it: only a clock reading past the expiry can drop its
   entry (ReplayGuard.consume, lines 414-429). *)
OnceWhileAlive ==
    \A c \in ContractIds : \A j, k \in DOMAIN accepted[c] :
      /\ accepted[c][j].at < contracts[c].expires
      /\ accepted[c][k].at < contracts[c].expires
      => j = k

(* docs/change-contracts.md: "Each contract is atomically consumed before
   dispatch and authorizes one attempt only; concurrent or sequential
   replay is refused." *)
OneAttempt == \A c \in ContractIds : Len(accepted[c]) <= 1

=============================================================================
