---------------------------- MODULE DualControl ----------------------------
(***************************************************************************)
(* What four-eyes change control promises, without clocks, locks, ledgers  *)
(* or restarts: a requester asks for one exact mutation, somebody else     *)
(* agrees, and the requester may then run that mutation once.              *)
(*                                                                         *)
(* ChangeApprovals (the SQLite store) implements this specification.       *)
(***************************************************************************)
EXTENDS Sequences

CONSTANTS Operators, Ids, Mutations, None

VARIABLES
    requests,   \* requests[i]: the request with id i
    executed    \* executed[i]: the executions that request i authorised

Blank == [state |-> "none", requester |-> None, what |-> None,
          approver |-> None]

Init ==
    /\ requests = [i \in Ids |-> Blank]
    /\ executed = [i \in Ids |-> << >>]

Ask(r, s) ==
    /\ r = Blank
    /\ \E a \in Operators, m \in Mutations :
         s = [state |-> "pending", requester |-> a, what |-> m,
              approver |-> None]

Agree(r, s) ==
    /\ r.state = "pending"
    /\ \E b \in Operators \ {r.requester} :
         s = [state |-> "approved", requester |-> r.requester,
              what |-> r.what, approver |-> b]

Spend(r, s) == r.state = "approved" /\ s = [r EXCEPT !.state = "spent"]

Close(r, s) ==
    r.state \in {"pending", "approved"} /\ s = [r EXCEPT !.state = "closed"]

Moves(r, s) == s = r \/ Ask(r, s) \/ Agree(r, s) \/ Spend(r, s) \/ Close(r, s)

Execute(i) ==
    /\ requests[i].state = "spent"
    /\ executed[i] = << >>
    /\ executed' = [executed EXCEPT ![i] =
                      << [actor |-> requests[i].requester,
                          what |-> requests[i].what] >>]

(* One transaction may close any number of requests besides moving one. *)
Next ==
    /\ requests' = [i \in Ids |-> requests'[i]]
    /\ \A i \in Ids : Moves(requests[i], requests'[i])
    /\ UNCHANGED executed \/ \E i \in Ids : Execute(i)

Spec == Init /\ [][Next]_<<requests, executed>>

=============================================================================
