----------------------------- MODULE SealedLog -----------------------------
(***************************************************************************)
(* What the audit ledger promises its callers: an append-only log whose    *)
(* head is sealed by a separate anchor.  An event is acknowledged only     *)
(* once it is sealed, and nothing follows an unsealed event.               *)
(*                                                                         *)
(* AuditLedger implements this specification; FlightRecorder and           *)
(* AdminDispatch use its actions for the ledger they write to.             *)
(***************************************************************************)
EXTENDS Naturals, Sequences

CONSTANT Events

VARIABLES
    log,     \* the committed events, in sequence order
    sealed,  \* the sequence number in the anchor
    acked    \* the events whose append() returned success

Init == log = << >> /\ sealed = 0 /\ acked = {}

Intact == sealed = Len(log)

(* The insert is committed; it is not yet covered by the anchor. *)
Commit(e) ==
    /\ Intact
    /\ log' = Append(log, e)
    /\ UNCHANGED <<sealed, acked>>

(* The anchor is replaced by one that covers the whole log. *)
Seal ==
    /\ sealed' = Len(log)
    /\ UNCHANGED <<log, acked>>

(* The caller learns that its event is recorded. *)
Acknowledge(e) ==
    /\ \E k \in 1..sealed : log[k] = e
    /\ acked' = acked \cup {e}
    /\ UNCHANGED <<log, sealed>>

Next == Seal \/ \E e \in Events : Commit(e) \/ Acknowledge(e)

Spec == Init /\ [][Next]_<<log, sealed, acked>>

=============================================================================
