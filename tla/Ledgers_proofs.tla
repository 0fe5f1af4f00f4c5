--------------------------- MODULE Ledgers_proofs ---------------------------
(***************************************************************************)
(* Theorems about the stores that keep books, for every value of their     *)
(* constants: the audit ledger by itself, and the shop, the playtime and   *)
(* the engagement rewards in their composition.                            *)
(***************************************************************************)
EXTENDS Ledgers, FiniteSetTheorems, FunctionTheorems, TLAPS

(***************************************************************************)
(* The audit ledger.                                                       *)
(***************************************************************************)
EventSeq == Seq(Events)
EventOrNone == Events \cup {None}
CallRecords ==
    [pc : {"idle", "commit", "anchor", "remember", "verified"},
     event : EventOrNone, required : BOOLEAN, cached : BOOLEAN, scanned : BOOLEAN]
SnapRecords == [pc : {"idle", "copying", "done"}, anchor : Nat, log : EventSeq]
CacheRecords == [held : BOOLEAN, current : BOOLEAN, at : Nat]

(* The types, with opaque names for the sets of sequences.                 *)
Typed ==
    /\ log \in EventSeq /\ anchor \in Nat
    /\ damage \in {"none", "quiet", "racing"}
    /\ lock \in Threads \cup {None}
    /\ cache \in CacheRecords
    /\ call \in [Threads -> CallRecords]
    /\ acked \subseteq Events
    /\ snap \in SnapRecords
    /\ clock \in Nat

CallsHaveEvents ==
    \A t \in Threads :
      call[t].pc \in {"commit", "anchor", "remember"} => call[t].event \in Events

(* Whoever is in append() or verify() holds Store.lock.                    *)
InTheLock == \A t \in Threads : call[t].pc # "idle" => lock = t

(* Why the anchor lags by one at most: between commit and anchor the head  *)
(* is the event of the call, and after it the call's event is sealed.      *)
HeadIsTheCalls ==
    \A t \in Threads :
      /\ call[t].pc = "anchor" => Len(log) > 0 /\ log[Len(log)] = call[t].event
      /\ call[t].pc = "remember" => anchor = Len(log) /\ \E k \in 1..anchor : log[k] = call[t].event

AckedSealed == \A e \in acked : \E k \in 1..anchor : log[k] = e
IdsDiffer == \A j, k \in DOMAIN log : log[j].id = log[k].id => j = k

CopyIsPrefix ==
    snap.pc = "done" =>
      /\ snap.anchor = Len(snap.log) /\ Len(snap.log) <= Len(log)
      /\ \A k \in 1..Len(snap.log) : snap.log[k] = log[k]

IInv ==
    /\ Typed /\ CallsHaveEvents /\ InTheLock /\ AnchorLagsByAtMostOne
    /\ HeadIsTheCalls /\ AckedSealed /\ IdsDiffer /\ CopyIsPrefix

-----------------------------------------------------------------------------
(* A thread outside the store. *)
LEMMA IdleType == Idle \in CallRecords /\ Idle.pc = "idle"
  BY DEF Idle, CallRecords, EventOrNone

LEMMA InitIInv == Init => IInv
<1> SUFFICES ASSUME Init PROVE IInv
  OBVIOUS
<1>1. << >> \in EventSeq /\ Len(<< >>) = 0
  BY DEF EventSeq
<1>2. Typed
  BY <1>1, IdleType DEF Init, Typed, NoCache, CacheRecords, NoSnap, SnapRecords
<1>3. CallsHaveEvents /\ InTheLock /\ HeadIsTheCalls
  BY IdleType DEF Init, CallsHaveEvents, InTheLock, HeadIsTheCalls
<1>4. AnchorLagsByAtMostOne /\ AckedSealed /\ IdsDiffer /\ CopyIsPrefix
  BY <1>1 DEF Init, AnchorLagsByAtMostOne, AckedSealed, IdsDiffer, CopyIsPrefix, NoSnap
<1> QED BY <1>2, <1>3, <1>4 DEF IInv

(* What one more event at the end leaves as it was. *)
LEMMA AppendKeeps ==
    ASSUME NEW s \in EventSeq, NEW e \in Events
    PROVE  /\ Append(s, e) \in EventSeq /\ Len(Append(s, e)) = Len(s) + 1
           /\ Append(s, e)[Len(s) + 1] = e
           /\ \A k \in 1..Len(s) : Append(s, e)[k] = s[k]
           /\ DOMAIN Append(s, e) = 1..(Len(s) + 1) /\ DOMAIN s = 1..Len(s)
           /\ Len(s) \in Nat
  BY DEF EventSeq

(* A step that leaves the log alone, and with it the copies.               *)
LEMMA CallStep ==
    ASSUME IInv, NEW t \in Threads, NEW c \in CallRecords,
           call' = [call EXCEPT ![t] = c], c.pc # "idle" => lock' = t,
           lock = None \/ lock = t, lock' \in {t, None},
           c.pc \in {"commit", "remember"} => c.event \in Events,
           c.pc # "anchor", log' = log, anchor' \in {anchor, Len(log)}, cache' \in CacheRecords,
           c.pc = "remember" => anchor' = Len(log) /\ \E k \in 1..anchor' : log[k] = c.event,
           acked' \subseteq Events, \A e \in acked' : \E k \in 1..anchor' : log[k] = e,
           UNCHANGED <<damage, snap, clock>>
    PROVE  IInv'
<1>1. Len(log) \in Nat
  BY DEF IInv, Typed, EventSeq
<1>2. Typed'
  BY <1>1 DEF IInv, Typed
<1>3. \A u \in Threads \ {t} : call[u].pc = "idle" /\ call'[u] = call[u]
  BY ConstantsAssumption DEF IInv, InTheLock, Typed
<1>4. call'[t] = c
  BY DEF IInv, Typed
<1>5. CallsHaveEvents' /\ InTheLock'
  BY <1>3, <1>4 DEF CallsHaveEvents, InTheLock
<1>6. HeadIsTheCalls'
  BY <1>3, <1>4 DEF HeadIsTheCalls
<1>7. AnchorLagsByAtMostOne' /\ IdsDiffer' /\ CopyIsPrefix' /\ AckedSealed'
  BY DEF IInv, AnchorLagsByAtMostOne, IdsDiffer, CopyIsPrefix, AckedSealed
<1> QED BY <1>2, <1>5, <1>6, <1>7 DEF IInv

(* Leaving the store, with what is sealed acknowledged or not.             *)
LEMMA LeaveStep ==
    ASSUME IInv, NEW t \in Threads, call[t].pc # "idle", Leave(t),
           UNCHANGED <<log, anchor, damage, snap, clock>>, cache' \in CacheRecords,
           \/ acked' = acked
           \/ acked' = acked \cup {call[t].event} /\ call[t].event \in Events
              /\ \E k \in 1..anchor : log[k] = call[t].event
    PROVE  IInv'
<1>1. lock = t /\ lock' = None /\ call' = [call EXCEPT ![t] = Idle]
  BY DEF IInv, InTheLock, Leave
<1>2. acked' \subseteq Events /\ \A e \in acked' : \E k \in 1..anchor' : log[k] = e
  BY DEF IInv, Typed, AckedSealed
<1> QED BY <1>1, <1>2, IdleType, CallStep

LEMMA CommitStep ==
    ASSUME IInv, NEW t \in Threads, AppendCommit(t)
    PROVE  IInv'
<1> DEFINE e == call[t].event
<1>1. call[t].pc = "commit" /\ e \in Events /\ log' = Append(log, e) /\ ~ IdInLog(e)
        /\ anchor = Len(log) /\ UNCHANGED <<anchor, damage, lock, acked, snap, clock>>
        /\ cache' = Outdated
  BY DEF AppendCommit, Admits, HeadMatches, IInv, CallsHaveEvents
<1>2. call' = [call EXCEPT ![t] = [@ EXCEPT !.pc = "anchor",
                                            !.scanned = call[t].required /\ ~ call[t].cached]]
  BY DEF AppendCommit
<1>3. call[t] \in CallRecords /\ lock = t
  BY <1>1 DEF IInv, Typed, InTheLock
<1> DEFINE c == [call[t] EXCEPT !.pc = "anchor", !.scanned = call[t].required /\ ~ call[t].cached]
<1>4. c \in CallRecords /\ c.pc = "anchor" /\ c.event = e
  BY <1>3 DEF CallRecords
<1> HIDE DEF c
<1>5. call' = [call EXCEPT ![t] = c]
  BY <1>2 DEF c
<1>6. \A u \in Threads \ {t} : call[u].pc = "idle" /\ call'[u] = call[u]
  BY <1>3, <1>5, ConstantsAssumption DEF IInv, InTheLock, Typed
<1>7. call'[t] = c
  BY <1>5 DEF IInv, Typed
<1> HIDE DEF e
<1>8. /\ log' \in EventSeq /\ Len(log') = Len(log) + 1 /\ log'[Len(log) + 1] = e
      /\ \A k \in 1..Len(log) : log'[k] = log[k]
      /\ DOMAIN log' = 1..(Len(log) + 1) /\ DOMAIN log = 1..Len(log) /\ Len(log) \in Nat
  BY <1>1, AppendKeeps DEF IInv, Typed
<1>9. Typed'
  BY <1>1, <1>4, <1>5, <1>8 DEF IInv, Typed, Outdated, CacheRecords
<1>10. CallsHaveEvents' /\ InTheLock'
  BY <1>1, <1>3, <1>4, <1>6, <1>7 DEF CallsHaveEvents, InTheLock, e
<1>11. HeadIsTheCalls'
  BY <1>4, <1>6, <1>7, <1>8 DEF HeadIsTheCalls
<1>12. AnchorLagsByAtMostOne'
  BY <1>1, <1>8 DEF AnchorLagsByAtMostOne
<1>13. AckedSealed'
  BY <1>1, <1>8 DEF IInv, AckedSealed
<1>14. IdsDiffer'
  BY <1>1, <1>8 DEF IInv, IdsDiffer, IdInLog
<1>15. CopyIsPrefix'
  BY <1>1, <1>8 DEF IInv, Typed, SnapRecords, EventSeq, CopyIsPrefix
<1> QED BY <1>9, <1>10, <1>11, <1>12, <1>13, <1>14, <1>15 DEF IInv

LEMMA NextIInv == IInv /\ [Next]_vars => IInv'
<1> SUFFICES ASSUME IInv, [Next]_vars PROVE IInv'
  OBVIOUS
<1>0. /\ cache \in CacheRecords /\ NoCache \in CacheRecords /\ Outdated \in CacheRecords
      /\ Remembered \in CacheRecords /\ log \in EventSeq /\ Len(log) \in Nat
      /\ call \in [Threads -> CallRecords] /\ acked \subseteq Events
  <2>1. /\ log \in EventSeq /\ cache \in CacheRecords /\ clock \in Nat
        /\ call \in [Threads -> CallRecords] /\ acked \subseteq Events
    BY DEF IInv, Typed
  <2>2. Len(log) \in Nat
    BY <2>1 DEF EventSeq
  <2>3. NoCache \in CacheRecords /\ Outdated \in CacheRecords /\ Remembered \in CacheRecords
    BY <2>1 DEF NoCache, Outdated, Remembered, CacheRecords
  <2> QED BY <2>1, <2>2, <2>3
<1>1. ASSUME NEW t \in Threads, AppendBegin(t) PROVE IInv'
  <2>1. PICK e \in Events, required \in BOOLEAN :
          call' = [call EXCEPT ![t] = [pc |-> "commit", event |-> e, required |-> required,
                                       cached |-> CacheHit, scanned |-> FALSE]]
    BY <1>1 DEF AppendBegin
  <2>2. CacheHit \in BOOLEAN
    BY <1>0 DEF CacheHit, CacheRecords
  <2> DEFINE c == [pc |-> "commit", event |-> e, required |-> required,
                   cached |-> CacheHit, scanned |-> FALSE]
  <2>3. c \in CallRecords /\ c.pc = "commit" /\ c.event \in Events
    BY <2>2 DEF CallRecords, EventOrNone
  <2>4. call' = [call EXCEPT ![t] = c]
    BY <2>1
  <2> HIDE DEF c
  <2>5. lock = None /\ lock' = t /\ UNCHANGED <<log, anchor, damage, acked, cache, snap, clock>>
    BY <1>1 DEF AppendBegin, store
  <2> QED BY <1>0, <2>3, <2>4, <2>5, CallStep DEF IInv, AckedSealed
<1>2. ASSUME NEW t \in Threads, AppendCommit(t) PROVE IInv'
  BY <1>2, CommitStep
<1>3. ASSUME NEW t \in Threads, AppendIdempotent(t) PROVE IInv'
  <2>1. call[t].pc = "commit" /\ call[t].event \in Events /\ anchor = Len(log)
        /\ \E k \in DOMAIN log : log[k] = call[t].event
    BY <1>3 DEF AppendIdempotent, Admits, HeadMatches, IInv, CallsHaveEvents
  <2>2. DOMAIN log = 1..Len(log)
    BY <1>0 DEF EventSeq
  <2> QED BY <1>0, <1>3, <2>1, <2>2, LeaveStep DEF AppendIdempotent
<1>4. ASSUME NEW t \in Threads, AppendRefused(t) \/ AppendFailsLate(t) PROVE IInv'
  BY <1>0, <1>4, LeaveStep DEF AppendRefused, AppendFailsLate, store
<1>5. ASSUME NEW t \in Threads, WriteAnchor(t) PROVE IInv'
  <2> DEFINE c == [call[t] EXCEPT !.pc = "remember"]
  <2>1. call[t] \in CallRecords /\ call[t].pc = "anchor" /\ lock = t /\ call[t].event \in Events
        /\ call' = [call EXCEPT ![t] = c]
    BY <1>0, <1>5 DEF WriteAnchor, IInv, InTheLock, CallsHaveEvents
  <2>2. c \in CallRecords /\ c.pc = "remember" /\ c.event = call[t].event
    BY <2>1 DEF CallRecords
  <2> HIDE DEF c
  <2>3. anchor' = Len(log) /\ cache' = Outdated /\ UNCHANGED <<log, damage, lock, acked, snap, clock>>
    BY <1>5 DEF WriteAnchor
  <2>4. \E k \in 1..anchor' : log[k] = c.event
    BY <1>0, <2>1, <2>2, <2>3 DEF IInv, HeadIsTheCalls
  <2>5. \A e \in acked' : \E k \in 1..anchor' : log[k] = e
    BY <1>0, <2>3 DEF IInv, AckedSealed, AnchorLagsByAtMostOne, Typed
  <2> QED BY <1>0, <2>1, <2>2, <2>3, <2>4, <2>5, CallStep
<1>6. ASSUME NEW t \in Threads, AppendReturn(t) PROVE IInv'
  <2>1. call[t].pc = "remember" /\ call[t].event \in Events
        /\ \E k \in 1..anchor : log[k] = call[t].event
    BY <1>6 DEF AppendReturn, IInv, CallsHaveEvents, HeadIsTheCalls
  <2> QED BY <1>0, <1>6, <2>1, LeaveStep DEF AppendReturn
<1>7. ASSUME NEW t \in Threads, VerifyBegin(t) PROVE IInv'
  <2> DEFINE c == [call[t] EXCEPT !.pc = "verified"]
  <2>1. call[t] \in CallRecords /\ call' = [call EXCEPT ![t] = c]
    BY <1>0, <1>7 DEF VerifyBegin
  <2>2. c \in CallRecords /\ c.pc = "verified"
    BY <2>1 DEF CallRecords
  <2> HIDE DEF c
  <2>3. lock = None /\ lock' = t /\ UNCHANGED <<log, anchor, damage, acked, cache, snap, clock>>
    BY <1>7 DEF VerifyBegin, store
  <2> QED BY <1>0, <2>1, <2>2, <2>3, CallStep DEF IInv, AckedSealed
<1>8. ASSUME NEW t \in Threads, VerifyReturn(t) PROVE IInv'
  BY <1>0, <1>8, LeaveStep DEF VerifyReturn, store
<1>9. CASE SnapAnchor
  <2>1. Typed' /\ CopyIsPrefix'
    BY <1>9 DEF SnapAnchor, store, IInv, Typed, SnapRecords, EventSeq, CopyIsPrefix
  <2>2. UNCHANGED <<log, anchor, lock, call, acked>>
    BY <1>9 DEF SnapAnchor, store
  <2> QED BY <2>1, <2>2 DEF IInv, CallsHaveEvents, InTheLock, AnchorLagsByAtMostOne,
             HeadIsTheCalls, AckedSealed, IdsDiffer
<1>10. CASE SnapDatabase
  <2>1. \/ snap' = NoSnap
        \/ snap' = [pc |-> "done", anchor |-> snap.anchor, log |-> log] /\ snap.anchor = Len(log)
    BY <1>10 DEF SnapDatabase, SnapVerifies
  <2>2. UNCHANGED <<log, anchor, lock, call, acked, damage, cache, clock>>
    BY <1>10 DEF SnapDatabase, store
  <2>3. snap \in SnapRecords
    BY DEF IInv, Typed
  <2>4. Typed'
    <3>1. << >> \in EventSeq
      BY DEF EventSeq
    <3>2. snap' \in SnapRecords
      BY <1>0, <2>1, <2>3, <3>1 DEF SnapRecords, NoSnap
    <3> QED BY <2>2, <3>2 DEF IInv, Typed
  <2>5. CopyIsPrefix'
    BY <1>0, <2>1, <2>2 DEF CopyIsPrefix, NoSnap
  <2> QED BY <2>2, <2>4, <2>5 DEF IInv, CallsHaveEvents, InTheLock, AnchorLagsByAtMostOne,
             HeadIsTheCalls, AckedSealed, IdsDiffer
<1>11. CASE Restart
  <2>1. UNCHANGED <<log, anchor, acked, damage, snap, clock>> /\ lock' = None /\ cache' = NoCache
        /\ call' = [t \in Threads |-> Idle]
    BY <1>11 DEF Restart, store
  <2>2. Typed' /\ CallsHaveEvents' /\ InTheLock' /\ HeadIsTheCalls'
    BY <1>0, <2>1, IdleType DEF IInv, Typed, CallsHaveEvents, InTheLock, HeadIsTheCalls
  <2> QED BY <2>1, <2>2 DEF IInv, AnchorLagsByAtMostOne, AckedSealed, IdsDiffer, CopyIsPrefix
<1>12. CASE Damage
  BY <1>0, <1>12 DEF Damage, IInv, Typed, CallsHaveEvents, InTheLock, HeadIsTheCalls,
     AnchorLagsByAtMostOne, AckedSealed, IdsDiffer, CopyIsPrefix
<1>13. CASE Tick
  BY <1>0, <1>13 DEF Tick, store, IInv, Typed, CallsHaveEvents, InTheLock, HeadIsTheCalls,
     AnchorLagsByAtMostOne, AckedSealed, IdsDiffer, CopyIsPrefix
<1>14. CASE UNCHANGED vars
  BY <1>14 DEF vars, IInv, Typed, CallsHaveEvents, InTheLock, HeadIsTheCalls,
     AnchorLagsByAtMostOne, AckedSealed, IdsDiffer, CopyIsPrefix
<1> QED
  BY <1>1, <1>2, <1>3, <1>4, <1>5, <1>6, <1>7, <1>8, <1>9, <1>10, <1>11, <1>12, <1>13, <1>14 DEF Next

LEMMA Invariant == Spec => []IInv
  BY InitIInv, NextIInv, PTL DEF Spec

-----------------------------------------------------------------------------
(* The store, its cache, the calls and the copy keep their shape.          *)
THEOREM TypeCorrect == Spec => []TypeOK
<1>1. IInv => TypeOK
  BY DEF IInv, Typed, CallsHaveEvents, TypeOK, CallType, CallRecords, EventOrNone, EventSeq,
     SnapRecords, CacheRecords
<1> QED BY <1>1, Invariant, PTL

(* A crash or an I/O error leaves the anchor one event behind at most, and *)
(* it is never ahead (append).                                             *)
THEOREM AnchorLags == Spec => []AnchorLagsByAtMostOne
<1>1. IInv => AnchorLagsByAtMostOne
  BY DEF IInv
<1> QED BY <1>1, Invariant, PTL

(* What append() reported as recorded is in the sealed part of the ledger, *)
(* and no event id is there twice.                                         *)
THEOREM AcknowledgedIsSealed == Spec => []AckedIsSealed
<1>1. IInv => AckedIsSealed
  BY DEF IInv, AckedIsSealed, AckedSealed, IdsDiffer
<1> QED BY <1>1, Invariant, PTL

(* The first n of a sequence. *)
LEMMA PrefixIsSubSeq ==
    ASSUME NEW s \in EventSeq, NEW r \in EventSeq, Len(r) <= Len(s),
           \A k \in 1..Len(r) : r[k] = s[k]
    PROVE  r = SubSeq(s, 1, Len(r))
<1>1. Len(SubSeq(s, 1, Len(r))) = Len(r) /\ SubSeq(s, 1, Len(r)) \in EventSeq
      /\ \A k \in 1..Len(r) : SubSeq(s, 1, Len(r))[k] = s[k]
  BY DEF EventSeq
<1> QED BY <1>1 DEF EventSeq

(* The copy that the snapshot process keeps is a prefix of the ledger,     *)
(* sealed to its end (snapshot-audit-ledger.py).                           *)
THEOREM CopyIsConsistent == Spec => []SnapshotIsConsistent
<1>1. ASSUME IInv PROVE SnapshotIsConsistent
  <2>1. log \in EventSeq /\ snap.log \in EventSeq
    BY <1>1 DEF IInv, Typed, SnapRecords
  <2> QED BY <1>1, <2>1, PrefixIsSubSeq DEF IInv, CopyIsPrefix, SnapshotIsConsistent
<1> QED BY <1>1, Invariant, PTL

(* What readers of the ledger, of its anchor and of a copy rely on, all at  *)
(* once and in every state (append, verify, snapshot-audit-ledger.py).     *)
THEOREM LedgerSound == Spec => []LedgerIsSound
<1>1. TypeOK /\ AnchorLagsByAtMostOne /\ AckedIsSealed /\ SnapshotIsConsistent
        => LedgerIsSound
  BY DEF LedgerIsSound
<1> QED
  BY <1>1, TypeCorrect, AnchorLags, AcknowledgedIsSealed, CopyIsConsistent, PTL

-----------------------------------------------------------------------------
(* The detailed ledger implements the abstract one: an event is            *)
(* acknowledged only when it is sealed, and nothing follows an unsealed    *)
(* event, whatever fails and restarts.                                     *)
THEOREM RefinesSealedLog == Spec => ImplementsSealedLog
<1>1. Init => SL!Init
  BY DEF Init, SL!Init
<1>2. ASSUME IInv, [Next]_vars PROVE [SL!Next]_<<log, anchor, acked>>
  <2>1. ASSUME NEW t \in Threads, AppendCommit(t) PROVE SL!Next
    <3>1. call[t].event \in Events /\ SL!Commit(call[t].event)
      BY <1>2, <2>1 DEF AppendCommit, Admits, HeadMatches, IInv, CallsHaveEvents, SL!Commit, SL!Intact
    <3> QED BY <3>1 DEF SL!Next
  <2>2. ASSUME NEW t \in Threads, WriteAnchor(t) PROVE SL!Next
    BY <2>2 DEF WriteAnchor, SL!Next, SL!Seal
  <2>3. ASSUME NEW t \in Threads, AppendIdempotent(t) \/ AppendReturn(t) PROVE SL!Next
    <3>1. call[t].event \in Events /\ \E k \in 1..anchor : log[k] = call[t].event
      <4>1. CASE AppendIdempotent(t)
        <5>1. DOMAIN log = 1..Len(log)
          BY <1>2 DEF IInv, Typed, EventSeq
        <5> QED BY <1>2, <4>1, <5>1 DEF AppendIdempotent, Admits, HeadMatches, IInv, CallsHaveEvents
      <4>2. CASE AppendReturn(t)
        BY <1>2, <4>2 DEF AppendReturn, IInv, CallsHaveEvents, HeadIsTheCalls
      <4> QED BY <2>3, <4>1, <4>2
    <3>2. SL!Acknowledge(call[t].event)
      BY <2>3, <3>1 DEF AppendIdempotent, AppendReturn, SL!Acknowledge
    <3> QED BY <3>1, <3>2 DEF SL!Next
  <2>4. ASSUME NEW t \in Threads, \/ AppendBegin(t) \/ AppendRefused(t) \/ AppendFailsLate(t)
                                  \/ VerifyBegin(t) \/ VerifyReturn(t)
        PROVE  UNCHANGED <<log, anchor, acked>>
    BY <2>4 DEF AppendBegin, AppendRefused, AppendFailsLate, VerifyBegin, VerifyReturn, store
  <2>5. CASE SnapAnchor \/ SnapDatabase \/ Restart \/ Damage \/ Tick \/ UNCHANGED vars
    BY <2>5 DEF SnapAnchor, SnapDatabase, Restart, Damage, Tick, vars, store
  <2> QED BY <1>2, <2>1, <2>2, <2>3, <2>4, <2>5 DEF Next
<1> QED BY <1>1, <1>2, Invariant, PTL DEF Spec, ImplementsSealedLog, SL!Spec

(* Once an append stopped between its commit and its anchor, nothing is    *)
(* taken or acknowledged any more (_assert_head).                          *)
THEOREM UnsealedHeadCloses == Spec => UnsealedHeadClosesLedger
<1>1. ASSUME IInv, [Next]_vars, ~ HeadMatches, \A t \in Threads : call[t].pc # "anchor"
      PROVE  UNCHANGED <<log, anchor, acked>>
  <2>1. ASSUME NEW t \in Threads, AppendCommit(t) \/ AppendIdempotent(t) \/ WriteAnchor(t) \/ AppendReturn(t)
        PROVE  FALSE
    BY <1>1, <2>1 DEF AppendCommit, AppendIdempotent, WriteAnchor, AppendReturn, Admits, HeadMatches,
       IInv, HeadIsTheCalls
  <2>2. ASSUME NEW t \in Threads, \/ AppendBegin(t) \/ AppendRefused(t) \/ AppendFailsLate(t)
                                  \/ VerifyBegin(t) \/ VerifyReturn(t)
        PROVE  UNCHANGED <<log, anchor, acked>>
    BY <2>2 DEF AppendBegin, AppendRefused, AppendFailsLate, VerifyBegin, VerifyReturn, store
  <2>3. CASE SnapAnchor \/ SnapDatabase \/ Restart \/ Damage \/ Tick \/ UNCHANGED vars
    BY <2>3 DEF SnapAnchor, SnapDatabase, Restart, Damage, Tick, vars, store
  <2> QED BY <1>1, <2>1, <2>2, <2>3 DEF Next
<1> QED BY <1>1, Invariant, PTL DEF Spec, UnsealedHeadClosesLedger

-----------------------------------------------------------------------------
(* Damage done while nobody is in the store leaves no verification behind  *)
(* that a later call could use.                                            *)
NothingVerified ==
    damage = "quiet" =>
      /\ ~ cache.current
      /\ \A t \in Threads : call[t].pc # "idle" =>
                            call[t].pc # "verified" /\ ~ call[t].cached /\ ~ call[t].scanned

LEMMA NothingVerifiedStep == IInv /\ NothingVerified /\ [Next]_vars => NothingVerified'
<1> SUFFICES ASSUME IInv, NothingVerified, [Next]_vars, damage' = "quiet" PROVE NothingVerified'
  BY DEF NothingVerified
<1> USE DEF NothingVerified
<1>0. /\ call \in [Threads -> CallRecords] /\ cache \in CacheRecords /\ ~ NoCache.current
      /\ ~ Outdated.current /\ Idle.pc = "idle"
  BY DEF IInv, Typed, NoCache, Outdated, CacheRecords, Idle
<1>1. CASE Damage
  <2>1. lock = None /\ cache' = Outdated /\ call' = call
    BY <1>1 DEF Damage
  <2>2. \A t \in Threads : call[t].pc = "idle"
    BY <2>1, ConstantsAssumption DEF IInv, InTheLock
  <2> QED BY <1>0, <2>1, <2>2
<1>2. CASE damage = "quiet"
  <2>1. ASSUME NEW t \in Threads, AppendBegin(t) PROVE NothingVerified'
    <3>1. ~ CacheHit /\ cache' = cache
      BY <1>2, <2>1 DEF AppendBegin, CacheHit
    <3>2. PICK e \in Events, required \in BOOLEAN :
            call' = [call EXCEPT ![t] = [pc |-> "commit", event |-> e, required |-> required,
                                         cached |-> CacheHit, scanned |-> FALSE]]
      BY <2>1 DEF AppendBegin
    <3> QED BY <1>0, <1>2, <3>1, <3>2
  <2>2. ASSUME NEW t \in Threads, AppendCommit(t) PROVE NothingVerified'
    <3>1. ~ (call[t].required /\ ~ call[t].cached)
      BY <1>2, <2>2 DEF AppendCommit, Admits, ScanSucceeds
    <3>2. call[t] \in CallRecords /\ call[t].pc = "commit" /\ cache' = Outdated
          /\ call' = [call EXCEPT ![t] = [@ EXCEPT !.pc = "anchor",
                                                   !.scanned = call[t].required /\ ~ call[t].cached]]
      BY <1>0, <2>2 DEF AppendCommit
    <3> QED BY <1>0, <1>2, <3>1, <3>2 DEF CallRecords
  <2>3. ASSUME NEW t \in Threads, Leave(t), cache' \in {cache, NoCache} PROVE NothingVerified'
    BY <1>0, <1>2, <2>3 DEF Leave
  <2>4. ASSUME NEW t \in Threads, \/ AppendIdempotent(t) \/ AppendRefused(t)
                                  \/ AppendFailsLate(t) \/ AppendReturn(t)
        PROVE  NothingVerified'
    BY <1>2, <2>3, <2>4 DEF AppendIdempotent, AppendRefused, AppendFailsLate, AppendReturn
  <2>5. ASSUME NEW t \in Threads, WriteAnchor(t) PROVE NothingVerified'
    <3>1. call[t] \in CallRecords /\ call[t].pc = "anchor" /\ cache' = Outdated
          /\ call' = [call EXCEPT ![t] = [@ EXCEPT !.pc = "remember"]]
      BY <1>0, <2>5 DEF WriteAnchor
    <3> QED BY <1>0, <1>2, <3>1 DEF CallRecords
  <2>6. ASSUME NEW t \in Threads, VerifyBegin(t) \/ VerifyReturn(t) PROVE FALSE
    BY <1>2, <2>6 DEF VerifyBegin, VerifyReturn, ScanSucceeds
  <2>7. CASE SnapAnchor \/ SnapDatabase \/ Tick \/ UNCHANGED vars
    BY <1>2, <2>7 DEF SnapAnchor, SnapDatabase, Tick, vars
  <2>8. CASE Restart
    BY <1>0, <1>2, <2>8 DEF Restart
  <2> QED BY <1>1, <2>1, <2>2, <2>4, <2>5, <2>6, <2>7, <2>8 DEF Next
<1>3. CASE ~ Damage /\ damage # "quiet"
  BY <1>3 DEF Next, vars, AppendBegin, AppendCommit, AppendIdempotent, AppendRefused, WriteAnchor,
     AppendFailsLate, AppendReturn, VerifyBegin, VerifyReturn, SnapAnchor, SnapDatabase, Restart, Tick, store
<1> QED BY <1>1, <1>2, <1>3

(* No verify_chain append commits on top of damage that was done while     *)
(* nobody was in the store, whatever was cached (_cached_verification).    *)
THEOREM QuietDamageCaught == Spec => QuietDamageIsCaught
<1>1. Init => NothingVerified
  BY DEF Init, NothingVerified
<1>2. ASSUME IInv, NothingVerified, [Next]_vars, damage = "quiet", NEW t \in Threads,
             call[t].required, call[t].pc = "commit"
      PROVE  call'[t].pc # "anchor"
  <2>0. call \in [Threads -> CallRecords] /\ Idle.pc # "anchor"
    BY <1>2 DEF IInv, Typed, Idle
  <2>1. ~ AppendCommit(t) /\ ~ WriteAnchor(t)
    BY <1>2 DEF NothingVerified, AppendCommit, Admits, ScanSucceeds, WriteAnchor
  <2>2. ASSUME NEW u \in Threads, AppendCommit(u) \/ WriteAnchor(u) PROVE call'[t] = call[t]
    BY <2>0, <2>1, <2>2 DEF AppendCommit, WriteAnchor
  <2>3. ASSUME NEW u \in Threads, AppendBegin(u) \/ VerifyBegin(u) PROVE call'[t] = call[t]
    BY <1>2, <2>0, <2>3 DEF AppendBegin, VerifyBegin
  <2>4. ASSUME NEW u \in Threads, \/ AppendIdempotent(u) \/ AppendRefused(u) \/ AppendFailsLate(u)
                                  \/ AppendReturn(u) \/ VerifyReturn(u)
        PROVE  call'[t] = call[t] \/ call'[t] = Idle
    BY <2>0, <2>4 DEF AppendIdempotent, AppendRefused, AppendFailsLate, AppendReturn, VerifyReturn, Leave
  <2>5. ASSUME SnapAnchor \/ SnapDatabase \/ Restart \/ Damage \/ Tick \/ UNCHANGED vars
        PROVE  call'[t] = call[t] \/ call'[t] = Idle
    BY <2>5 DEF SnapAnchor, SnapDatabase, Restart, Damage, Tick, vars
  <2>6. call'[t] = call[t] \/ call'[t] = Idle
    BY <1>2, <2>2, <2>3, <2>4, <2>5 DEF Next
  <2>7. call[t].pc # "anchor"
    BY <1>2
  <2> QED BY <2>0, <2>6, <2>7
<1>3. ASSUME IInv, NothingVerified, [Next]_vars
      PROVE  [damage = "quiet" =>
                \A t \in Threads : call[t].required /\ call[t].pc = "commit" =>
                  call'[t].pc # "anchor"]_vars
  BY <1>2, <1>3
<1> QED BY <1>1, <1>3, NothingVerifiedStep, Invariant, PTL DEF Spec, QuietDamageIsCaught

-----------------------------------------------------------------------------
(***************************************************************************)
(* Sums.                                                                   *)
(***************************************************************************)
(* A term is as many units as it says. *)
LEMMA OneTerm ==
    ASSUME NEW x, NEW n \in Nat
    PROVE  /\ IsFiniteSet({x} \X (1..n))
           /\ Cardinality({x} \X (1..n)) = n
<1> DEFINE g == [k \in 1..n |-> <<x, k>>]
<1>1. IsFiniteSet(1..n) /\ Cardinality(1..n) = n
  BY FS_Interval
<1>2. g \in Bijection(1..n, {x} \X (1..n))
  BY DEF Bijection, Injection, Surjection, IsInjective
<1>3. ExistsBijection(1..n, {x} \X (1..n))
  BY <1>2 DEF ExistsBijection
<1> HIDE DEF g
<1> QED  BY <1>1, <1>3, FS_Bijection

LEMMA UnitsType ==
    ASSUME NEW f, NEW S, IsFiniteSet(S), \A x \in S : f[x] \in Nat
    PROVE  IsFiniteSet(Units(f, S)) /\ Total(f, S) \in Nat
<1> DEFINE P == {T \in SUBSET S : IsFiniteSet(Units(f, T))}
<1>1. {} \in P
  BY FS_EmptySet DEF Units
<1>2. ASSUME NEW T \in P, NEW x \in S \ T PROVE T \cup {x} \in P
  <2>1. Units(f, T \cup {x}) = Units(f, T) \cup ({x} \X (1..f[x]))
    BY DEF Units
  <2>2. IsFiniteSet({x} \X (1..f[x])) /\ IsFiniteSet(Units(f, T))
    BY <1>2, OneTerm
  <2>3. IsFiniteSet(Units(f, T) \cup ({x} \X (1..f[x])))
    BY <2>2, FS_Union
  <2> QED  BY <1>2, <2>1, <2>3
<1> HIDE DEF P
<1>3. S \in P
  <2> DEFINE W == StrictSubsetOrdering(S)
             B == (SUBSET S) \ P
  <2>1. IsWellFoundedOn(W, SUBSET S)
    BY FS_StrictSubsetOrderingWellFounded, FS_FiniteSubsetsOfFinite
  <2>2. ASSUME B # {} PROVE FALSE
    <3>1. PICK T \in B : \A U \in B : <<U, T>> \notin W
      BY <2>1, <2>2, WFMin
    <3>2. T # {}
      BY <1>1, <3>1
    <3>3. PICK x \in T : TRUE
      BY <3>2
    <3>4. <<T \ {x}, T>> \in W
      BY <3>1 DEF StrictSubsetOrdering
    <3>5. T \ {x} \in P
      BY <3>1, <3>4
    <3>6. (T \ {x}) \cup {x} \in P
      BY <1>2, <3>1, <3>5
    <3> QED  BY <3>1, <3>6
  <2> QED  BY <2>2
<1> QED  BY <1>3, FS_CardinalityType DEF P, Total

LEMMA TotalOfNone == ASSUME NEW f PROVE Total(f, {}) = 0
BY FS_EmptySet DEF Total, Units

(* Only the terms count. *)
LEMMA TotalAgrees ==
    ASSUME NEW f, NEW g, NEW S, \A x \in S : f[x] = g[x]
    PROVE  Total(f, S) = Total(g, S)
<1>1. Units(f, S) = Units(g, S)
  BY DEF Units
<1> QED  BY <1>1 DEF Total

LEMMA TotalOfOneMore ==
    ASSUME NEW f, NEW S, IsFiniteSet(S), NEW a, a \notin S, \A x \in S \cup {a} : f[x] \in Nat
    PROVE  Total(f, S \cup {a}) = Total(f, S) + f[a]
<1>1. Units(f, S \cup {a}) = Units(f, S) \cup ({a} \X (1..f[a]))
  BY DEF Units
<1>2. Units(f, S) \cap ({a} \X (1..f[a])) = {}
  BY DEF Units
<1>3. IsFiniteSet(Units(f, S)) /\ Total(f, S) \in Nat
  BY UnitsType
<1>4. IsFiniteSet({a} \X (1..f[a])) /\ Cardinality({a} \X (1..f[a])) = f[a]
  BY OneTerm
<1>5. Cardinality(Units(f, S) \cup ({a} \X (1..f[a])))
        = Cardinality(Units(f, S)) + Cardinality({a} \X (1..f[a]))
             - Cardinality(Units(f, S) \cap ({a} \X (1..f[a])))
  BY <1>3, <1>4, FS_Union
<1>6. Cardinality(Units(f, S) \cap ({a} \X (1..f[a]))) = 0
  BY <1>2, FS_EmptySet
<1>7. f[a] \in Nat
  OBVIOUS
<1>8. Total(f, S \cup {a}) = Cardinality(Units(f, S) \cup ({a} \X (1..f[a])))
  BY <1>1 DEF Total
<1>9. Total(f, S) = Cardinality(Units(f, S))
  BY DEF Total
<1> QED  BY <1>3, <1>4, <1>5, <1>6, <1>7, <1>8, <1>9

(* One term changes. *)
LEMMA TotalOfOneChanged ==
    ASSUME NEW f, NEW g, NEW S, IsFiniteSet(S), NEW a \in S,
           \A x \in S : f[x] \in Nat /\ g[x] \in Nat, \A x \in S \ {a} : f[x] = g[x]
    PROVE  /\ Total(f, S) \in Nat /\ Total(g, S) \in Nat
           /\ Total(g, S) + f[a] = Total(f, S) + g[a]
<1> DEFINE R == S \ {a}
<1>1. IsFiniteSet(R) /\ a \notin R /\ S = R \cup {a}
  BY FS_Subset
<1> HIDE DEF R
<1>2. Total(f, R) = Total(g, R)
  BY TotalAgrees DEF R
<1>3. Total(f, S) = Total(f, R) + f[a]
  BY <1>1, TotalOfOneMore
<1>4. Total(g, S) = Total(g, R) + g[a]
  BY <1>1, TotalOfOneMore
<1>5. Total(f, R) \in Nat /\ Total(f, S) \in Nat /\ Total(g, S) \in Nat
  BY <1>1, UnitsType
<1> QED  BY <1>2, <1>3, <1>4, <1>5

(* Terms that are all 0 add up to 0. *)
LEMMA TotalOfZeros ==
    ASSUME NEW f, NEW S, \A x \in S : f[x] = 0
    PROVE  Total(f, S) = 0
<1>1. Units(f, S) = {}
  BY DEF Units
<1> QED  BY <1>1, FS_EmptySet DEF Total

(* One term grows. *)
LEMMA SumGrows ==
    ASSUME NEW S, IsFiniteSet(S), NEW f, NEW g, NEW d \in S, NEW s \in Nat,
           \A x \in S : f[x] \in Nat /\ g[x] \in Nat,
           \A x \in S \ {d} : f[x] = g[x], g[d] = f[d] + s
    PROVE  Total(f, S) \in Nat /\ Total(g, S) = Total(f, S) + s
<1>1. /\ Total(f, S) \in Nat /\ Total(g, S) \in Nat
      /\ Total(g, S) + f[d] = Total(f, S) + g[d]
  BY TotalOfOneChanged
<1>a. PICK a : a = f[d]
  OBVIOUS
<1>b. PICK b : b = Total(f, S)
  OBVIOUS
<1>c. PICK c : c = Total(g, S)
  OBVIOUS
<1>2. a \in Nat
  BY <1>a
<1>3. b \in Nat /\ c \in Nat /\ c + a = b + (a + s)
  BY <1>1, <1>a, <1>b, <1>c
<1>4. \A x, y, z, n \in Nat : z + x = y + (x + n) => z = y + n
  OBVIOUS
<1>5. c = b + s
  BY <1>2, <1>3, <1>4
<1> QED  BY <1>3, <1>5, <1>b, <1>c

-----------------------------------------------------------------------------
(***************************************************************************)
(* The playtime tracks.  The invariant says what the row of an account     *)
(* stands for: it is one of the observations made, the seconds counted fit *)
(* between the first one and it but for those it was set back, and are the *)
(* intervals that were credited plus a rest.                               *)
(***************************************************************************)
Longest == Play!Longest

PlayConstants ==
    /\ Interval \in Nat \ {0} /\ MaxGap \in Nat \ {0} /\ MaxTime \in Nat \ {0}
    /\ Order \in Seq(Players) /\ LevelXp \in Seq(Nat) /\ None \notin Nat
    /\ MaxFaults \in Nat

LEMMA PlayConstantsHold == PlayConstants
BY BooksAssumption DEF Play!PlaytimeAssumption, PlayConstants

(* The greatest and the least of a set, when there is one. *)
LEMMA PlayMax ==
    ASSUME NEW S \in SUBSET Nat, NEW m \in S, \A s \in S : s <= m
    PROVE  Play!Max(S) = m
<1>1. \A x \in S : (\A y \in S : x >= y) => x = m
  OBVIOUS
<1>2. \A y \in S : m >= y
  OBVIOUS
<1> QED  BY <1>1, <1>2 DEF Play!Max

LEMMA PlayMin ==
    ASSUME NEW S \in SUBSET Nat, NEW m \in S, \A s \in S : m <= s
    PROVE  Play!Min(S) = m
<1>1. \A x \in S : (\A y \in S : x <= y) => x = m
  OBVIOUS
<1> QED  BY <1>1 DEF Play!Min

LEMMA LongestIs == Longest \in Nat /\ Longest >= MaxGap /\ Longest >= Interval
<1>1. CASE MaxGap >= Interval
  BY <1>1, PlayMax, PlayConstantsHold DEF Longest, Play!Longest, PlayConstants
<1>2. CASE ~(MaxGap >= Interval)
  <2>1. /\ {MaxGap, Interval} \in SUBSET Nat /\ Interval \in {MaxGap, Interval}
        /\ \A s \in {MaxGap, Interval} : s <= Interval
    BY <1>2, PlayConstantsHold DEF PlayConstants
  <2>2. Longest = Interval
    BY <2>1, PlayMax DEF Longest, Play!Longest
  <2> QED  BY <1>2, <2>2, PlayConstantsHold DEF PlayConstants
<1> QED  BY <1>1, <1>2

LEMMA ElapsedIs ==
    ASSUME NEW c, NEW now \in Nat, c.at \in Nat
    PROVE  /\ Play!Elapsed(c, now) \in Nat
           /\ Play!Elapsed(c, now) <= Longest
           /\ c.at <= now => Play!Elapsed(c, now) <= now - c.at
<1>1. CASE ~c.online \/ now < c.at
  <2>1. Play!Elapsed(c, now) = 0
    BY <1>1 DEF Play!Elapsed
  <2> QED  BY <2>1, LongestIs
<1>2. CASE ~(~c.online \/ now < c.at)
  <2> DEFINE gap == now - c.at
  <2>1. gap \in Nat
    BY <1>2
  <2>2. Play!Elapsed(c, now) = Play!Min({gap, Longest})
    BY <1>2 DEF Play!Elapsed, Longest
  <2> HIDE DEF gap
  <2>3. Play!Min({gap, Longest}) \in Nat /\ Play!Min({gap, Longest}) <= gap
          /\ Play!Min({gap, Longest}) <= Longest
    <3>1. CASE gap <= Longest
      <4>1. Play!Min({gap, Longest}) = gap
        BY <3>1, <2>1, LongestIs, PlayMin
      <4> QED  BY <4>1, <2>1, <3>1
    <3>2. CASE ~(gap <= Longest)
      <4>1. Play!Min({gap, Longest}) = Longest
        BY <3>2, <2>1, LongestIs, PlayMin
      <4> QED  BY <4>1, <2>1, <3>2, LongestIs
    <3> QED  BY <3>1, <3>2
  <2> QED  BY <2>2, <2>3 DEF gap
<1> QED  BY <1>1, <1>2

LEMMA Products ==
    ASSUME NEW k \in Nat, NEW m \in Nat, NEW n \in Nat
    PROVE  k * n \in Nat /\ (k + m) * n = k * n + m * n
OBVIOUS

LEMMA Regroup ==
    ASSUME NEW k \in Nat, NEW m \in Nat, NEW r \in Nat, NEW s \in Nat, NEW x \in Nat,
           NEW n, n = k + r, m + x = r + s
    PROVE  n + s = (k + m) + x
OBVIOUS

LEMMA AccruedIs ==
    ASSUME NEW c, NEW seconds \in Nat, c.rest \in Nat
    PROVE  LET new == Play!Accrued(c, seconds)
           IN  /\ new.intervals \in Nat /\ new.rest \in 0..(Interval - 1)
               /\ new.intervals * Interval + new.rest = c.rest + seconds
<1> DEFINE x == c.rest + seconds
<1>1. x \in Nat /\ Interval \in Nat /\ Interval > 0
  BY PlayConstantsHold DEF PlayConstants
<1> HIDE DEF x
<1>2. x \div Interval \in Nat /\ x % Interval \in 0..(Interval - 1)
  BY <1>1
<1>3. x = Interval * (x \div Interval) + (x % Interval)
  BY <1>1
<1>4. x = (x \div Interval) * Interval + (x % Interval)
  BY <1>1, <1>2, <1>3
<1> QED  BY <1>2, <1>4 DEF Play!Accrued, x

Visits ==
    [pc : {"idle", "look", "credit", "track"}, now : 0..MaxTime, left : Seq(Players),
     online : BOOLEAN, earned : Nat]

PlayRows ==
    [at : {None} \cup 0..MaxTime, online : BOOLEAN, rest : 0..(Interval - 1), intervals : Nat]

PlayTyped ==
    /\ present \subseteq Players /\ playClock \in 0..MaxTime
    /\ playRow \in [Players -> PlayRows]
    /\ xp \in [Players -> Nat] /\ markers \subseteq 0..MaxTime
    /\ levels \subseteq Players \X DOMAIN LevelXp
    /\ granted \in [Players \X DOMAIN LevelXp -> Nat]
    /\ playTick \in [PlayTickers -> Visits]
    /\ counted \in [Players -> Nat]
    /\ playSeen \in [Players -> SUBSET (0..MaxTime)]
    /\ sighted \in [Players -> SUBSET (0..MaxTime)]
    /\ late \in [Players -> Nat] /\ back \in [Players -> Nat]

(* A tick's time has come, and it has an account when it needs one. *)
VisitsAreTimely ==
    \A t \in PlayTickers :
        /\ playTick[t].now <= playClock
        /\ playTick[t].pc \in {"credit", "track"} => playTick[t].left # << >>

(* The row of an account is an observation that was made. *)
RowIsSeen(a) ==
    /\ playRow[a].at = None => playSeen[a] = {} /\ counted[a] = 0
    /\ playRow[a].at # None => playRow[a].at \in playSeen[a]
    /\ sighted[a] \subseteq playSeen[a] /\ \A s \in playSeen[a] : s <= playClock

(* With one thread it is the last one, and nothing came late. *)
RowIsLatest(a) ==
    /\ \A s \in playSeen[a] : s <= playRow[a].at
    /\ \A t \in PlayTickers :
          playTick[t].pc # "idle" => \A s \in playSeen[a] : s <= playTick[t].now
    /\ late[a] = 0 /\ back[a] = 0

(* The seconds counted are those from the first observation to the row, or *)
(* were counted before the row was set back.                               *)
CountedIsPassed(a) ==
    playSeen[a] # {} =>
        \E first \in playSeen[a] :
            /\ \A s \in playSeen[a] : first <= s
            /\ counted[a] + first <= playRow[a].at + back[a]

(* Each time an account was found online at, and each late observation, is *)
(* good for one gap; the row's own is still to be counted.                 *)
Gaps(a) == Cardinality(sighted[a]) + late[a]

CountedIsBounded(a) ==
    /\ playRow[a].online => playRow[a].at \in sighted[a]
    /\ counted[a] + (IF playRow[a].at \in sighted[a] THEN Longest ELSE 0) <= Gaps(a) * Longest

CountedIsKept(a) == counted[a] = playRow[a].intervals * Interval + playRow[a].rest

PlayInv ==
    /\ PlayTyped /\ VisitsAreTimely
    /\ \A a \in Players :
          /\ RowIsSeen(a) /\ CountedIsKept(a) /\ CountedIsPassed(a) /\ CountedIsBounded(a)
          /\ Play!OneTicks => RowIsLatest(a)
    /\ Play!OneDeliveryPerLevel

LEMMA PlayInvInit == LedgersInit => PlayInv
<1> SUFFICES ASSUME LedgersInit PROVE PlayInv
  OBVIOUS
<1>1. Play!Init /\ PlayConstants
  BY PlayConstantsHold DEF LedgersInit
<1> USE DEF Play!Init, Play!Idle, Play!NoCheckpoint
<1>2. PlayTyped
  <2>1. playTick \in [PlayTickers -> Visits]
    BY <1>1 DEF Visits, PlayConstants
  <2>2. playRow \in [Players -> PlayRows]
    BY <1>1 DEF PlayRows, PlayConstants
  <2>3. granted \in [Players \X DOMAIN LevelXp -> Nat] /\ levels = {} /\ markers = {}
    BY <1>1
  <2>4. /\ xp \in [Players -> Nat] /\ counted \in [Players -> Nat]
        /\ playSeen \in [Players -> SUBSET (0..MaxTime)]
        /\ sighted \in [Players -> SUBSET (0..MaxTime)]
        /\ late \in [Players -> Nat] /\ back \in [Players -> Nat]
    BY <1>1
  <2>5. playClock \in 0..MaxTime /\ present \subseteq Players
    BY <1>1 DEF PlayConstants
  <2> QED  BY <2>1, <2>2, <2>3, <2>4, <2>5 DEF PlayTyped
<1>3. VisitsAreTimely
  BY <1>1 DEF VisitsAreTimely
<1>4. Play!OneDeliveryPerLevel
  BY <1>1 DEF Play!OneDeliveryPerLevel
<1>5. ASSUME NEW a \in Players
      PROVE  /\ RowIsSeen(a) /\ CountedIsKept(a)
             /\ RowIsLatest(a) /\ CountedIsPassed(a) /\ CountedIsBounded(a)
  <2>1. /\ Gaps(a) = 0 /\ playRow[a].at \notin sighted[a] /\ ~playRow[a].online
        /\ counted[a] = 0 /\ sighted[a] = {}
    BY <1>1, FS_EmptySet DEF Gaps
  <2>2. CountedIsBounded(a)
    BY <2>1, LongestIs DEF CountedIsBounded
  <2> QED
    BY <1>1, <2>2 DEF RowIsSeen, CountedIsKept, RowIsLatest, CountedIsPassed, PlayConstants
<1> QED  BY <1>2, <1>3, <1>4, <1>5 DEF PlayInv

(* A step that only moves the clock or a tick. *)
Bookless == UNCHANGED <<playRow, counted, playSeen, sighted, late, back, levels, granted>>

LEMMA PlayBooklessStep ==
    ASSUME PlayInv, Bookless, PlayTyped', VisitsAreTimely', playClock <= playClock',
           Play!OneTicks =>
              \A t \in PlayTickers : playTick'[t].pc # "idle" =>
                 \/ playTick'[t].now = playClock
                 \/ playTick[t].pc # "idle" /\ playTick'[t].now = playTick[t].now
    PROVE  PlayInv'
<1> USE DEF Bookless
<1>1. ASSUME NEW a \in Players
      PROVE  RowIsSeen(a)' /\ CountedIsKept(a)' /\ CountedIsPassed(a)' /\ CountedIsBounded(a)'
  <2>1. RowIsSeen(a)'
    <3>1. playClock \in Nat /\ playClock' \in Nat /\ playSeen[a] \subseteq Nat
      BY DEF PlayInv, PlayTyped
    <3> QED  BY <3>1 DEF PlayInv, RowIsSeen
  <2> QED  BY <2>1 DEF PlayInv, CountedIsKept, CountedIsPassed, CountedIsBounded, Gaps
<1>2. ASSUME Play!OneTicks, NEW a \in Players PROVE RowIsLatest(a)'
  BY <1>2 DEF PlayInv, RowIsLatest, RowIsSeen
<1>3. Play!OneDeliveryPerLevel'
  BY DEF PlayInv, Play!OneDeliveryPerLevel
<1> QED  BY <1>1, <1>2, <1>3 DEF PlayInv, Play!OneTicks

LEMMA PlayObserveStep ==
    ASSUME PlayInv, NEW t \in PlayTickers, Play!Observe(t)
    PROVE  PlayInv'
<1>a. PICK a : a = Head(playTick[t].left)
  OBVIOUS
<1>c. PICK c : c = playRow[a]
  OBVIOUS
<1>n. PICK now : now = playTick[t].now
  OBVIOUS
<1>s. PICK seconds : seconds = IF c.at = None THEN 0 ELSE Play!Elapsed(c, now)
  OBVIOUS
<1>w. PICK new : new = Play!Accrued(c, seconds)
  OBVIOUS
<1>1. /\ PlayConstants /\ PlayTyped /\ playTick[t] \in Visits
      /\ playTick[t].pc = "credit" /\ playTick[t].left # << >> /\ now <= playClock
  BY <1>n, PlayConstantsHold DEF PlayInv, PlayTyped, VisitsAreTimely, Play!Observe
<1>2. /\ a \in Players /\ Tail(playTick[t].left) \in Seq(Players)
      /\ now \in 0..MaxTime /\ now \in Nat /\ playClock \in Nat /\ now <= playClock
  BY <1>1, <1>a, <1>n DEF Visits, PlayTyped, PlayConstants
<1>3. /\ playRow' = [playRow EXCEPT ![a] =
                       [at |-> now, online |-> playTick[t].online, rest |-> new.rest,
                        intervals |-> c.intervals + new.intervals]]
      /\ playTick' = [playTick EXCEPT ![t] =
                       IF new.intervals > 0
                       THEN [playTick[t] EXCEPT !.pc = "track", !.earned = new.intervals]
                       ELSE [playTick[t] EXCEPT !.pc = "look", !.left = Tail(playTick[t].left)]]
      /\ counted' = [counted EXCEPT ![a] = @ + seconds]
      /\ playSeen' = [playSeen EXCEPT ![a] = @ \cup {now}]
      /\ sighted' = IF playTick[t].online THEN [sighted EXCEPT ![a] = @ \cup {now}]
                    ELSE sighted
      /\ late' = IF now # c.at /\ \E s \in playSeen[a] : now <= s
                 THEN [late EXCEPT ![a] = @ + 1] ELSE late
      /\ back' = IF c.at # None /\ now < c.at
                 THEN [back EXCEPT ![a] = @ + (c.at - now)] ELSE back
      /\ UNCHANGED <<present, playClock, xp, markers, levels, granted, faults>>
  BY <1>a, <1>c, <1>n, <1>s, <1>w DEF Play!Observe, Play!Overtaken
<1>4. /\ c \in PlayRows /\ c.rest \in Nat /\ c.intervals \in Nat
      /\ c.at # None => c.at \in Nat
  <2>1. c \in PlayRows
    BY <1>1, <1>2, <1>c DEF PlayTyped
  <2>2. Interval \in Nat /\ MaxTime \in Nat
    BY <1>1 DEF PlayConstants
  <2>3. c.at \in {None} \cup 0..MaxTime /\ c.rest \in 0..(Interval - 1) /\ c.intervals \in Nat
    BY <2>1 DEF PlayRows
  <2> QED  BY <2>1, <2>2, <2>3
<1>5. /\ seconds \in Nat /\ seconds <= Longest
      /\ c.at # None /\ c.at <= now => seconds <= now - c.at
      /\ c.at = None \/ ~c.online \/ now <= c.at => seconds = 0
  <2>1. CASE c.at = None
    BY <1>s, <2>1, LongestIs
  <2>2. CASE c.at # None
    <3>1. c.at \in Nat /\ seconds = Play!Elapsed(c, now)
      BY <1>4, <1>s, <2>2
    <3>2. ~c.online \/ now < c.at => seconds = 0
      BY <3>1 DEF Play!Elapsed
    <3>3. seconds \in Nat /\ seconds <= Longest /\ (c.at <= now => seconds <= now - c.at)
      BY <1>2, <3>1, ElapsedIs
    <3> QED  BY <1>2, <2>2, <3>1, <3>2, <3>3
  <2> QED  BY <2>1, <2>2
<1>6. /\ new.intervals \in Nat /\ new.rest \in 0..(Interval - 1)
      /\ new.intervals * Interval + new.rest = c.rest + seconds
  BY <1>4, <1>5, <1>w, AccruedIs
<1>7. PlayTyped'
  <2>1. playRow' \in [Players -> PlayRows]
    <3>1. [at |-> now, online |-> playTick[t].online, rest |-> new.rest,
           intervals |-> c.intervals + new.intervals] \in PlayRows
      BY <1>1, <1>2, <1>4, <1>6 DEF PlayRows, Visits
    <3> QED  BY <1>1, <1>2, <1>3, <3>1 DEF PlayTyped
  <2>2. playTick' \in [PlayTickers -> Visits]
    <3>1. [playTick[t] EXCEPT !.pc = "track", !.earned = new.intervals] \in Visits
      BY <1>1, <1>6 DEF Visits
    <3>2. [playTick[t] EXCEPT !.pc = "look", !.left = Tail(playTick[t].left)] \in Visits
      BY <1>1, <1>2 DEF Visits
    <3> QED  BY <1>1, <1>3, <3>1, <3>2 DEF PlayTyped
  <2>3. counted' \in [Players -> Nat]
    BY <1>1, <1>2, <1>3, <1>5 DEF PlayTyped
  <2>4. /\ playSeen' \in [Players -> SUBSET (0..MaxTime)]
        /\ sighted' \in [Players -> SUBSET (0..MaxTime)] /\ late' \in [Players -> Nat]
    BY <1>1, <1>2, <1>3 DEF PlayTyped
  <2>5. back' \in [Players -> Nat]
    <3>1. CASE c.at # None /\ now < c.at
      <4>1. c.at - now \in Nat
        BY <1>2, <1>4, <3>1
      <4> QED  BY <1>1, <1>2, <1>3, <3>1, <4>1 DEF PlayTyped
    <3> QED  BY <1>1, <1>3, <3>1 DEF PlayTyped
  <2> QED  BY <1>1, <1>3, <2>1, <2>2, <2>3, <2>4, <2>5 DEF PlayTyped
<1>8. VisitsAreTimely'
  BY <1>1, <1>3 DEF PlayInv, PlayTyped, VisitsAreTimely, Visits
<1>9. ASSUME NEW b \in Players, b # a
      PROVE  /\ playRow'[b] = playRow[b] /\ counted'[b] = counted[b]
             /\ playSeen'[b] = playSeen[b] /\ sighted'[b] = sighted[b]
             /\ late'[b] = late[b] /\ back'[b] = back[b]
  BY <1>1, <1>3, <1>9 DEF PlayTyped
<1>10. /\ playRow'[a].at = now /\ playRow'[a].rest = new.rest
       /\ playRow'[a].intervals = c.intervals + new.intervals
       /\ playRow'[a].online = playTick[t].online
       /\ counted'[a] = counted[a] + seconds /\ playSeen'[a] = playSeen[a] \cup {now}
       /\ sighted'[a] = IF playTick[t].online THEN sighted[a] \cup {now} ELSE sighted[a]
       /\ late'[a] = IF now # c.at /\ \E s \in playSeen[a] : now <= s
                     THEN late[a] + 1 ELSE late[a]
       /\ back'[a] = IF c.at # None /\ now < c.at THEN back[a] + (c.at - now) ELSE back[a]
  BY <1>1, <1>2, <1>3 DEF PlayTyped
<1>11. \A u \in PlayTickers : u # t => playTick'[u] = playTick[u]
  BY <1>1, <1>3 DEF PlayTyped
<1>12. playTick'[t].now = now
  BY <1>1, <1>3, <1>n DEF PlayTyped, Visits
<1>13. ASSUME NEW b \in Players
       PROVE  /\ RowIsSeen(b)' /\ CountedIsKept(b)' /\ CountedIsPassed(b)'
              /\ CountedIsBounded(b)'
              /\ Play!OneTicks => RowIsLatest(b)'
  <2>0. RowIsSeen(b) /\ CountedIsKept(b) /\ CountedIsPassed(b) /\ CountedIsBounded(b)
    BY DEF PlayInv
  <2>1. CASE b # a
    <3>1. RowIsSeen(b)' /\ CountedIsKept(b)' /\ CountedIsPassed(b)' /\ CountedIsBounded(b)'
      BY <1>3, <1>9, <2>0, <2>1
         DEF RowIsSeen, CountedIsKept, CountedIsPassed, CountedIsBounded, Gaps
    <3>2. ASSUME Play!OneTicks PROVE RowIsLatest(b)'
      <4>1. RowIsLatest(b)
        BY <3>2 DEF PlayInv
      <4>2. playTick[t].pc # "idle" /\ \A u \in PlayTickers : u = t
        BY <1>1, <3>2 DEF Play!OneTicks
      <4> QED  BY <1>9, <1>12, <1>n, <2>1, <4>1, <4>2 DEF RowIsLatest
    <3> QED  BY <3>1, <3>2
  <2>2. CASE b = a
    <3>0. /\ playSeen[a] \subseteq Nat /\ sighted[a] \subseteq Nat /\ IsFiniteSet(sighted[a])
          /\ counted[a] \in Nat /\ late[a] \in Nat /\ back[a] \in Nat
          /\ Cardinality(sighted[a]) \in Nat
      <4>1. /\ playSeen[a] \subseteq 0..MaxTime /\ sighted[a] \subseteq 0..MaxTime
            /\ counted[a] \in Nat /\ late[a] \in Nat /\ back[a] \in Nat
        BY <1>1, <1>2 DEF PlayTyped
      <4>2. IsFiniteSet(0..MaxTime)
        <5>1. 0 \in Int /\ MaxTime \in Int
          BY <1>1 DEF PlayConstants
        <5> QED  BY <5>1, FS_Interval
      <4>3. IsFiniteSet(sighted[a])
        BY <4>1, <4>2, FS_Subset
      <4> QED  BY <4>1, <4>3, FS_CardinalityType
    <3>1. RowIsSeen(a)'
      BY <1>1, <1>2, <1>3, <1>10, <2>0, <2>2 DEF RowIsSeen, PlayConstants
    <3>2. CountedIsKept(a)'
      <4>1. counted[a] = c.intervals * Interval + c.rest
        BY <1>c, <2>0, <2>2 DEF CountedIsKept
      <4>2. counted[a] \in Nat /\ Interval \in Nat
        BY <1>1, <1>2 DEF PlayTyped, PlayConstants
      <4>3. (c.intervals + new.intervals) * Interval
               = c.intervals * Interval + new.intervals * Interval
        BY <1>4, <1>6, <4>2, Products
      <4>4. c.intervals * Interval \in Nat /\ new.intervals * Interval \in Nat
        BY <1>4, <1>6, <4>2, Products
      <4>5. counted[a] + seconds
               = (c.intervals + new.intervals) * Interval + new.rest
        <5>1. c.rest \in Nat /\ new.rest \in Nat /\ seconds \in Nat
          BY <1>4, <1>5, <1>6, <4>2
        <5> QED  BY <1>6, <4>1, <4>3, <4>4, <5>1, Regroup
      <4> QED  BY <1>10, <4>5 DEF CountedIsKept
    <3>3. CountedIsPassed(a)'
      <4>1. CASE playSeen[a] = {}
        <5>1. c.at = None /\ counted[a] = 0
          BY <1>c, <2>0, <2>2, <4>1 DEF RowIsSeen
        <5>2. playSeen'[a] = {now} /\ counted'[a] = 0 /\ back'[a] = back[a]
          BY <1>5, <1>10, <4>1, <5>1
        <5>3. now \in playSeen'[a] /\ counted'[a] + now <= playRow'[a].at + back'[a]
              /\ \A s \in playSeen'[a] : now <= s
          BY <1>2, <1>10, <3>0, <5>2
        <5> QED  BY <5>3 DEF CountedIsPassed
      <4>2. CASE playSeen[a] # {}
        <5>1. c.at # None /\ c.at \in playSeen[a] /\ c.at \in Nat
          BY <1>4, <1>c, <2>0, <2>2, <3>0, <4>2 DEF RowIsSeen
        <5>2. PICK first \in playSeen[a] :
                 /\ \A s \in playSeen[a] : first <= s
                 /\ counted[a] + first <= c.at + back[a]
          BY <1>c, <2>0, <2>2, <4>2 DEF CountedIsPassed
        <5>3. first \in Nat /\ first <= c.at
          BY <3>0, <5>1, <5>2
        <5>4. counted'[a] + first <= now + back'[a]
          <6>1. counted'[a] = counted[a] + seconds /\ seconds \in Nat
            BY <1>5, <1>10
          <6>2. CASE now < c.at
            <7>1. seconds = 0 /\ back'[a] = back[a] + (c.at - now)
              BY <1>2, <1>5, <1>10, <5>1, <6>2
            <7> QED  BY <1>2, <3>0, <5>1, <5>2, <5>3, <6>1, <7>1
          <6>3. CASE ~(now < c.at)
            <7>1. seconds <= now - c.at /\ back'[a] = back[a]
              BY <1>2, <1>5, <1>10, <5>1, <6>3
            <7> QED  BY <1>2, <3>0, <5>1, <5>2, <5>3, <6>1, <7>1
          <6> QED  BY <6>2, <6>3
        <5>5. CASE first <= now
          <6>1. first \in playSeen'[a] /\ \A s \in playSeen'[a] : first <= s
            BY <1>10, <5>2, <5>5
          <6> QED  BY <1>10, <5>4, <6>1 DEF CountedIsPassed
        <5>6. CASE ~(first <= now)
          <6>1. now \in playSeen'[a] /\ \A s \in playSeen'[a] : now <= s
            BY <1>2, <1>10, <3>0, <5>2, <5>3, <5>6
          <6>2. counted'[a] + now <= now + back'[a]
            <7>1. counted'[a] \in Nat /\ back'[a] \in Nat
              BY <1>2, <1>7 DEF PlayTyped
            <7> QED  BY <1>2, <5>3, <5>4, <5>6, <7>1
          <6> QED  BY <1>10, <6>1, <6>2 DEF CountedIsPassed
        <5> QED  BY <5>5, <5>6
      <4> QED  BY <4>1, <4>2
    <3>4. CountedIsBounded(a)'
      <4> DEFINE n == Gaps(a)
                 m == Gaps(a)'
                 open == c.at \in sighted[a]
                 more == now \in sighted'[a]
      <4>1. n \in Nat /\ counted[a] + (IF open THEN Longest ELSE 0) <= n * Longest
            /\ (c.online => open)
        BY <1>c, <2>0, <2>2, <3>0 DEF CountedIsBounded, Gaps
      <4>2. Cardinality(sighted'[a]) = IF more /\ now \notin sighted[a]
                                       THEN Cardinality(sighted[a]) + 1
                                       ELSE Cardinality(sighted[a])
        <5>1. CASE now \in sighted[a]
          <6>1. sighted'[a] = sighted[a]
            BY <1>10, <5>1
          <6> QED  BY <5>1, <6>1
        <5>2. CASE now \notin sighted[a]
          <6>1. Cardinality(sighted[a] \cup {now}) = Cardinality(sighted[a]) + 1
            BY <3>0, <5>2, FS_AddElement
          <6> QED  BY <1>10, <5>2, <6>1
        <5> QED  BY <5>1, <5>2
      <4>3. m = Cardinality(sighted'[a]) + late'[a]
        BY DEF Gaps
      <4>4. m \in Nat /\ (m = n \/ m = n + 1 \/ m = n + 2) /\ n * Longest \in Nat
            /\ (n + 1) * Longest = n * Longest + Longest
            /\ (n + 2) * Longest = n * Longest + 2 * Longest
        BY <1>10, <3>0, <4>1, <4>2, <4>3, LongestIs, Products DEF Gaps
      <4>5. seconds > 0 => open
        BY <1>5, <4>1
      <4>6. CASE m = n
        <5>1. ~(now # c.at /\ \E s \in playSeen[a] : now <= s)
              /\ (more => now \in sighted[a])
          BY <1>10, <3>0, <4>2, <4>3, <4>6 DEF Gaps
        <5>2. CASE now = c.at
          <6>1. seconds = 0 /\ (more => open)
            BY <1>2, <1>5, <5>1, <5>2
          <6>2. counted'[a] + (IF more THEN Longest ELSE 0) <= m * Longest
            BY <1>10, <3>0, <4>1, <4>4, <4>6, <6>1, LongestIs
          <6> QED  BY <1>10, <6>2 DEF CountedIsBounded
        <5>3. CASE now # c.at
          <6>1. now \notin sighted[a] /\ ~more
            BY <1>2, <2>0, <2>2, <5>1, <5>3 DEF RowIsSeen
          <6>2. counted'[a] <= m * Longest
            BY <1>5, <1>10, <3>0, <4>1, <4>4, <4>5, <4>6, LongestIs
          <6>3. counted'[a] + 0 = counted'[a]
            BY <1>5, <1>10, <3>0
          <6>4. ~playTick[t].online
            BY <1>10, <6>1
          <6> QED  BY <1>10, <6>1, <6>2, <6>3, <6>4 DEF CountedIsBounded
        <5> QED  BY <5>2, <5>3
      <4>7. CASE m = n + 1 \/ m = n + 2
        <5>1. counted'[a] <= n * Longest
          BY <1>5, <1>10, <3>0, <4>1, <4>4, <4>5, LongestIs
        <5>2. counted'[a] + Longest <= m * Longest
          BY <1>5, <1>10, <3>0, <4>4, <4>7, <5>1, LongestIs
        <5> QED  BY <1>10, <3>0, <1>5, <4>4, <5>2, LongestIs DEF CountedIsBounded
      <4> QED  BY <4>4, <4>6, <4>7
    <3>5. ASSUME Play!OneTicks PROVE RowIsLatest(a)'
      <4>1. RowIsLatest(a)
        BY <3>5, <1>2 DEF PlayInv
      <4>2. \A s \in playSeen[a] : s <= now
        BY <1>1, <1>n, <4>1 DEF RowIsLatest
      <4>3. late'[a] = 0 /\ back'[a] = 0
        <5>1. CASE playSeen[a] = {}
          BY <1>10, <1>c, <2>0, <2>2, <4>1, <5>1 DEF RowIsSeen, RowIsLatest
        <5>2. CASE playSeen[a] # {}
          <6>1. c.at # None /\ c.at \in playSeen[a] /\ c.at \in Nat /\ c.at <= now
            BY <1>4, <1>c, <2>0, <2>2, <3>0, <4>2, <5>2 DEF RowIsSeen
          <6>2. \A s \in playSeen[a] : now <= s => now = c.at
            BY <1>2, <1>c, <3>0, <4>1, <4>2, <6>1 DEF RowIsLatest
          <6> QED  BY <1>2, <1>10, <4>1, <6>1, <6>2 DEF RowIsLatest
        <5> QED  BY <5>1, <5>2
      <4>4. \A u \in PlayTickers : u = t
        BY <3>5 DEF Play!OneTicks
      <4> QED  BY <1>2, <1>10, <1>12, <4>2, <4>3, <4>4 DEF RowIsLatest
    <3> QED  BY <2>2, <3>1, <3>2, <3>3, <3>4, <3>5
  <2> QED  BY <2>1, <2>2
<1>14. Play!OneDeliveryPerLevel'
  BY <1>3 DEF PlayInv, Play!OneDeliveryPerLevel
<1> QED  BY <1>7, <1>8, <1>13, <1>14 DEF PlayInv, Play!OneTicks

LEMMA PlayClaimStep ==
    ASSUME PlayInv, NEW a \in Players, NEW n \in DOMAIN LevelXp, Play!ClaimLevel(a, n)
    PROVE  PlayInv'
<1>1. /\ levels' = levels \cup {<<a, n>>}
      /\ granted' = [granted EXCEPT ![<<a, n>>] = @ + 1]
      /\ <<a, n>> \notin levels /\ PlayTyped
      /\ UNCHANGED <<present, playClock, playRow, xp, markers, playTick, counted, playSeen,
                     sighted, late, back>>
  BY DEF PlayInv, Play!ClaimLevel, Play!ClaimedBefore, Play!history
<1>2. PlayTyped'
  <2>1. granted' \in [Players \X DOMAIN LevelXp -> Nat]
    BY <1>1 DEF PlayTyped
  <2>2. levels' \subseteq Players \X DOMAIN LevelXp
    BY <1>1 DEF PlayTyped
  <2> QED  BY <1>1, <2>1, <2>2 DEF PlayTyped
<1>3. Play!OneDeliveryPerLevel'
  <2> SUFFICES ASSUME NEW c \in DOMAIN granted'
               PROVE  granted'[c] = IF c \in levels' THEN 1 ELSE 0
    BY DEF Play!OneDeliveryPerLevel
  <2>1. c \in DOMAIN granted /\ granted[c] = IF c \in levels THEN 1 ELSE 0
    BY <1>1 DEF PlayInv, PlayTyped, Play!OneDeliveryPerLevel
  <2> QED  BY <1>1, <2>1
<1> QED
  BY <1>1, <1>2, <1>3 DEF PlayInv, VisitsAreTimely, RowIsSeen, CountedIsKept, RowIsLatest,
     CountedIsPassed, CountedIsBounded, Gaps, Play!OneTicks

(* Every step keeps the invariant of the playtime tracks. *)
LEMMA PlayInvStep == PlayInv /\ [LedgersNext]_allVars => PlayInv'
<1> SUFFICES ASSUME PlayInv, [LedgersNext]_allVars PROVE PlayInv'
  OBVIOUS
<1>1. CASE UNCHANGED playVars
  BY <1>1 DEF playVars, PlayInv, PlayTyped, VisitsAreTimely, RowIsSeen, CountedIsKept,
     RowIsLatest, CountedIsPassed, CountedIsBounded, Gaps, Play!OneTicks,
     Play!OneDeliveryPerLevel
<1>2. CASE Play!Next
  <2>0. PlayTyped /\ VisitsAreTimely /\ PlayConstants /\ playClock \in Nat
    BY PlayConstantsHold DEF PlayInv, PlayTyped
  <2>1. CASE Play!Second
    <3>1. Bookless /\ playClock' = playClock + 1 /\ playClock' \in 0..MaxTime
          /\ UNCHANGED <<playTick, xp, markers>> /\ present' \subseteq Players
      BY <2>0, <2>1 DEF Play!Second, Play!store, Play!history, Bookless, PlayConstants, PlayTyped
    <3>2. PlayTyped'
      BY <2>0, <3>1 DEF PlayTyped, Bookless
    <3>3. VisitsAreTimely'
      <4>1. \A t \in PlayTickers : playTick[t].now \in Nat
        BY <2>0 DEF PlayTyped, Visits
      <4> QED  BY <2>0, <3>1, <4>1 DEF VisitsAreTimely
    <3> QED  BY <2>0, <3>1, <3>2, <3>3, PlayBooklessStep
  <2>2. ASSUME NEW t \in PlayTickers, Play!StartTick(t) PROVE PlayInv'
    <3> DEFINE v == [Play!Idle EXCEPT !.pc = "look", !.now = playClock, !.left = Order]
    <3>1. Bookless /\ UNCHANGED <<present, playClock, xp, markers>>
          /\ playTick' = [playTick EXCEPT ![t] = v]
      BY <2>2 DEF Play!StartTick, Play!store, Play!history, Bookless
    <3>2. v \in Visits /\ v.now = playClock /\ v.pc = "look"
      BY <2>0 DEF Play!Idle, Visits, PlayTyped, PlayConstants
    <3> HIDE DEF v
    <3>3. PlayTyped'
      BY <2>0, <3>1, <3>2 DEF PlayTyped, Bookless
    <3>4. VisitsAreTimely'
      BY <2>0, <3>1, <3>2 DEF VisitsAreTimely, PlayTyped
    <3> QED  BY <2>0, <3>1, <3>2, <3>3, <3>4, PlayBooklessStep DEF PlayTyped
  <2>3. ASSUME NEW t \in PlayTickers, NEW v \in Visits, Bookless, PlayTyped',
               UNCHANGED playClock,
               playTick' = [playTick EXCEPT ![t] = v],
               \/ v.pc = "idle" /\ v.now = 0
               \/ v.now = playTick[t].now /\ playTick[t].pc # "idle",
               v.pc \in {"credit", "track"} => v.left # << >>
        PROVE  PlayInv'
    <3>1. VisitsAreTimely'
      BY <2>0, <2>3 DEF VisitsAreTimely, PlayTyped
    <3> QED  BY <2>0, <2>3, <3>1, PlayBooklessStep DEF PlayTyped
  <2>4. ASSUME NEW t \in PlayTickers, Play!Look(t) PROVE PlayInv'
    <3> DEFINE v == IF playTick[t].left = << >> THEN Play!Idle
                    ELSE [playTick[t] EXCEPT !.pc = "credit", !.online = Head(playTick[t].left) \in present]
    <3>1. Bookless /\ UNCHANGED <<present, playClock, xp, markers>>
          /\ playTick' = [playTick EXCEPT ![t] = v] /\ playTick[t].pc = "look"
      BY <2>4 DEF Play!Look, Play!store, Play!history, Bookless
    <3>2. /\ v \in Visits
          /\ (v.pc = "idle" /\ v.now = 0) \/ v.now = playTick[t].now
          /\ v.pc \in {"credit", "track"} => v.left # << >>
      <4>1. CASE playTick[t].left = << >>
        BY <2>0, <4>1 DEF Play!Idle, Visits, PlayConstants
      <4>2. CASE playTick[t].left # << >>
        <5>1. playTick[t] \in Visits
          BY <2>0 DEF PlayTyped
        <5>2. v = [playTick[t] EXCEPT !.pc = "credit",
                                      !.online = Head(playTick[t].left) \in present]
          BY <4>2
        <5>3. (Head(playTick[t].left) \in present) \in BOOLEAN
          OBVIOUS
        <5> HIDE DEF v
        <5> QED  BY <4>2, <5>1, <5>2, <5>3 DEF Visits
      <4> QED  BY <4>1, <4>2
    <3> HIDE DEF v
    <3>3. PlayTyped'
      BY <2>0, <3>1, <3>2 DEF PlayTyped, Bookless
    <3> QED  BY <2>3, <3>1, <3>2, <3>3
  <2>5. ASSUME NEW t \in PlayTickers, Play!Raise(t) PROVE PlayInv'
    <3>1. Bookless /\ UNCHANGED <<present, playClock, xp, markers>>
          /\ playTick' = [playTick EXCEPT ![t] = Play!Idle]
      BY <2>5 DEF Play!Raise, Play!store, Play!history, Bookless
    <3>2. Play!Idle \in Visits /\ Play!Idle.pc = "idle" /\ Play!Idle.now = 0
      BY <2>0 DEF Play!Idle, Visits, PlayConstants
    <3>3. PlayTyped'
      BY <2>0, <3>1, <3>2 DEF PlayTyped, Bookless
    <3> QED  BY <2>3, <3>1, <3>2, <3>3
  <2>6. ASSUME NEW t \in PlayTickers, Play!AddProgress(t) PROVE PlayInv'
    <3> DEFINE v == [playTick[t] EXCEPT !.pc = "look", !.left = Tail(playTick[t].left), !.earned = 0]
               a == Head(playTick[t].left)
               more == IF playTick[t].now \div Interval \in markers THEN 0 ELSE playTick[t].earned
    <3>1. Bookless /\ UNCHANGED <<present, playClock>>
          /\ playTick' = [playTick EXCEPT ![t] = v] /\ playTick[t].pc = "track"
          /\ xp' = [xp EXCEPT ![a] = @ + more]
          /\ markers' = markers \cup {playTick[t].now \div Interval}
      BY <2>6 DEF Play!AddProgress, Play!history, Bookless
    <3>2. playTick[t] \in Visits /\ playTick[t].left # << >>
      BY <2>0, <3>1 DEF PlayTyped, VisitsAreTimely
    <3>3. v \in Visits /\ v.pc = "look" /\ v.now = playTick[t].now
          /\ a \in Players /\ more \in Nat /\ playTick[t].now \div Interval \in 0..MaxTime
      <4>1. playTick[t].now \div Interval \in 0..MaxTime
        <5>1. playTick[t].now \in 0..MaxTime /\ Interval \in Nat \ {0} /\ MaxTime \in Nat
          BY <2>0, <3>2 DEF Visits, PlayConstants
        <5>2. \A k \in Nat, n \in Nat \ {0} : k \div n \in Nat /\ k \div n <= k
          BY SMTT(20)
        <5> QED  BY <5>1, <5>2
      <4>2. playTick[t].left \in Seq(Players) /\ playTick[t].earned \in Nat
        BY <3>2 DEF Visits
      <4>3. a \in Players /\ Tail(playTick[t].left) \in Seq(Players)
        BY <3>2, <4>2
      <4>4. v \in Visits /\ v.pc = "look" /\ v.now = playTick[t].now
        BY <3>2, <4>3 DEF Visits
      <4> QED  BY <4>1, <4>2, <4>3, <4>4
    <3> HIDE DEF v, a, more
    <3>4. PlayTyped'
      <4>0. xp \in [Players -> Nat] /\ markers \subseteq 0..MaxTime
        BY <2>0 DEF PlayTyped
      <4>1. xp' \in [Players -> Nat]
        BY <3>1, <3>3, <4>0
      <4>2. markers' \subseteq 0..MaxTime
        BY <3>1, <3>3, <4>0
      <4> QED  BY <2>0, <3>1, <3>3, <4>1, <4>2 DEF PlayTyped, Bookless
    <3> QED  BY <2>3, <3>1, <3>3, <3>4
  <2>7. CASE Play!Crash
    <3>1. Bookless /\ UNCHANGED <<present, playClock, xp, markers>>
          /\ playTick' = [t \in PlayTickers |-> Play!Idle]
      BY <2>7 DEF Play!Crash, Play!store, Play!history, Bookless
    <3>2. Play!Idle \in Visits /\ Play!Idle.pc = "idle" /\ Play!Idle.now = 0
      BY <2>0 DEF Play!Idle, Visits, PlayConstants
    <3>3. PlayTyped'
      BY <2>0, <3>1, <3>2 DEF PlayTyped, Bookless
    <3>4. VisitsAreTimely'
      BY <2>0, <3>1, <3>2 DEF VisitsAreTimely
    <3> QED  BY <2>0, <3>1, <3>2, <3>3, <3>4, PlayBooklessStep
  <2> QED
    BY <1>2, <2>1, <2>2, <2>4, <2>5, <2>6, <2>7, PlayObserveStep, PlayClaimStep DEF Play!Next
<1> QED
  BY <1>1, <1>2 DEF LedgersNext, RunLedger, RunShop, RunPlay, RunEngage, allVars

(* The instance has its own name for the library's operator. *)
LEMMA PlayCardinality == ASSUME NEW S PROVE Play!Cardinality(S) = Cardinality(S)
BY DEF Play!Cardinality, Cardinality

LEMMA PlayInvMeans == PlayInv => PlaytimeIsReal
<1> SUFFICES ASSUME PlayInv PROVE PlaytimeIsReal
  OBVIOUS
<1>1. Play!TypeOK
  BY DEF PlayInv, PlayTyped, PlayRows, Play!TypeOK
<1>2. ASSUME NEW a \in Players
      PROVE  /\ counted[a] = playRow[a].intervals * Interval + playRow[a].rest
             /\ playSeen[a] # {} =>
                   counted[a] + Play!Min(playSeen[a]) <= playRow[a].at + back[a]
             /\ counted[a] <= Gaps(a) * Longest
  <2>1. /\ playSeen[a] \in SUBSET Nat /\ counted[a] \in Nat /\ late[a] \in Nat
        /\ CountedIsKept(a) /\ CountedIsPassed(a) /\ CountedIsBounded(a)
        /\ sighted[a] \in SUBSET (0..MaxTime)
    BY DEF PlayInv, PlayTyped
  <2>2. ASSUME playSeen[a] # {}
        PROVE  counted[a] + Play!Min(playSeen[a]) <= playRow[a].at + back[a]
    <3>1. PICK first \in playSeen[a] :
             /\ \A s \in playSeen[a] : first <= s
             /\ counted[a] + first <= playRow[a].at + back[a]
      BY <2>1, <2>2 DEF CountedIsPassed
    <3>2. Play!Min(playSeen[a]) = first
      BY <2>1, <3>1, PlayMin
    <3> QED  BY <3>1, <3>2
  <2>3. Gaps(a) \in Nat
    <3>1. MaxTime \in Int /\ 0 \in Int
      BY PlayConstantsHold DEF PlayConstants
    <3>2. IsFiniteSet(sighted[a])
      BY <2>1, <3>1, FS_Interval, FS_Subset
    <3> QED  BY <2>1, <3>2, FS_CardinalityType DEF Gaps
  <2>4. Gaps(a) * Longest \in Nat
    BY <2>3, LongestIs, Products
  <2>5. counted[a] <= Gaps(a) * Longest
    BY <2>1, <2>4, LongestIs DEF CountedIsBounded
  <2> QED  BY <2>1, <2>2, <2>5 DEF CountedIsKept
<1>3. Play!SecondsAreKept
  BY <1>2 DEF Play!SecondsAreKept
<1>4. Play!DowntimeIsBounded
  BY <1>2, PlayCardinality DEF Longest, Gaps, Play!DowntimeIsBounded
<1>5. Play!OneThreadIsInTime
  BY DEF PlayInv, RowIsLatest, Play!OneThreadIsInTime
<1> QED  BY <1>1, <1>3, <1>4, <1>5 DEF PlayInv, PlaytimeIsReal

(* However many threads tick, raise or die (observe_playtime): the counted  *)
(* seconds of an account are its credited intervals and the rest, and no    *)
(* more than passed since it was first seen and a late thread set its row   *)
(* back; each time it was found online at, and each late observation, earns *)
(* one gap at most; nothing is late when one thread ticks; and each level   *)
(* has one delivery (claim_track_level).                                    *)
THEOREM LedgersKeepPlaytime == LedgersSpec => []PlaytimeIsReal
<1>1. PlayInv => PlaytimeIsReal
  BY PlayInvMeans
<1> QED  BY <1>1, PlayInvInit, PlayInvStep, PTL DEF LedgersSpec

-----------------------------------------------------------------------------
(***************************************************************************)
(* The shop.  The invariant splits the books by order: an order, its       *)
(* delivery, the items and the entries of the ledger are in step, a tick   *)
(* that may write holds the claim of its delivery, and the sums over the   *)
(* orders are the wallets and the stock.                                   *)
(***************************************************************************)
(* An order, its delivery and the items it gave.                           *)
OrderIsPlaced(i) ==
    /\ purchases[i].state = "none" <=> deliveries[i].status = "none"
    /\ purchases[i].state = "delivered" <=> deliveries[i].status = "delivered"
    /\ purchases[i].state = "refunded" <=> deliveries[i].status = "failed"
    /\ purchases[i].state = "none" => purchases[i] = Shop!NoPurchase
    /\ purchases[i].state # "none" =>
          /\ purchases[i].account \in Buyers /\ purchases[i].key \in Keys
          /\ purchases[i].version \in 1..offer.version
    /\ deliveries[i].status \in {"none", "queued", "retry"} => game[i] = 0
    /\ game[i] <= purchases[i].quantity

(* Why a tick may write: it holds the claim of its delivery, and no other  *)
(* thread does; nothing is written before the dry runs.                    *)
TickHolds(t) ==
    shopTick[t].pc # "idle" =>
        /\ shopTick[t].id \in Ids
        /\ Shop!Holds(t, shopTick[t].id)
        /\ shopTick[t].pc = "check" => game[shopTick[t].id] = 0

OrdersAreSound ==
    /\ Shop!TypeOK
    /\ \A i \in Ids : OrderIsPlaced(i)
    /\ \A t \in Threads : TickHolds(t)
    /\ Shop!ItemsMatchMoney /\ Shop!OneOrderPerKey

-----------------------------------------------------------------------------
(* The sums of the books.                                                  *)
Placed == {i \in Ids : purchases[i].state # "none"}

CreditsOf(a) == {e \in ledger : e.account = a /\ e.kind \in {"credit", "webhook"}}
Credited(a) == Total([e \in CreditsOf(a) |-> e.delta], CreditsOf(a))

OrdersOf(a) == {i \in Ids : purchases[i].account = a /\ purchases[i].state # "refunded"}
Spent(a) == Total([i \in Ids |-> purchases[i].total], OrdersOf(a))

SoldNow == {i \in Ids : purchases[i].version = offer.version /\ purchases[i].state # "refunded"}
BackFromOlder ==
    {i \in Ids : purchases[i].version < offer.version /\ purchases[i].state = "refunded"}
Pieces(S) == Total([i \in Ids |-> purchases[i].quantity], S)

FinitelyMany ==
    /\ IsFiniteSet(ledger) /\ IsFiniteSet(Placed)
    /\ \A e \in ledger : e.kind \in {"credit", "webhook"} => e.delta \in Nat

WalletsBalance == \A a \in Buyers : wallet[a] = Credited(a) - Spent(a)

StockBalances ==
    offer.stock # None =>
        /\ offer.supply \in Nat
        /\ offer.supply <= offer.stock + Pieces(SoldNow)
        /\ offer.stock + Pieces(SoldNow) <= offer.supply + Pieces(BackFromOlder)

ShopInv == OrdersAreSound /\ FinitelyMany /\ WalletsBalance /\ StockBalances

ShopConstants ==
    /\ Amounts \subseteq Nat \ {0} /\ Quantities \subseteq Nat \ {0}
    /\ Prices \subseteq Nat /\ Stocks \subseteq Nat \cup {None}
    /\ MaxVersion \in Nat \ {0} /\ None \notin Nat
    /\ None \notin Buyers /\ None \notin Threads /\ None \notin Keys

LEMMA ShopConstantsHold == ShopConstants
BY BooksAssumption DEF Shop!ConstantsAssumption, ShopConstants

-----------------------------------------------------------------------------
(* The parts of the type invariant.                                        *)
MoneyTyped ==
    /\ wallet \in [Buyers -> Nat]
    /\ \A e \in ledger : e.account \in Buyers /\ e.delta \in Int \ {0}
    /\ receipts \in [WebhookIds -> [account : Buyers \cup {None}, amount : Amounts \cup {0}]]

Offers ==
    [version : 1..MaxVersion, price : Prices, stock : Nat \cup {None}, enabled : BOOLEAN,
     supply : Stocks]

Orders ==
    [state : {"none", "queued", "delivered", "refunded"}, account : Buyers \cup {None},
     version : 0..MaxVersion, total : Nat, quantity : Quantities \cup {0},
     key : Keys \cup {None}]

Deliveries ==
    [status : {"none", "queued", "retry", "processing", "delivered", "failed",
               "reconciliation"},
     token : Threads \cup {None}]

ShopTicks == [pc : {"idle", "check", "grant"}, id : Ids \cup {None}]

ShopTyped ==
    /\ MoneyTyped /\ offer \in Offers /\ purchases \in [Ids -> Orders]
    /\ deliveries \in [Ids -> Deliveries] /\ queue \in Seq(Ids)
    /\ shopTick \in [Threads -> ShopTicks]
    /\ game \in [Ids -> Nat] /\ resolved \subseteq Ids

LEMMA ShopTypes == (Shop!TypeOK <=> ShopTyped) /\ (Shop!TypeOK' <=> ShopTyped')
<1>1. {"none", "queued"} \cup {"delivered", "refunded"} = {"none", "queued", "delivered", "refunded"}
  OBVIOUS
<1>2. Shop!TypeOK <=> ShopTyped
  BY <1>1
  DEF Shop!TypeOK, Shop!Settled, ShopTyped, MoneyTyped, Offers, Orders, Deliveries, ShopTicks
<1>3. Shop!TypeOK' <=> ShopTyped'
  BY <1>1
  DEF Shop!TypeOK, Shop!Settled, ShopTyped, MoneyTyped, Offers, Orders, Deliveries, ShopTicks
<1> QED  BY <1>2, <1>3

(* What an order or an offer is made of.                                   *)
LEMMA OrderIs ==
    ASSUME NEW o \in Orders
    PROVE  /\ o.total \in Nat /\ o.quantity \in Nat /\ o.version \in Nat
           /\ o.state \in {"none", "queued", "delivered", "refunded"}
<1>1. o.quantity \in Quantities \cup {0} /\ o.version \in 0..MaxVersion
  BY DEF Orders
<1>2. MaxVersion \in Nat /\ Quantities \subseteq Nat
  BY ShopConstantsHold DEF ShopConstants
<1>3. o.version \in Nat
  BY <1>1, <1>2
<1>4. o.quantity \in Nat
  <2>1. CASE o.quantity = 0
    BY <2>1
  <2>2. CASE o.quantity \in Quantities
    BY <1>2, <2>2
  <2> QED  BY <1>1, <2>1, <2>2
<1> QED  BY <1>3, <1>4 DEF Orders

LEMMA OfferIs ==
    ASSUME offer \in Offers
    PROVE  /\ offer.version \in 1..MaxVersion /\ offer.version \in Nat
           /\ offer.price \in Nat /\ offer.stock \in Nat \cup {None}
           /\ offer.supply \in Nat \cup {None}
<1>1. /\ offer.version \in 1..MaxVersion /\ offer.price \in Prices
      /\ offer.stock \in Nat \cup {None} /\ offer.supply \in Stocks
  BY DEF Offers
<1>2. MaxVersion \in Nat
  BY ShopConstantsHold DEF ShopConstants
<1>3. Prices \subseteq Nat /\ Stocks \subseteq Nat \cup {None}
  BY ShopConstantsHold DEF ShopConstants
<1>4. offer.version \in Nat
  BY <1>1, <1>2
<1>5. offer.price \in Nat /\ offer.supply \in Nat \cup {None}
  BY <1>1, <1>3
<1> QED  BY <1>1, <1>4, <1>5

LEMMA PostTyped ==
    ASSUME MoneyTyped, NEW a \in Buyers, NEW d \in Int \ {0}, NEW kind, NEW ref,
           Shop!Post(a, d, kind, ref)
    PROVE  /\ wallet' \in [Buyers -> Nat]
           /\ \A e \in ledger' : e.account \in Buyers /\ e.delta \in Int \ {0}
<1>1. wallet[a] + d \in Nat
  BY DEF MoneyTyped, Shop!Post
<1> QED  BY <1>1 DEF MoneyTyped, Shop!Post

(* A delivery moves on, and its order with it; ticks that hold other       *)
(* deliveries do not notice.                                               *)
LEMMA OrderMoves ==
    ASSUME OrdersAreSound,
           NEW i \in Ids, NEW s \in {"queued", "delivered", "refunded"},
           NEW d \in Deliveries, NEW g \in Nat,
           purchases[i].state # "none", d.status # "none",
           purchases' = [purchases EXCEPT ![i].state = s],
           deliveries' = [deliveries EXCEPT ![i] = d],
           game' = [game EXCEPT ![i] = g],
           g <= purchases[i].quantity,
           d.status \in {"queued", "retry"} => g = 0,
           s = "delivered" <=> d.status = "delivered",
           s = "refunded" <=> d.status = "failed",
           resolved \subseteq resolved', resolved' \subseteq Ids,
           i \notin resolved' =>
              /\ s = "refunded" => g = 0
              /\ s = "delivered" => g = purchases[i].quantity,
           MoneyTyped', offer' \in Offers, offer'.version = offer.version, queue' = queue,
           shopTick' \in [Threads -> ShopTicks],
           \A u \in Threads :
              \/ TickHolds(u)'
              \/ shopTick'[u] = shopTick[u] /\ (shopTick[u].pc # "idle" => shopTick[u].id # i)
    PROVE  OrdersAreSound'
<1>1. /\ MoneyTyped /\ offer \in Offers /\ purchases \in [Ids -> Orders]
      /\ deliveries \in [Ids -> Deliveries] /\ queue \in Seq(Ids)
      /\ shopTick \in [Threads -> ShopTicks]
      /\ game \in [Ids -> Nat] /\ resolved \subseteq Ids
  BY ShopTypes DEF OrdersAreSound, ShopTyped
<1>2. [purchases[i] EXCEPT !.state = s] \in Orders
  BY <1>1 DEF Orders
<1>3. purchases' \in [Ids -> Orders]
  BY <1>1, <1>2
<1>4. deliveries' \in [Ids -> Deliveries] /\ game' \in [Ids -> Nat]
  BY <1>1
<1>5. Shop!TypeOK'
  BY <1>1, <1>3, <1>4, ShopTypes DEF ShopTyped
<1>6. /\ purchases'[i].state = s /\ purchases'[i].account = purchases[i].account
      /\ purchases'[i].version = purchases[i].version /\ purchases'[i].key = purchases[i].key
      /\ purchases'[i].quantity = purchases[i].quantity
      /\ deliveries'[i] = d /\ game'[i] = g
  BY <1>1 DEF Orders
<1>7. \A j \in Ids : j # i =>
         purchases'[j] = purchases[j] /\ deliveries'[j] = deliveries[j] /\ game'[j] = game[j]
  BY <1>1
<1>8. ASSUME NEW j \in Ids PROVE OrderIsPlaced(j)'
  <2>1. OrderIsPlaced(j)
    BY DEF OrdersAreSound
  <2>2. CASE j # i
    BY <1>7, <2>1, <2>2 DEF OrderIsPlaced
  <2>3. CASE j = i
    BY <1>6, <2>1, <2>3 DEF OrderIsPlaced
  <2> QED  BY <2>2, <2>3
<1>9. ASSUME NEW u \in Threads PROVE TickHolds(u)'
  <2>1. CASE shopTick'[u] = shopTick[u] /\ (shopTick[u].pc # "idle" => shopTick[u].id # i)
    BY <1>7, <2>1 DEF OrdersAreSound, TickHolds, Shop!Holds
  <2> QED  BY <2>1
<1>10. Shop!ItemsMatchMoney'
  <2> SUFFICES ASSUME NEW j \in Ids
               PROVE  /\ game'[j] <= purchases'[j].quantity
                      /\ j \notin resolved' =>
                           /\ purchases'[j].state = "refunded" => game'[j] = 0
                           /\ purchases'[j].state = "delivered" =>
                                game'[j] = purchases'[j].quantity
    BY DEF Shop!ItemsMatchMoney
  <2>1. CASE j # i
    BY <1>7, <2>1 DEF OrdersAreSound, Shop!ItemsMatchMoney
  <2>2. CASE j = i
    BY <1>6, <2>2
  <2> QED  BY <2>1, <2>2
<1>11. Shop!OneOrderPerKey'
  <2>1. \A j \in Ids :
          /\ purchases'[j].account = purchases[j].account
          /\ purchases'[j].key = purchases[j].key
          /\ purchases'[j].state # "none" => purchases[j].state # "none"
    BY <1>6, <1>7
  <2> QED  BY <2>1 DEF OrdersAreSound, Shop!OneOrderPerKey
<1> QED  BY <1>5, <1>8, <1>9, <1>10, <1>11 DEF OrdersAreSound

LEMMA OrdersInit == LedgersInit => OrdersAreSound
<1> SUFFICES ASSUME LedgersInit PROVE OrdersAreSound
  OBVIOUS
<1> USE DEF Shop!NoPurchase, Shop!NoDelivery, Shop!NoReceipt, Shop!NoTick
<1>1. Shop!Init /\ ShopConstants
  BY ShopConstantsHold DEF LedgersInit
<1>2. ShopTyped
  <2>1. MoneyTyped
    BY <1>1 DEF MoneyTyped, Shop!Init
  <2>2. offer \in Offers
    BY <1>1 DEF Shop!Init, Offers, ShopConstants
  <2>3. purchases \in [Ids -> Orders] /\ deliveries \in [Ids -> Deliveries]
    <3>1. Shop!NoPurchase \in Orders
      BY <1>1 DEF Orders, ShopConstants
    <3>2. Shop!NoDelivery \in Deliveries
      BY DEF Deliveries
    <3> QED  BY <1>1, <3>1, <3>2 DEF Shop!Init
  <2>4. shopTick \in [Threads -> ShopTicks]
    BY <1>1 DEF Shop!Init, ShopTicks
  <2> QED  BY <1>1, <2>1, <2>2, <2>3, <2>4 DEF ShopTyped, Shop!Init
<1>3. \A i \in Ids : OrderIsPlaced(i)
  BY <1>1 DEF Shop!Init, OrderIsPlaced
<1>4. \A t \in Threads : TickHolds(t)
  BY <1>1 DEF Shop!Init, TickHolds
<1>5. Shop!ItemsMatchMoney /\ Shop!OneOrderPerKey
  BY <1>1 DEF Shop!Init, Shop!ItemsMatchMoney, Shop!OneOrderPerKey
<1> QED  BY <1>2, <1>3, <1>4, <1>5, ShopTypes DEF OrdersAreSound

(* A step that leaves the orders, their deliveries and the items alone.    *)
LEMMA OrdersUntouched ==
    ASSUME OrdersAreSound, MoneyTyped', offer' \in Offers, offer.version <= offer'.version,
           UNCHANGED <<purchases, deliveries, queue, game, resolved>>,
           shopTick' \in [Threads -> ShopTicks],
           \A t \in Threads :
              \/ shopTick'[t] = shopTick[t]
              \/ shopTick'[t].pc = "idle"
              \/ shopTick'[t].pc = "grant" /\ shopTick'[t].id = shopTick[t].id /\ shopTick[t].pc # "idle"
    PROVE  OrdersAreSound'
<1>1. ShopTyped'
  BY ShopTypes DEF OrdersAreSound, ShopTyped
<1>2. ASSUME NEW i \in Ids PROVE OrderIsPlaced(i)'
  <2>1. offer.version \in Nat /\ offer'.version \in Nat
    BY ShopTypes, ShopConstantsHold DEF OrdersAreSound, ShopTyped, Offers, ShopConstants
  <2>2. OrderIsPlaced(i)
    BY DEF OrdersAreSound
  <2> QED  BY <2>1, <2>2 DEF OrderIsPlaced
<1>3. ASSUME NEW t \in Threads PROVE TickHolds(t)'
  BY DEF OrdersAreSound, TickHolds, Shop!Holds
<1>4. Shop!ItemsMatchMoney' /\ Shop!OneOrderPerKey'
  BY DEF OrdersAreSound, Shop!ItemsMatchMoney, Shop!OneOrderPerKey
<1> QED  BY <1>1, <1>2, <1>3, <1>4, ShopTypes DEF OrdersAreSound

LEMMA PurchaseStep ==
    ASSUME OrdersAreSound, NEW i \in Ids, NEW a \in Buyers, NEW n \in Quantities, NEW key \in Keys,
           Shop!Purchase(i, a, n, key)
    PROVE  OrdersAreSound'
<1>1. ShopTyped /\ ShopConstants
  BY ShopTypes, ShopConstantsHold DEF OrdersAreSound
<1>p. PICK total : total = offer.price * n
  OBVIOUS
<1>2. /\ offer.version \in 1..MaxVersion /\ offer.version \in Nat /\ offer.price \in Nat
      /\ n \in Nat /\ n > 0 /\ total \in Nat
  <2>1. /\ offer.version \in 1..MaxVersion /\ offer.version \in Nat /\ offer.price \in Nat
    BY <1>1, OfferIs DEF ShopTyped
  <2>2. n \in Nat /\ n > 0
    BY <1>1 DEF ShopConstants
  <2> QED  BY <1>p, <2>1, <2>2, Products
<1>3. /\ purchases[i] = Shop!NoPurchase /\ ~Shop!Repeated(a, key)
      /\ offer.enabled /\ Shop!InStock(n)
      /\ IF total = 0 THEN UNCHANGED <<wallet, ledger>>
         ELSE Shop!Post(a, - total, "purchase", i)
      /\ offer' = Shop!Restocked(- n)
      /\ purchases' = [purchases EXCEPT ![i] =
                         [state |-> "queued", account |-> a, version |-> offer.version,
                          quantity |-> n, total |-> total, key |-> key]]
      /\ deliveries' = [deliveries EXCEPT ![i].status = "queued"]
      /\ queue' = Append(queue, i)
      /\ UNCHANGED <<receipts, shopTick, game, resolved>>
  BY <1>p DEF Shop!Purchase
<1>4. MoneyTyped'
  <2>1. CASE total = 0
    BY <1>1, <1>3, <2>1 DEF ShopTyped, MoneyTyped
  <2>2. CASE total # 0
    <3>1. - total \in Int \ {0}
      BY <1>2, <2>2
    <3> QED  BY <1>1, <1>3, <2>2, <3>1, PostTyped DEF ShopTyped, MoneyTyped
  <2> QED  BY <2>1, <2>2
<1>5. offer' \in Offers /\ offer'.version = offer.version
  <2>1. CASE offer.stock = None
    BY <1>1, <1>3, <2>1 DEF ShopTyped, Shop!Restocked
  <2>2. CASE offer.stock # None
    <3>1. offer.stock \in Nat /\ offer.stock + (- n) \in Nat
      BY <1>1, <1>2, <1>3, <2>2 DEF ShopTyped, Offers, Shop!InStock
    <3> QED  BY <1>1, <1>3, <2>2, <3>1 DEF ShopTyped, Offers, Shop!Restocked
  <2> QED  BY <2>1, <2>2
<1>6. /\ purchases' \in [Ids -> Orders] /\ deliveries' \in [Ids -> Deliveries]
      /\ queue' \in Seq(Ids)
  <2>1. [state |-> "queued", account |-> a, version |-> offer.version, quantity |-> n,
         total |-> total, key |-> key] \in Orders
    BY <1>1, <1>2 DEF Orders
  <2>2. purchases' \in [Ids -> Orders]
    BY <1>1, <1>3, <2>1 DEF ShopTyped
  <2>3. deliveries' \in [Ids -> Deliveries]
    BY <1>1, <1>3 DEF ShopTyped, Deliveries
  <2> QED  BY <1>1, <1>3, <2>2, <2>3 DEF ShopTyped
<1>7. ShopTyped'
  BY <1>1, <1>3, <1>4, <1>5, <1>6 DEF ShopTyped
<1>8. /\ purchases'[i] = [state |-> "queued", account |-> a, version |-> offer.version,
                          quantity |-> n, total |-> total, key |-> key]
      /\ deliveries'[i].status = "queued"
      /\ \A j \in Ids : j # i => purchases'[j] = purchases[j] /\ deliveries'[j] = deliveries[j]
  BY <1>1, <1>3 DEF ShopTyped, Deliveries
<1>9. /\ purchases[i].state = "none" /\ deliveries[i].status = "none" /\ game[i] = 0
      /\ purchases[i].account = None
  BY <1>3 DEF OrdersAreSound, OrderIsPlaced, Shop!NoPurchase
<1>10. ASSUME NEW j \in Ids PROVE OrderIsPlaced(j)'
  <2>1. OrderIsPlaced(j)
    BY DEF OrdersAreSound
  <2>2. CASE j # i
    BY <1>3, <1>5, <1>8, <2>1, <2>2 DEF OrderIsPlaced
  <2>3. CASE j = i
    BY <1>2, <1>3, <1>5, <1>8, <1>9, <2>3 DEF OrderIsPlaced
  <2> QED  BY <2>2, <2>3
<1>11. ASSUME NEW t \in Threads PROVE TickHolds(t)'
  BY <1>3, <1>8, <1>9 DEF OrdersAreSound, TickHolds, Shop!Holds
<1>12. Shop!ItemsMatchMoney'
  <2> SUFFICES ASSUME NEW j \in Ids
               PROVE  /\ game'[j] <= purchases'[j].quantity
                      /\ j \notin resolved' =>
                           /\ purchases'[j].state = "refunded" => game'[j] = 0
                           /\ purchases'[j].state = "delivered" =>
                                game'[j] = purchases'[j].quantity
    BY DEF Shop!ItemsMatchMoney
  <2>1. CASE j # i
    BY <1>3, <1>8, <2>1 DEF OrdersAreSound, Shop!ItemsMatchMoney
  <2>2. CASE j = i
    BY <1>2, <1>3, <1>8, <1>9, <2>2
  <2> QED  BY <2>1, <2>2
<1>13. Shop!OneOrderPerKey'
  <2> SUFFICES ASSUME NEW j \in Ids, NEW k \in Ids, purchases'[j].state # "none",
                      purchases'[j].account = purchases'[k].account,
                      purchases'[j].key = purchases'[k].key
               PROVE  j = k
    BY DEF Shop!OneOrderPerKey
  <2>1. \A m \in Ids : m # i => ~(purchases[m].account = a /\ purchases[m].key = key)
    BY <1>3 DEF Shop!Repeated
  <2> QED  BY <1>8, <2>1 DEF OrdersAreSound, Shop!OneOrderPerKey
<1> QED  BY <1>7, <1>10, <1>11, <1>12, <1>13, ShopTypes DEF OrdersAreSound

(* What a thread knows of the delivery it holds.                           *)
LEMMA HeldIs ==
    ASSUME OrdersAreSound, NEW t \in Threads, NEW i, i = shopTick[t].id,
           shopTick[t].pc # "idle"
    PROVE  /\ i \in Ids /\ deliveries[i] \in Deliveries /\ purchases[i] \in Orders
           /\ deliveries[i].status = "processing" /\ deliveries[i].token = t
           /\ purchases[i].state = "queued" /\ game[i] \in Nat /\ game[i] <= purchases[i].quantity
           /\ shopTick[t].pc = "check" => game[i] = 0
           /\ \A u \in Threads : u # t /\ shopTick[u].pc # "idle" => shopTick[u].id # i
<1>1. ShopTyped /\ TickHolds(t) /\ i \in Ids
  BY ShopTypes DEF OrdersAreSound, TickHolds
<1>2. OrderIsPlaced(i) /\ deliveries[i].status = "processing" /\ deliveries[i].token = t
  BY <1>1 DEF OrdersAreSound, TickHolds, Shop!Holds
<1>3. purchases[i] \in Orders /\ deliveries[i] \in Deliveries /\ game[i] \in Nat
  BY <1>1 DEF ShopTyped
<1>4. purchases[i].state = "queued"
  BY <1>2, <1>3 DEF OrderIsPlaced, Orders
<1>5. \A u \in Threads : u # t /\ shopTick[u].pc # "idle" => shopTick[u].id # i
  BY <1>2 DEF OrdersAreSound, TickHolds, Shop!Holds
<1> QED  BY <1>1, <1>2, <1>3, <1>4, <1>5 DEF TickHolds, OrderIsPlaced

(* A refund, for an order that is still queued. *)
LEMMA RefundIs ==
    ASSUME ShopTyped, ShopConstants, NEW i \in Ids, purchases[i].state = "queued",
           purchases[i].account \in Buyers, Shop!Refund(i)
    PROVE  /\ IF purchases[i].total = 0 THEN UNCHANGED <<wallet, ledger>>
              ELSE Shop!Post(purchases[i].account, purchases[i].total, "refund", i)
           /\ offer' = Shop!Restocked(purchases[i].quantity)
           /\ offer' \in Offers /\ offer'.version = offer.version
           /\ purchases' = [purchases EXCEPT ![i].state = "refunded"]
           /\ receipts' = receipts => MoneyTyped'
<1>1. purchases[i].total \in Nat /\ purchases[i].quantity \in Nat
  BY OrderIs DEF ShopTyped
<1>2. /\ IF purchases[i].total = 0 THEN UNCHANGED <<wallet, ledger>>
         ELSE Shop!Post(purchases[i].account, purchases[i].total, "refund", i)
      /\ offer' = Shop!Restocked(purchases[i].quantity)
      /\ purchases' = [purchases EXCEPT ![i].state = "refunded"]
  BY DEF Shop!Refund, Shop!RefundOf, Shop!Returned
<1>3. ASSUME receipts' = receipts PROVE MoneyTyped'
  <2>1. CASE purchases[i].total = 0
    BY <1>2, <1>3, <2>1 DEF ShopTyped, MoneyTyped
  <2>2. CASE purchases[i].total # 0
    <3>1. purchases[i].total \in Int \ {0}
      BY <1>1, <2>2
    <3> QED  BY <1>2, <1>3, <2>2, <3>1, PostTyped DEF ShopTyped, MoneyTyped
  <2> QED  BY <2>1, <2>2
<1>4. offer' \in Offers /\ offer'.version = offer.version
  <2>1. CASE offer.stock = None
    BY <1>2, <2>1 DEF ShopTyped, Shop!Restocked
  <2>2. CASE offer.stock # None
    <3>1. offer.stock + purchases[i].quantity \in Nat
      BY <1>1, <2>2 DEF ShopTyped, Offers
    <3> QED  BY <1>2, <2>2, <3>1 DEF ShopTyped, Offers, Shop!Restocked
  <2> QED  BY <2>1, <2>2
<1> QED  BY <1>2, <1>3, <1>4

(* The steps of a tick that settle its delivery. *)
LEMMA SettleStep ==
    ASSUME OrdersAreSound, NEW t \in Threads,
           \/ Shop!Release(t) \/ Shop!FailDefinitively(t) \/ Shop!GrantRaises(t)
           \/ Shop!Complete(t)
    PROVE  OrdersAreSound'
<1>i. PICK i : i = shopTick[t].id
  OBVIOUS
<1>1. ShopTyped /\ ShopConstants
  BY ShopTypes, ShopConstantsHold DEF OrdersAreSound
<1>2. shopTick[t].pc # "idle"
  BY DEF Shop!Release, Shop!FailDefinitively, Shop!GrantRaises, Shop!Complete
<1>3. /\ i \in Ids /\ deliveries[i] \in Deliveries /\ purchases[i] \in Orders
      /\ deliveries[i].status = "processing" /\ deliveries[i].token = t
      /\ purchases[i].state = "queued" /\ game[i] \in Nat /\ game[i] <= purchases[i].quantity
      /\ shopTick[t].pc = "check" => game[i] = 0
      /\ \A u \in Threads : u # t /\ shopTick[u].pc # "idle" => shopTick[u].id # i
  BY <1>i, <1>2, HeldIs
<1>4. purchases[i].account \in Buyers /\ purchases[i].quantity \in Nat
  BY <1>1, <1>3, OrderIs DEF OrdersAreSound, OrderIsPlaced
<1>5. ASSUME NEW s \in {"queued", "delivered", "refunded"},
             NEW status \in {"retry", "failed", "reconciliation", "delivered"}, NEW g \in Nat,
             Shop!Settle(i, status), Shop!EndTick(t),
             purchases' = [purchases EXCEPT ![i].state = s],
             game' = [game EXCEPT ![i] = g], g <= purchases[i].quantity,
             status = "retry" => g = 0,
             s = "delivered" <=> status = "delivered", s = "refunded" <=> status = "failed",
             s = "refunded" => g = 0, s = "delivered" => g = purchases[i].quantity,
             MoneyTyped', offer' \in Offers, offer'.version = offer.version,
             UNCHANGED <<queue, resolved>>
      PROVE  OrdersAreSound'
  <2> DEFINE d == [status |-> status, token |-> None]
  <2>1. d \in Deliveries /\ d.status = status /\ deliveries' = [deliveries EXCEPT ![i] = d]
    BY <1>5 DEF Deliveries, Shop!Settle
  <2> HIDE DEF d
  <2>2. shopTick' \in [Threads -> ShopTicks] /\ shopTick'[t].pc = "idle"
        /\ \A u \in Threads : u # t => shopTick'[u] = shopTick[u]
    BY <1>1, <1>5 DEF ShopTyped, ShopTicks, Shop!EndTick, Shop!NoTick
  <2>3. \A u \in Threads :
           \/ TickHolds(u)'
           \/ shopTick'[u] = shopTick[u] /\ (shopTick[u].pc # "idle" => shopTick[u].id # i)
    BY <1>3, <2>2 DEF TickHolds
  <2>4. resolved' \subseteq Ids /\ resolved \subseteq resolved'
    BY <1>1, <1>5 DEF ShopTyped
  <2> QED  BY <1>3, <1>5, <2>1, <2>2, <2>3, <2>4, OrderMoves
<1>6. /\ purchases = [purchases EXCEPT ![i].state = "queued"]
      /\ game = [game EXCEPT ![i] = game[i]]
  BY <1>1, <1>3 DEF ShopTyped, Orders
<1>7. UNCHANGED <<wallet, ledger, receipts>> => MoneyTyped'
  BY <1>1 DEF ShopTyped, MoneyTyped
<1>8. offer \in Offers
  BY <1>1 DEF ShopTyped
<1>9. CASE Shop!Release(t)
  <2>1. /\ Shop!Settle(i, "retry") /\ Shop!EndTick(t) /\ game[i] = 0
        /\ UNCHANGED <<wallet, ledger, receipts, offer, purchases, queue, game, resolved>>
    BY <1>3, <1>9, <1>i DEF Shop!Release
  <2> QED  BY <1>3, <1>5, <1>6, <1>7, <1>8, <2>1
<1>10. CASE Shop!FailDefinitively(t)
  <2>1. /\ Shop!Refund(i) /\ Shop!Settle(i, "failed") /\ Shop!EndTick(t) /\ game[i] = 0
        /\ UNCHANGED <<receipts, queue, game, resolved>>
    BY <1>3, <1>10, <1>i DEF Shop!FailDefinitively
  <2>2. /\ offer' \in Offers /\ offer'.version = offer.version /\ MoneyTyped'
        /\ purchases' = [purchases EXCEPT ![i].state = "refunded"]
    BY <1>1, <1>3, <1>4, <2>1, RefundIs
  <2> QED  BY <1>3, <1>5, <1>6, <2>1, <2>2
<1>11. CASE Shop!GrantRaises(t)
  <2>1. /\ Shop!Settle(i, "reconciliation") /\ Shop!EndTick(t) /\ game[i] < purchases[i].quantity
        /\ UNCHANGED <<wallet, ledger, receipts, offer, purchases, queue, resolved>>
        /\ \E n \in {0, 1} : game' = [game EXCEPT ![i] = @ + n]
    BY <1>11, <1>i DEF Shop!GrantRaises
  <2>2. PICK n \in {0, 1} : game' = [game EXCEPT ![i] = @ + n]
    BY <2>1
  <2>3. game[i] + n \in Nat /\ game[i] + n <= purchases[i].quantity
        /\ game' = [game EXCEPT ![i] = game[i] + n]
    <3>1. n = 0 \/ n = 1
      OBVIOUS
    <3>2. game[i] + n \in Nat /\ game[i] + n <= purchases[i].quantity
      BY <1>3, <1>4, <2>1, <3>1
    <3> QED  BY <2>2, <3>2
  <2> QED  BY <1>3, <1>5, <1>6, <1>7, <1>8, <2>1, <2>3
<1>12. CASE Shop!Complete(t)
  <2>1. /\ Shop!Settle(i, "delivered") /\ Shop!EndTick(t) /\ game[i] = purchases[i].quantity
        /\ purchases' = [purchases EXCEPT ![i].state = "delivered"]
        /\ UNCHANGED <<wallet, ledger, receipts, offer, queue, game, resolved>>
    BY <1>12, <1>i DEF Shop!Complete
  <2> QED  BY <1>3, <1>5, <1>6, <1>7, <1>8, <2>1
<1> QED  BY <1>9, <1>10, <1>11, <1>12

LEMMA ClaimStep ==
    ASSUME OrdersAreSound, NEW t \in Threads, Shop!Claim(t)
    PROVE  OrdersAreSound'
<1>1. ShopTyped /\ ShopConstants
  BY ShopTypes, ShopConstantsHold DEF OrdersAreSound
<1>2. PICK k \in DOMAIN queue :
         /\ Shop!Claimable(queue[k])
         /\ deliveries' = [deliveries EXCEPT ![queue[k]] = [status |-> "processing", token |-> t]]
         /\ shopTick' = [shopTick EXCEPT ![t] = [pc |-> "check", id |-> queue[k]]]
  BY DEF Shop!Claim
<1>3. /\ shopTick[t].pc = "idle"
      /\ UNCHANGED <<wallet, ledger, receipts, offer, purchases, queue, game, resolved>>
  BY DEF Shop!Claim
<1>i. PICK i : i = queue[k]
  OBVIOUS
<1>4. /\ i \in Ids /\ deliveries[i].status \in {"queued", "retry"} /\ game[i] = 0
      /\ OrderIsPlaced(i) /\ purchases[i] \in Orders
  BY <1>1, <1>2, <1>i DEF ShopTyped, Shop!Claimable, OrdersAreSound, OrderIsPlaced
<1>5. purchases[i].state = "queued" /\ purchases[i].quantity \in Nat
  BY <1>1, <1>4, OrderIs DEF OrderIsPlaced
<1>s. PICK s \in {"queued", "delivered", "refunded"} : s = "queued"
  OBVIOUS
<1>g. PICK g \in Nat : g = 0
  OBVIOUS
<1>6. /\ purchases' = [purchases EXCEPT ![i].state = s]
      /\ game' = [game EXCEPT ![i] = g] /\ g <= purchases[i].quantity
  BY <1>1, <1>3, <1>4, <1>5, <1>s, <1>g DEF ShopTyped, Orders
<1> DEFINE d == [status |-> "processing", token |-> t]
<1>7. d \in Deliveries /\ d.status = "processing" /\ d.token = t
      /\ deliveries' = [deliveries EXCEPT ![i] = d]
  BY <1>2, <1>i DEF Deliveries
<1> HIDE DEF d
<1>8. /\ shopTick' \in [Threads -> ShopTicks]
      /\ shopTick'[t] = [pc |-> "check", id |-> i]
      /\ \A u \in Threads : u # t => shopTick'[u] = shopTick[u]
  BY <1>1, <1>2, <1>4, <1>i DEF ShopTyped, ShopTicks
<1>9. MoneyTyped' /\ offer' \in Offers /\ offer'.version = offer.version
      /\ resolved \subseteq resolved' /\ resolved' \subseteq Ids
  BY <1>1, <1>3 DEF ShopTyped, MoneyTyped
<1>10. TickHolds(t)'
  <2>1. deliveries'[i] = d /\ game'[i] = 0
    BY <1>1, <1>3, <1>4, <1>7 DEF ShopTyped
  <2> QED  BY <1>4, <1>7, <1>8, <2>1 DEF TickHolds, Shop!Holds
<1>11. \A u \in Threads : u # t /\ shopTick[u].pc # "idle" => shopTick[u].id # i
  BY <1>4 DEF OrdersAreSound, TickHolds, Shop!Holds
<1>12. \A u \in Threads :
           \/ TickHolds(u)'
           \/ shopTick'[u] = shopTick[u] /\ (shopTick[u].pc # "idle" => shopTick[u].id # i)
  BY <1>8, <1>10, <1>11
<1> QED  BY <1>3, <1>4, <1>5, <1>6, <1>7, <1>8, <1>9, <1>12, <1>s, <1>g, OrderMoves

LEMMA GrantStep ==
    ASSUME OrdersAreSound, NEW t \in Threads, Shop!Grant(t)
    PROVE  OrdersAreSound'
<1>i. PICK i : i = shopTick[t].id
  OBVIOUS
<1>1. ShopTyped /\ ShopConstants
  BY ShopTypes, ShopConstantsHold DEF OrdersAreSound
<1>2. /\ shopTick[t].pc = "grant" /\ game[i] < purchases[i].quantity
      /\ game' = [game EXCEPT ![i] = @ + 1]
      /\ UNCHANGED <<wallet, ledger, receipts, offer, purchases, deliveries, queue, shopTick,
                     resolved>>
  BY <1>i DEF Shop!Grant
<1>3. /\ i \in Ids /\ deliveries[i] \in Deliveries /\ purchases[i] \in Orders
      /\ deliveries[i].status = "processing" /\ deliveries[i].token = t
      /\ purchases[i].state = "queued" /\ game[i] \in Nat
      /\ \A u \in Threads : u # t /\ shopTick[u].pc # "idle" => shopTick[u].id # i
  BY <1>i, <1>2, HeldIs
<1>4. purchases[i].quantity \in Nat
  BY <1>3, OrderIs
<1>s. PICK s \in {"queued", "delivered", "refunded"} : s = "queued"
  OBVIOUS
<1>d. PICK d \in Deliveries : d = deliveries[i]
  BY <1>3
<1>g. PICK g \in Nat : g = game[i] + 1
  BY <1>3
<1>5. /\ purchases' = [purchases EXCEPT ![i].state = s]
      /\ deliveries' = [deliveries EXCEPT ![i] = d]
      /\ game' = [game EXCEPT ![i] = g] /\ g <= purchases[i].quantity
  BY <1>1, <1>2, <1>3, <1>4, <1>s, <1>d, <1>g DEF ShopTyped, Orders
<1>6. MoneyTyped' /\ offer' \in Offers /\ offer'.version = offer.version
      /\ resolved \subseteq resolved' /\ resolved' \subseteq Ids
      /\ shopTick' \in [Threads -> ShopTicks]
  BY <1>1, <1>2 DEF ShopTyped, MoneyTyped
<1>t. /\ s # "delivered" /\ s # "refunded"
      /\ d.status \notin {"queued", "retry", "delivered", "failed", "none"}
  BY <1>3, <1>s, <1>d
<1>7. TickHolds(t)'
  BY <1>2, <1>3, <1>i DEF TickHolds, Shop!Holds
<1>8. \A u \in Threads :
           \/ TickHolds(u)'
           \/ shopTick'[u] = shopTick[u] /\ (shopTick[u].pc # "idle" => shopTick[u].id # i)
  BY <1>2, <1>3, <1>7
<1>9. i \in Ids /\ purchases[i].state # "none" /\ queue' = queue
  BY <1>2, <1>3
<1> QED  BY <1>5, <1>6, <1>8, <1>9, <1>t, OrderMoves

LEMMA ResolveStep ==
    ASSUME OrdersAreSound, NEW i \in Ids, NEW delivered \in BOOLEAN,
           Shop!Resolve(i, delivered)
    PROVE  OrdersAreSound'
<1>1. ShopTyped /\ ShopConstants /\ OrderIsPlaced(i)
  BY ShopTypes, ShopConstantsHold DEF OrdersAreSound
<1>2. /\ purchases[i] \in Orders /\ game[i] \in Nat
      /\ deliveries[i].status = "reconciliation"
  BY <1>1 DEF ShopTyped, Shop!Resolve, Shop!Undecided
<1>3. /\ purchases[i].state = "queued" /\ purchases[i].account \in Buyers
      /\ game[i] <= purchases[i].quantity
  BY <1>1, <1>2 DEF OrderIsPlaced, Orders
<1>4. ASSUME NEW s \in {"delivered", "refunded"}, NEW status \in {"delivered", "failed"},
             s = "delivered" <=> status = "delivered", s = "refunded" <=> status = "failed",
             Shop!Settle(i, status), purchases' = [purchases EXCEPT ![i].state = s],
             MoneyTyped', offer' \in Offers, offer'.version = offer.version
      PROVE  OrdersAreSound'
  <2> DEFINE d == [status |-> status, token |-> None]
  <2>1. d \in Deliveries /\ d.status = status /\ deliveries' = [deliveries EXCEPT ![i] = d]
    BY <1>4 DEF Deliveries, Shop!Settle
  <2> HIDE DEF d
  <2>2. /\ resolved' = resolved \cup {i}
        /\ UNCHANGED <<receipts, queue, shopTick, game>>
    BY DEF Shop!Resolve
  <2>3. /\ resolved' \subseteq Ids /\ resolved \subseteq resolved' /\ i \in resolved'
        /\ game' = [game EXCEPT ![i] = game[i]] /\ shopTick' \in [Threads -> ShopTicks]
    BY <1>1, <2>2 DEF ShopTyped
  <2>4. \A u \in Threads : shopTick[u].pc # "idle" => shopTick[u].id # i
    BY <1>2 DEF OrdersAreSound, TickHolds, Shop!Holds
  <2>g. PICK g : g = game[i]
    OBVIOUS
  <2>5. /\ g \in Nat /\ g <= purchases[i].quantity /\ game' = [game EXCEPT ![i] = g]
        /\ purchases[i].state # "none" /\ queue' = queue /\ shopTick' = shopTick
    BY <1>2, <1>3, <2>2, <2>3, <2>g
  <2>6. /\ s \in {"queued", "delivered", "refunded"} /\ d.status \notin {"none", "queued", "retry"}
        /\ s = "delivered" <=> d.status = "delivered"
        /\ s = "refunded" <=> d.status = "failed"
    BY <1>4, <2>1
  <2>7. /\ MoneyTyped' /\ offer' \in Offers /\ offer'.version = offer.version
        /\ purchases' = [purchases EXCEPT ![i].state = s]
    BY <1>4
  <2>8. \A u \in Threads :
           \/ TickHolds(u)'
           \/ shopTick'[u] = shopTick[u] /\ (shopTick[u].pc # "idle" => shopTick[u].id # i)
    BY <2>4, <2>5
  <2>9. /\ d.status \in {"queued", "retry"} => g = 0
        /\ i \notin resolved' => /\ s = "refunded" => g = 0
                                 /\ s = "delivered" => g = purchases[i].quantity
        /\ d.status # "none" /\ resolved \subseteq resolved' /\ resolved' \subseteq Ids
        /\ shopTick' \in [Threads -> ShopTicks]
    BY <1>1, <2>3, <2>6 DEF ShopTyped
  <2> QED  BY <2>1, <2>5, <2>6, <2>7, <2>8, <2>9, OrderMoves
<1>5. CASE delivered
  <2>1. /\ purchases' = [purchases EXCEPT ![i].state = "delivered"]
        /\ Shop!Settle(i, "delivered") /\ UNCHANGED <<wallet, ledger, offer, receipts>>
    BY <1>5 DEF Shop!Resolve
  <2>2. MoneyTyped' /\ offer' \in Offers /\ offer'.version = offer.version
    BY <1>1, <2>1 DEF ShopTyped, MoneyTyped
  <2> QED  BY <1>4, <2>1, <2>2
<1>6. CASE ~delivered
  <2>1. Shop!Refund(i) /\ Shop!Settle(i, "failed") /\ receipts' = receipts
    BY <1>6 DEF Shop!Resolve
  <2>2. /\ offer' \in Offers /\ offer'.version = offer.version /\ MoneyTyped'
        /\ purchases' = [purchases EXCEPT ![i].state = "refunded"]
    BY <1>1, <1>3, <2>1, RefundIs
  <2> QED  BY <1>4, <2>1, <2>2
<1> QED  BY <1>5, <1>6

LEMMA OrdersStep ==
    ASSUME OrdersAreSound, [LedgersNext]_allVars
    PROVE  OrdersAreSound'
<1>1. ShopTyped /\ ShopConstants
  BY ShopTypes, ShopConstantsHold DEF OrdersAreSound
<1>2. /\ MoneyTyped /\ offer \in Offers /\ shopTick \in [Threads -> ShopTicks]
      /\ offer.version \in Nat
  BY <1>1, OfferIs DEF ShopTyped
<1>3. CASE UNCHANGED shopVars
  BY <1>2, <1>3, OrdersUntouched DEF shopVars, MoneyTyped
<1>4. CASE Shop!Next
  <2>1. ASSUME NEW t \in Threads, Shop!Preflight(t) PROVE OrdersAreSound'
    <3>1. /\ shopTick' = [shopTick EXCEPT ![t].pc = "grant"] /\ shopTick[t].pc = "check"
          /\ UNCHANGED <<wallet, ledger, receipts, offer, purchases, deliveries, queue, game,
                         resolved>>
      BY <2>1 DEF Shop!Preflight
    <3>2. shopTick' \in [Threads -> ShopTicks] /\ MoneyTyped'
      BY <1>2, <3>1 DEF ShopTicks, MoneyTyped
    <3>3. \A u \in Threads :
              \/ shopTick'[u] = shopTick[u]
              \/ shopTick'[u].pc = "grant" /\ shopTick'[u].id = shopTick[u].id
                   /\ shopTick[u].pc # "idle"
      BY <1>2, <3>1 DEF ShopTicks
    <3> QED  BY <1>2, <3>1, <3>2, <3>3, OrdersUntouched
  <2>2. ASSUME NEW t \in Threads, Shop!Abandon(t) PROVE OrdersAreSound'
    <3>1. /\ shopTick' = [shopTick EXCEPT ![t] = Shop!NoTick]
          /\ UNCHANGED <<wallet, ledger, receipts, offer, purchases, deliveries, queue, game,
                         resolved>>
      BY <2>2 DEF Shop!Abandon, Shop!EndTick
    <3>2. shopTick' \in [Threads -> ShopTicks] /\ MoneyTyped'
      BY <1>2, <3>1 DEF ShopTicks, MoneyTyped, Shop!NoTick
    <3>3. \A u \in Threads : shopTick'[u] = shopTick[u] \/ shopTick'[u].pc = "idle"
      BY <1>2, <3>1 DEF Shop!NoTick
    <3> QED  BY <1>2, <3>1, <3>2, <3>3, OrdersUntouched
  <2>3. CASE Shop!Restart
    <3>1. /\ shopTick' = [t \in Threads |-> Shop!NoTick]
          /\ UNCHANGED <<wallet, ledger, receipts, offer, purchases, deliveries, queue, game,
                         resolved>>
      BY <2>3 DEF Shop!Restart
    <3>2. shopTick' \in [Threads -> ShopTicks] /\ MoneyTyped'
      BY <1>2, <3>1 DEF ShopTicks, MoneyTyped, Shop!NoTick
    <3>3. \A u \in Threads : shopTick'[u].pc = "idle"
      BY <3>1 DEF Shop!NoTick
    <3> QED  BY <1>2, <3>1, <3>2, <3>3, OrdersUntouched
  <2>4. ASSUME NEW a \in Buyers, NEW amount \in Amounts, NEW ref, Shop!Credit(a, amount, ref)
        PROVE  OrdersAreSound'
    <3>1. /\ Shop!Post(a, amount, "credit", ref) /\ amount \in Int \ {0}
          /\ UNCHANGED <<receipts, offer, purchases, deliveries, queue, shopTick, game, resolved>>
      BY <1>1, <2>4 DEF Shop!Credit, Shop!shop, ShopConstants
    <3>2. MoneyTyped'
      BY <1>2, <3>1, PostTyped DEF MoneyTyped
    <3> QED  BY <1>2, <3>1, <3>2, OrdersUntouched
  <2>5. ASSUME NEW a \in Buyers, NEW amount \in Amounts, NEW e \in WebhookIds,
               Shop!Webhook(a, amount, e)
        PROVE  OrdersAreSound'
    <3>1. /\ Shop!Post(a, amount, "webhook", e) /\ amount \in Int \ {0}
          /\ receipts' = [receipts EXCEPT ![e] = [account |-> a, amount |-> amount]]
          /\ UNCHANGED <<offer, purchases, deliveries, queue, shopTick, game, resolved>>
      BY <1>1, <2>5 DEF Shop!Webhook, Shop!shop, ShopConstants
    <3>2. MoneyTyped'
      <4>1. receipts' \in [WebhookIds -> [account : Buyers \cup {None}, amount : Amounts \cup {0}]]
        BY <1>2, <3>1 DEF MoneyTyped
      <4> QED  BY <1>2, <3>1, <4>1, PostTyped DEF MoneyTyped
    <3> QED  BY <1>2, <3>1, <3>2, OrdersUntouched
  <2>6. ASSUME NEW v \in 1..MaxVersion, NEW p \in Prices, NEW s \in Stocks, NEW b \in BOOLEAN,
               Shop!Sync(v, p, s, b)
        PROVE  OrdersAreSound'
    <3>1. /\ v \in offer.version..MaxVersion
          /\ offer' = IF v = offer.version
                      THEN [offer EXCEPT !.price = p, !.enabled = b]
                      ELSE [version |-> v, price |-> p, stock |-> s, enabled |-> b, supply |-> s]
          /\ UNCHANGED <<wallet, ledger, receipts, purchases, deliveries, queue, shopTick, game,
                         resolved>>
      BY <2>6 DEF Shop!Sync
    <3>2. offer' \in Offers /\ offer.version <= offer'.version
      <4>1. CASE v = offer.version
        <5>1. offer' = [offer EXCEPT !.price = p, !.enabled = b]
          BY <3>1, <4>1
        <5>2. offer' \in Offers /\ offer'.version = offer.version
          BY <1>2, <5>1 DEF Offers
        <5> QED  BY <1>2, <5>2
      <4>2. CASE v # offer.version
        <5>1. s \in Nat \cup {None}
          BY <1>1 DEF ShopConstants
        <5> QED  BY <1>2, <3>1, <4>2, <5>1 DEF Offers
      <4> QED  BY <4>1, <4>2
    <3>3. MoneyTyped'
      BY <1>2, <3>1 DEF MoneyTyped
    <3> QED  BY <1>2, <3>1, <3>2, <3>3, OrdersUntouched
  <2>7. CASE Shop!Delist
    <3>1. /\ offer' = [offer EXCEPT !.enabled = FALSE]
          /\ UNCHANGED <<wallet, ledger, receipts, purchases, deliveries, queue, shopTick, game,
                         resolved>>
      BY <2>7 DEF Shop!Delist
    <3>2. offer' \in Offers /\ offer'.version = offer.version
      BY <1>2, <3>1 DEF Offers
    <3>3. MoneyTyped'
      BY <1>2, <3>1 DEF MoneyTyped
    <3> QED  BY <1>2, <3>1, <3>2, <3>3, OrdersUntouched
  <2>8. ASSUME NEW t \in Threads, Shop!Tick(t) PROVE OrdersAreSound'
    BY <2>1, <2>2, <2>8, ClaimStep, SettleStep, GrantStep DEF Shop!Tick
  <2> QED
    BY <1>4, <2>3, <2>4, <2>5, <2>6, <2>7, <2>8, PurchaseStep, ResolveStep DEF Shop!Next
<1> QED
  BY <1>3, <1>4 DEF LedgersNext, RunLedger, RunShop, RunPlay, RunEngage, allVars

-----------------------------------------------------------------------------
Books == FinitelyMany /\ WalletsBalance /\ StockBalances

(* Only placed orders are in the sums. *)
LEMMA SumsAreFinite ==
    ASSUME OrdersAreSound, FinitelyMany
    PROVE  /\ ShopTyped
           /\ \A a \in Buyers : IsFiniteSet(OrdersOf(a)) /\ IsFiniteSet(CreditsOf(a))
           /\ IsFiniteSet(SoldNow) /\ IsFiniteSet(BackFromOlder)
           /\ \A a \in Buyers : Spent(a) \in Nat /\ Credited(a) \in Nat
           /\ Pieces(SoldNow) \in Nat /\ Pieces(BackFromOlder) \in Nat
<1>1. ShopTyped
  BY ShopTypes DEF OrdersAreSound
<1>2. \A i \in Ids : purchases[i].total \in Nat /\ purchases[i].quantity \in Nat
  BY <1>1, OrderIs DEF ShopTyped
<1>3. ASSUME NEW a \in Buyers PROVE OrdersOf(a) \subseteq Placed
  BY ShopConstantsHold DEF OrdersAreSound, OrderIsPlaced, OrdersOf, Placed, Shop!NoPurchase,
     ShopConstants
<1>4. SoldNow \subseteq Placed
  <2>1. offer.version \in 1..MaxVersion
    BY <1>1, OfferIs DEF ShopTyped
  <2>2. offer.version # 0
    BY <2>1, ShopConstantsHold DEF ShopConstants
  <2> QED  BY <2>2 DEF OrdersAreSound, OrderIsPlaced, SoldNow, Placed, Shop!NoPurchase
<1>5. BackFromOlder \subseteq Placed
  BY DEF BackFromOlder, Placed
<1>6. ASSUME NEW a \in Buyers PROVE IsFiniteSet(OrdersOf(a)) /\ IsFiniteSet(CreditsOf(a))
  <2>1. CreditsOf(a) \subseteq ledger
    BY DEF CreditsOf
  <2> QED  BY <1>3, <2>1, FS_Subset DEF FinitelyMany
<1>7. IsFiniteSet(SoldNow) /\ IsFiniteSet(BackFromOlder)
  BY <1>4, <1>5, FS_Subset DEF FinitelyMany
<1>8. ASSUME NEW a \in Buyers PROVE Spent(a) \in Nat /\ Credited(a) \in Nat
  <2>1. \A i \in OrdersOf(a) : [j \in Ids |-> purchases[j].total][i] \in Nat
    BY <1>2 DEF OrdersOf
  <2>2. \A e \in CreditsOf(a) : [f \in CreditsOf(a) |-> f.delta][e] \in Nat
    BY DEF FinitelyMany, CreditsOf
  <2> QED  BY <1>6, <2>1, <2>2, UnitsType DEF Spent, Credited
<1>9. Pieces(SoldNow) \in Nat /\ Pieces(BackFromOlder) \in Nat
  <2>1. \A i \in Ids : [j \in Ids |-> purchases[j].quantity][i] \in Nat
    BY <1>2
  <2> QED  BY <1>7, <2>1, UnitsType DEF Pieces, SoldNow, BackFromOlder
<1> QED  BY <1>1, <1>6, <1>7, <1>8, <1>9

(* The sums read nothing else. *)
LEMMA BooksUntouched ==
    ASSUME Books, UNCHANGED <<wallet, ledger, purchases>>,
           offer'.stock = offer.stock, offer'.version = offer.version,
           offer'.supply = offer.supply
    PROVE  Books'
<1>1. /\ \A a : CreditsOf(a)' = CreditsOf(a) /\ OrdersOf(a)' = OrdersOf(a)
      /\ SoldNow' = SoldNow /\ BackFromOlder' = BackFromOlder /\ Placed' = Placed
  BY DEF CreditsOf, OrdersOf, SoldNow, BackFromOlder, Placed
<1>2. /\ \A a : Credited(a)' = Credited(a) /\ Spent(a)' = Spent(a)
      /\ \A S : Pieces(S)' = Pieces(S)
  BY <1>1 DEF Credited, Spent, Pieces
<1> QED  BY <1>1, <1>2 DEF Books, FinitelyMany, WalletsBalance, StockBalances

(* What a credit adds to the sums. *)
LEMMA CreditBooks ==
    ASSUME OrdersAreSound, Books, NEW a \in Buyers, NEW d \in Nat \ {0},
           NEW kind \in {"credit", "webhook"}, NEW ref, Shop!Post(a, d, kind, ref),
           UNCHANGED <<offer, purchases>>
    PROVE  Books'
<1>e. PICK e : e = [account |-> a, delta |-> d, kind |-> kind, ref |-> ref]
  OBVIOUS
<1>1. /\ e \notin ledger /\ ledger' = ledger \cup {e} /\ wallet' = [wallet EXCEPT ![a] = @ + d]
      /\ e.account = a /\ e.delta = d /\ e.kind = kind
  BY <1>e DEF Shop!Post, Shop!Posted
<1>2. /\ ShopTyped /\ \A b \in Buyers : IsFiniteSet(CreditsOf(b))
      /\ \A b \in Buyers : Spent(b) \in Nat /\ Credited(b) \in Nat
  BY SumsAreFinite DEF Books
<1>3. FinitelyMany'
  <2>1. IsFiniteSet(ledger \cup {e})
    BY FS_AddElement DEF Books, FinitelyMany
  <2>2. Placed' = Placed
    BY DEF Placed
  <2> QED  BY <1>1, <2>1, <2>2 DEF Books, FinitelyMany
<1>4. \A b \in Buyers : Spent(b)' = Spent(b)
  BY DEF Spent, OrdersOf
<1>5. ASSUME NEW b \in Buyers, b # a PROVE Credited(b)' = Credited(b) /\ wallet'[b] = wallet[b]
  <2>1. CreditsOf(b)' = CreditsOf(b)
    BY <1>1, <1>5 DEF CreditsOf
  <2> QED  BY <1>1, <1>2, <1>5, <2>1 DEF Credited, ShopTyped, MoneyTyped
<1>6. Credited(a)' = Credited(a) + d
  <2>1. CreditsOf(a)' = CreditsOf(a) \cup {e} /\ e \notin CreditsOf(a)
    BY <1>1 DEF CreditsOf
  <2> DEFINE S == CreditsOf(a)
             f == [c \in S |-> c.delta]
             g == [c \in S \cup {e} |-> c.delta]
  <2>2. Credited(a)' = Total(g, S \cup {e})
    BY <2>1 DEF Credited
  <2>3. /\ \A c \in S \cup {e} : g[c] \in Nat
        /\ \A c \in S : g[c] = f[c]
        /\ g[e] = d
    BY <1>1 DEF Books, FinitelyMany, CreditsOf
  <2>4. IsFiniteSet(S) /\ e \notin S /\ Credited(a) = Total(f, S)
    BY <1>2, <2>1 DEF Credited
  <2> HIDE DEF S, f, g
  <2>5. Total(g, S \cup {e}) = Total(g, S) + g[e]
    BY <2>3, <2>4, TotalOfOneMore
  <2>6. Total(g, S) = Total(f, S)
    BY <2>3, TotalAgrees
  <2> QED  BY <2>2, <2>3, <2>4, <2>5, <2>6
<1>7. WalletsBalance'
  <2> SUFFICES ASSUME NEW b \in Buyers PROVE wallet'[b] = Credited(b)' - Spent(b)'
    BY DEF WalletsBalance
  <2>1. wallet[b] = Credited(b) - Spent(b) /\ wallet[b] \in Nat
    BY <1>2 DEF Books, WalletsBalance, ShopTyped, MoneyTyped
  <2>2. CASE b # a
    BY <1>4, <1>5, <2>1, <2>2
  <2>3. CASE b = a
    <3>1. wallet'[a] = wallet[a] + d
      BY <1>1, <1>2 DEF ShopTyped, MoneyTyped
    <3> QED  BY <1>2, <1>4, <1>6, <2>1, <2>3, <3>1
  <2> QED  BY <2>2, <2>3
<1>8. StockBalances'
  BY DEF Books, StockBalances, SoldNow, BackFromOlder, Pieces
<1> QED  BY <1>3, <1>7, <1>8 DEF Books

(* A debit and a refund are no credits. *)
LEMMA NoCredit ==
    ASSUME NEW a, NEW d, NEW kind \in {"purchase", "refund"}, NEW ref,
           UNCHANGED <<wallet, ledger>> \/ Shop!Post(a, d, kind, ref)
    PROVE  /\ \A b : Credited(b)' = Credited(b)
           /\ IsFiniteSet(ledger) => IsFiniteSet(ledger')
           /\ \A e \in ledger' : e.kind \in {"credit", "webhook"} => e \in ledger
<1>e. PICK e : e = [account |-> a, delta |-> d, kind |-> kind, ref |-> ref]
  OBVIOUS
<1>1. e.kind \notin {"credit", "webhook"} /\ (ledger' = ledger \/ ledger' = ledger \cup {e})
  BY <1>e DEF Shop!Post
<1>2. \A b : CreditsOf(b)' = CreditsOf(b)
  BY <1>1 DEF CreditsOf
<1>3. IsFiniteSet(ledger) => IsFiniteSet(ledger \cup {e})
  BY FS_AddElement
<1>4. \A b : Credited(b)' = Credited(b)
  BY <1>2 DEF Credited
<1>5. IsFiniteSet(ledger) => IsFiniteSet(ledger')
  BY <1>1, <1>3
<1> QED  BY <1>1, <1>4, <1>5

(* What an order that is placed adds to the sums. *)
LEMMA PurchaseBooks ==
    ASSUME OrdersAreSound, OrdersAreSound', Books,
           NEW i \in Ids, NEW a \in Buyers, NEW n \in Quantities, NEW key \in Keys,
           Shop!Purchase(i, a, n, key)
    PROVE  Books'
<1>p. PICK total : total = offer.price * n
  OBVIOUS
<1>r. PICK r : r = [state |-> "queued", account |-> a, version |-> offer.version,
                    quantity |-> n, total |-> total, key |-> key]
  OBVIOUS
<1>1. /\ ShopTyped /\ ShopTyped' /\ ShopConstants
      /\ \A b \in Buyers : IsFiniteSet(OrdersOf(b))
      /\ IsFiniteSet(SoldNow)
      /\ \A b \in Buyers : Spent(b) \in Nat /\ Credited(b) \in Nat
      /\ Pieces(SoldNow) \in Nat /\ Pieces(BackFromOlder) \in Nat
  BY SumsAreFinite, ShopTypes, ShopConstantsHold DEF Books, OrdersAreSound
<1>2. /\ purchases[i] = Shop!NoPurchase
      /\ IF total = 0 THEN UNCHANGED <<wallet, ledger>>
         ELSE Shop!Post(a, - total, "purchase", i)
      /\ offer' = Shop!Restocked(- n)
      /\ purchases' = [purchases EXCEPT ![i] = r]
  BY <1>p, <1>r DEF Shop!Purchase
<1>3. /\ offer.version \in Nat /\ offer.version # 0 /\ offer.price \in Nat
      /\ n \in Nat /\ total \in Nat
  <2>1. offer.version \in 1..MaxVersion /\ offer.price \in Nat
    BY <1>1, OfferIs DEF ShopTyped
  <2>2. n \in Nat /\ offer.version \in Nat /\ offer.version # 0
    BY <1>1, <2>1 DEF ShopConstants
  <2> QED  BY <1>p, <2>1, <2>2, Products
<1>4. /\ \A j \in Ids : j # i => purchases'[j] = purchases[j]
      /\ purchases'[i] = r
      /\ r.state = "queued" /\ r.account = a /\ r.version = offer.version
      /\ r.quantity = n /\ r.total = total
      /\ purchases[i].state = "none" /\ purchases[i].account = None
      /\ purchases[i].version = 0 /\ None \notin Buyers
  BY <1>1, <1>2, <1>r DEF ShopTyped, ShopConstants, Shop!NoPurchase
<1>5. \A j \in Ids : /\ purchases'[j].total \in Nat /\ purchases'[j].quantity \in Nat
                     /\ purchases[j].total \in Nat /\ purchases[j].quantity \in Nat
  BY <1>1, OrderIs DEF ShopTyped
<1>6. /\ \A b \in Buyers : Credited(b)' = Credited(b)
      /\ IsFiniteSet(ledger')
      /\ \A e \in ledger' : e.kind \in {"credit", "webhook"} => e \in ledger
  <2>1. UNCHANGED <<wallet, ledger>> \/ Shop!Post(a, - total, "purchase", i)
    BY <1>2
  <2> QED  BY <2>1, NoCredit DEF Books, FinitelyMany
<1>7. FinitelyMany'
  <2>1. Placed' = Placed \cup {i}
    BY <1>4 DEF Placed
  <2>2. IsFiniteSet(Placed \cup {i})
    BY FS_AddElement DEF Books, FinitelyMany
  <2> QED  BY <1>6, <2>1, <2>2 DEF Books, FinitelyMany
<1> DEFINE T == [j \in Ids |-> purchases[j].total]
           U == [j \in Ids |-> purchases'[j].total]
           Q == [j \in Ids |-> purchases[j].quantity]
           V == [j \in Ids |-> purchases'[j].quantity]
<1>8. ASSUME NEW b \in Buyers, b # a PROVE Spent(b)' = Spent(b)
  <2>1. OrdersOf(b)' = OrdersOf(b) /\ i \notin OrdersOf(b) /\ OrdersOf(b) \subseteq Ids
    BY <1>4, <1>8 DEF OrdersOf
  <2>2. \A j \in OrdersOf(b) : U[j] = T[j]
    BY <1>4, <2>1
  <2>3. Total(U, OrdersOf(b)) = Total(T, OrdersOf(b))
    <3> HIDE DEF T, U
    <3> QED  BY <2>2, TotalAgrees
  <2> QED  BY <2>1, <2>3 DEF Spent
<1>9. Spent(a)' = Spent(a) + total
  <2>1. /\ OrdersOf(a)' = OrdersOf(a) \cup {i} /\ i \notin OrdersOf(a)
        /\ OrdersOf(a) \subseteq Ids
    BY <1>4 DEF OrdersOf
  <2> DEFINE S == OrdersOf(a)
  <2>2. Spent(a)' = Total(U, S \cup {i}) /\ Spent(a) = Total(T, S) /\ IsFiniteSet(S)
    BY <1>1, <2>1 DEF Spent
  <2>3. /\ \A j \in S \cup {i} : U[j] \in Nat
        /\ \A j \in S : U[j] = T[j]
        /\ U[i] = total
    BY <1>4, <1>5, <2>1
  <2> HIDE DEF S, T, U
  <2>4. Total(U, S \cup {i}) = Total(U, S) + U[i]
    BY <2>1, <2>2, <2>3, TotalOfOneMore DEF S
  <2>5. Total(U, S) = Total(T, S)
    BY <2>3, TotalAgrees
  <2> QED  BY <2>2, <2>3, <2>4, <2>5
<1>10. WalletsBalance'
  <2> SUFFICES ASSUME NEW b \in Buyers PROVE wallet'[b] = Credited(b)' - Spent(b)'
    BY DEF WalletsBalance
  <2>1. wallet[b] = Credited(b) - Spent(b) /\ wallet \in [Buyers -> Nat] /\ wallet[b] \in Nat
    BY <1>1 DEF Books, WalletsBalance, ShopTyped, MoneyTyped
  <2>2. wallet'[b] = IF b = a THEN wallet[b] - total ELSE wallet[b]
    <3>1. CASE total = 0
      BY <1>2, <2>1, <3>1
    <3>2. CASE total # 0
      <4>1. wallet' = [wallet EXCEPT ![a] = @ + (- total)]
        BY <1>2, <3>2 DEF Shop!Post
      <4> QED  BY <1>3, <2>1, <4>1
    <3> QED  BY <3>1, <3>2
  <2>3. CASE b # a
    BY <1>6, <1>8, <2>1, <2>2, <2>3
  <2>4. CASE b = a
    BY <1>1, <1>3, <1>6, <1>9, <2>1, <2>2, <2>4
  <2> QED  BY <2>3, <2>4
<1>11. /\ offer'.version = offer.version /\ offer'.supply = offer.supply
       /\ offer.stock = None => offer'.stock = None
       /\ offer.stock # None =>
            offer.stock \in Nat /\ offer'.stock = offer.stock - n /\ offer'.stock \in Nat
  <2>1. offer \in Offers /\ offer' \in Offers
    BY <1>1 DEF ShopTyped
  <2>2. CASE offer.stock = None
    BY <1>2, <2>2 DEF Shop!Restocked
  <2>3. CASE offer.stock # None
    <3>1. offer.stock \in Nat /\ offer' = [offer EXCEPT !.stock = @ + (- n)]
      BY <1>2, <2>1, <2>3, OfferIs DEF Shop!Restocked
    <3>2. offer.stock + (- n) = offer.stock - n /\ offer.stock >= n
      BY <1>3, <2>3, <3>1 DEF Shop!Purchase, Shop!InStock
    <3> QED  BY <1>3, <2>1, <2>3, <3>1, <3>2 DEF Offers
  <2> QED  BY <2>2, <2>3
<1>12. Pieces(SoldNow)' = Pieces(SoldNow) + n
  <2>1. /\ SoldNow' = SoldNow \cup {i} /\ i \notin SoldNow /\ SoldNow \subseteq Ids
    BY <1>3, <1>4, <1>11 DEF SoldNow
  <2> DEFINE S == SoldNow
  <2>2. Pieces(SoldNow)' = Total(V, S \cup {i}) /\ Pieces(SoldNow) = Total(Q, S) /\ IsFiniteSet(S)
    BY <1>1, <2>1 DEF Pieces
  <2>3. /\ \A j \in S \cup {i} : V[j] \in Nat
        /\ \A j \in S : V[j] = Q[j]
        /\ V[i] = n
    BY <1>4, <1>5, <2>1
  <2> HIDE DEF S, Q, V
  <2>4. Total(V, S \cup {i}) = Total(V, S) + V[i]
    BY <2>1, <2>2, <2>3, TotalOfOneMore DEF S
  <2>5. Total(V, S) = Total(Q, S)
    BY <2>3, TotalAgrees
  <2> QED  BY <2>2, <2>3, <2>4, <2>5
<1>13. Pieces(BackFromOlder)' = Pieces(BackFromOlder)
  <2>1. /\ BackFromOlder' = BackFromOlder /\ i \notin BackFromOlder /\ BackFromOlder \subseteq Ids
    BY <1>4, <1>11 DEF BackFromOlder
  <2>2. \A j \in BackFromOlder : V[j] = Q[j]
    BY <1>4, <2>1
  <2>3. Total(V, BackFromOlder) = Total(Q, BackFromOlder)
    <3> HIDE DEF V, Q
    <3> QED  BY <2>2, TotalAgrees
  <2> QED  BY <2>1, <2>3 DEF Pieces
<1>14. StockBalances'
  <2> SUFFICES ASSUME offer'.stock # None
               PROVE  /\ offer'.supply \in Nat /\ offer'.supply <= offer'.stock + Pieces(SoldNow)'
                      /\ offer'.stock + Pieces(SoldNow)' <= offer'.supply + Pieces(BackFromOlder)'
    BY DEF StockBalances
  <2>1. /\ offer.stock \in Nat /\ offer'.stock = offer.stock - n /\ offer.supply \in Nat
        /\ offer.supply <= offer.stock + Pieces(SoldNow)
        /\ offer.stock + Pieces(SoldNow) <= offer.supply + Pieces(BackFromOlder)
    BY <1>11 DEF Books, StockBalances
  <2>2. offer'.stock + Pieces(SoldNow)' = offer.stock + Pieces(SoldNow)
    BY <1>1, <1>3, <1>12, <2>1
  <2> QED  BY <1>11, <1>13, <2>1, <2>2
<1> QED  BY <1>7, <1>10, <1>14 DEF Books

(* An order leaves the sums, or a state of it that they do not see. *)
LEMMA OutcomeBooks ==
    ASSUME OrdersAreSound, OrdersAreSound', Books, NEW i \in Ids,
           purchases[i].state = "queued",
           \/ /\ purchases' = [purchases EXCEPT ![i].state = "delivered"]
              /\ UNCHANGED <<wallet, ledger, offer>>
           \/ Shop!Refund(i)
    PROVE  Books'
<1>1. /\ ShopTyped /\ ShopTyped' /\ ShopConstants
      /\ \A b \in Buyers : IsFiniteSet(OrdersOf(b))
      /\ IsFiniteSet(SoldNow) /\ IsFiniteSet(BackFromOlder)
      /\ \A b \in Buyers : Spent(b) \in Nat /\ Credited(b) \in Nat
      /\ Pieces(SoldNow) \in Nat /\ Pieces(BackFromOlder) \in Nat
  BY SumsAreFinite, ShopTypes, ShopConstantsHold DEF Books, OrdersAreSound
<1>a. PICK a : a = purchases[i].account
  OBVIOUS
<1>t. PICK total : total = purchases[i].total
  OBVIOUS
<1>n. PICK n : n = purchases[i].quantity
  OBVIOUS
<1>2. a \in Buyers /\ total \in Nat /\ n \in Nat /\ purchases[i] \in Orders
      /\ purchases[i].version <= offer.version
  <2>1. purchases[i] \in Orders /\ offer.version \in Nat
    BY <1>1, OfferIs DEF ShopTyped
  <2> QED  BY <1>a, <1>t, <1>n, <2>1, OrderIs DEF OrdersAreSound, OrderIsPlaced
<1>3. ASSUME NEW s, purchases' = [purchases EXCEPT ![i].state = s]
      PROVE  /\ \A j \in Ids : j # i => purchases'[j] = purchases[j]
             /\ purchases'[i].state = s
             /\ \A j \in Ids : /\ purchases'[j].account = purchases[j].account
                               /\ purchases'[j].version = purchases[j].version
                               /\ purchases'[j].total = purchases[j].total
                               /\ purchases'[j].quantity = purchases[j].quantity
  BY <1>1, <1>3 DEF ShopTyped, Orders
<1>4. CASE /\ purchases' = [purchases EXCEPT ![i].state = "delivered"]
           /\ UNCHANGED <<wallet, ledger, offer>>
  <2>1. /\ \A j \in Ids : j # i => purchases'[j] = purchases[j]
        /\ purchases'[i].state = "delivered"
        /\ \A j \in Ids : /\ purchases'[j].account = purchases[j].account
                          /\ purchases'[j].version = purchases[j].version
                          /\ purchases'[j].total = purchases[j].total
                          /\ purchases'[j].quantity = purchases[j].quantity
    BY <1>3, <1>4
  <2>2. /\ \A b : CreditsOf(b)' = CreditsOf(b) /\ OrdersOf(b)' = OrdersOf(b)
        /\ SoldNow' = SoldNow /\ BackFromOlder' = BackFromOlder /\ Placed' = Placed
    BY <1>4, <2>1 DEF CreditsOf, OrdersOf, SoldNow, BackFromOlder, Placed
  <2>3. /\ \A b : Credited(b)' = Credited(b) /\ Spent(b)' = Spent(b)
        /\ Pieces(SoldNow)' = Pieces(SoldNow) /\ Pieces(BackFromOlder)' = Pieces(BackFromOlder)
    BY <2>1, <2>2 DEF Credited, Spent, Pieces
  <2> QED  BY <1>4, <2>2, <2>3 DEF Books, FinitelyMany, WalletsBalance, StockBalances
<1>5. CASE Shop!Refund(i)
  <2>0. /\ IF total = 0 THEN UNCHANGED <<wallet, ledger>>
           ELSE Shop!Post(a, total, "refund", i)
        /\ offer' = Shop!Restocked(n)
        /\ purchases' = [purchases EXCEPT ![i].state = "refunded"]
    BY <1>1, <1>2, <1>5, <1>a, <1>t, <1>n, RefundIs
  <2>1. /\ \A j \in Ids : j # i => purchases'[j] = purchases[j]
        /\ purchases'[i].state = "refunded"
        /\ \A j \in Ids : /\ purchases'[j].account = purchases[j].account
                          /\ purchases'[j].version = purchases[j].version
                          /\ purchases'[j].total = purchases[j].total
                          /\ purchases'[j].quantity = purchases[j].quantity
    BY <1>3, <2>0
  <2>2. \A j \in Ids : purchases[j].total \in Nat /\ purchases[j].quantity \in Nat
    BY <1>1, OrderIs DEF ShopTyped
  <2>3. /\ \A b \in Buyers : Credited(b)' = Credited(b)
        /\ IsFiniteSet(ledger')
        /\ \A e \in ledger' : e.kind \in {"credit", "webhook"} => e \in ledger
    <3>1. UNCHANGED <<wallet, ledger>> \/ Shop!Post(a, total, "refund", i)
      BY <2>0
    <3> QED  BY <3>1, NoCredit DEF Books, FinitelyMany
  <2>4. FinitelyMany'
    <3>1. Placed' = Placed
      BY <2>1 DEF Placed
    <3> QED  BY <2>3, <3>1 DEF Books, FinitelyMany
  <2> DEFINE T == [j \in Ids |-> purchases[j].total]
             Q == [j \in Ids |-> purchases[j].quantity]
  <2>5. /\ \A b : Spent(b)' = Total(T, OrdersOf(b)') /\ Spent(b) = Total(T, OrdersOf(b))
        /\ Pieces(SoldNow)' = Total(Q, SoldNow') /\ Pieces(SoldNow) = Total(Q, SoldNow)
        /\ Pieces(BackFromOlder)' = Total(Q, BackFromOlder')
        /\ Pieces(BackFromOlder) = Total(Q, BackFromOlder)
    BY <2>1 DEF Spent, Pieces
  <2>6. \A j \in Ids : T[j] \in Nat /\ Q[j] \in Nat
    BY <2>2
  <2>7. T[i] = total /\ Q[i] = n
    BY <1>t, <1>n
  <2> HIDE DEF T, Q
  <2>8. ASSUME NEW b \in Buyers, b # a PROVE Spent(b)' = Spent(b)
    <3>1. OrdersOf(b)' = OrdersOf(b)
      BY <1>a, <2>1, <2>8 DEF OrdersOf
    <3> QED  BY <2>5, <3>1
  <2>9. Spent(a) = Spent(a)' + total
    <3>1. /\ OrdersOf(a) = OrdersOf(a)' \cup {i} /\ i \notin OrdersOf(a)'
          /\ OrdersOf(a)' \subseteq Ids
      BY <1>a, <2>1 DEF OrdersOf
    <3>2. IsFiniteSet(OrdersOf(a)')
      BY <1>1, <1>2, <3>1, FS_Subset
    <3> DEFINE S == OrdersOf(a)'
    <3>3. /\ IsFiniteSet(S) /\ i \notin S /\ \A j \in S \cup {i} : T[j] \in Nat
          /\ Spent(a) = Total(T, S \cup {i}) /\ Spent(a)' = Total(T, S)
      BY <2>5, <2>6, <3>1, <3>2
    <3> HIDE DEF S
    <3> QED  BY <2>7, <3>3, TotalOfOneMore
  <2>10. Spent(a)' \in Nat
    <3>1. IsFiniteSet(OrdersOf(a)') /\ OrdersOf(a)' \subseteq Ids
      <4>1. OrdersOf(a)' \subseteq OrdersOf(a)
        BY <2>1 DEF OrdersOf
      <4> QED  BY <1>1, <1>2, <4>1, FS_Subset DEF OrdersOf
    <3> QED  BY <2>5, <2>6, <3>1, UnitsType
  <2>11. WalletsBalance'
    <3> SUFFICES ASSUME NEW b \in Buyers PROVE wallet'[b] = Credited(b)' - Spent(b)'
      BY DEF WalletsBalance
    <3>1. wallet[b] = Credited(b) - Spent(b) /\ wallet \in [Buyers -> Nat] /\ wallet[b] \in Nat
      BY <1>1 DEF Books, WalletsBalance, ShopTyped, MoneyTyped
    <3>2. wallet'[b] = IF b = a THEN wallet[b] + total ELSE wallet[b]
      <4>1. CASE total = 0
        BY <2>0, <3>1, <4>1
      <4>2. CASE total # 0
        <5>1. wallet' = [wallet EXCEPT ![a] = @ + total]
          BY <2>0, <4>2 DEF Shop!Post
        <5> QED  BY <1>2, <3>1, <5>1
      <4> QED  BY <4>1, <4>2
    <3>3. CASE b # a
      BY <2>3, <2>8, <3>1, <3>2, <3>3
    <3>4. CASE b = a
      BY <1>1, <1>2, <2>3, <2>9, <2>10, <3>1, <3>2, <3>4
    <3> QED  BY <3>3, <3>4
  <2>12. /\ offer'.version = offer.version /\ offer'.supply = offer.supply
         /\ offer.stock = None => offer'.stock = None
         /\ offer.stock # None => offer.stock \in Nat /\ offer'.stock = offer.stock + n
    <3>1. offer \in Offers
      BY <1>1 DEF ShopTyped
    <3>2. CASE offer.stock = None
      BY <2>0, <3>2 DEF Shop!Restocked
    <3>3. CASE offer.stock # None
      <4>1. offer.stock \in Nat /\ offer' = [offer EXCEPT !.stock = @ + n]
        BY <2>0, <3>1, <3>3, OfferIs DEF Shop!Restocked
      <4> QED  BY <3>1, <4>1, <3>3 DEF Offers
    <3> QED  BY <3>2, <3>3
  <2>13. StockBalances'
    <3> SUFFICES ASSUME offer'.stock # None
                 PROVE  /\ offer'.supply \in Nat /\ offer'.supply <= offer'.stock + Pieces(SoldNow)'
                        /\ offer'.stock + Pieces(SoldNow)' <= offer'.supply + Pieces(BackFromOlder)'
      BY DEF StockBalances
    <3>1. /\ offer.stock \in Nat /\ offer'.stock = offer.stock + n /\ offer.supply \in Nat
          /\ offer.supply <= offer.stock + Pieces(SoldNow)
          /\ offer.stock + Pieces(SoldNow) <= offer.supply + Pieces(BackFromOlder)
      BY <2>12 DEF Books, StockBalances
    <3>v. offer.version \in Nat
      BY <1>1, OfferIs DEF ShopTyped
    <3>2. CASE purchases[i].version = offer.version
      <4>1. /\ SoldNow = SoldNow' \cup {i} /\ i \notin SoldNow' /\ SoldNow' \subseteq Ids
            /\ BackFromOlder' = BackFromOlder
        BY <2>1, <2>12, <3>2, <3>v DEF SoldNow, BackFromOlder
      <4>2. IsFiniteSet(SoldNow')
        BY <1>1, <4>1, FS_Subset
      <4> DEFINE S == SoldNow'
      <4>3. /\ IsFiniteSet(S) /\ i \notin S /\ \A j \in S \cup {i} : Q[j] \in Nat
            /\ Pieces(SoldNow) = Total(Q, S \cup {i}) /\ Pieces(SoldNow)' = Total(Q, S)
        BY <2>5, <2>6, <4>1, <4>2
      <4> HIDE DEF S
      <4>4. Pieces(SoldNow) = Pieces(SoldNow)' + n
        BY <2>7, <4>3, TotalOfOneMore
      <4>5. Pieces(SoldNow)' \in Nat
        BY <4>3, UnitsType
      <4>6. offer'.stock + Pieces(SoldNow)' = offer.stock + Pieces(SoldNow)
        BY <1>2, <3>1, <4>4, <4>5
      <4> QED  BY <2>5, <2>12, <3>1, <4>1, <4>6
    <3>3. CASE purchases[i].version # offer.version
      <4>0. purchases[i].version < offer.version
        <5>1. purchases[i].version \in Nat /\ offer.version \in Nat
          BY <1>1, <1>2, OrderIs, OfferIs DEF ShopTyped
        <5> QED  BY <1>2, <3>3, <5>1
      <4>1. /\ BackFromOlder' = BackFromOlder \cup {i} /\ i \notin BackFromOlder
            /\ BackFromOlder \subseteq Ids /\ SoldNow' = SoldNow
        BY <2>1, <2>12, <3>3, <4>0 DEF SoldNow, BackFromOlder
      <4> DEFINE S == BackFromOlder
      <4>2. /\ IsFiniteSet(S) /\ i \notin S /\ \A j \in S \cup {i} : Q[j] \in Nat
            /\ Pieces(BackFromOlder)' = Total(Q, S \cup {i}) /\ Pieces(BackFromOlder) = Total(Q, S)
        BY <1>1, <2>5, <2>6, <4>1
      <4> HIDE DEF S
      <4>3. Pieces(BackFromOlder)' = Pieces(BackFromOlder) + n
        BY <2>7, <4>2, TotalOfOneMore
      <4>4. Pieces(SoldNow)' = Pieces(SoldNow)
        BY <2>5, <4>1
      <4> QED  BY <1>1, <1>2, <2>12, <3>1, <4>3, <4>4
    <3> QED  BY <3>2, <3>3
  <2> QED  BY <2>4, <2>11, <2>13 DEF Books
<1> QED  BY <1>4, <1>5

LEMMA BooksInit == LedgersInit => Books
<1> SUFFICES ASSUME LedgersInit PROVE Books
  OBVIOUS
<1>1. Shop!Init /\ ShopConstants
  BY ShopConstantsHold DEF LedgersInit
<1>2. /\ ledger = {} /\ wallet = [a \in Buyers |-> 0]
      /\ purchases = [i \in Ids |-> Shop!NoPurchase]
      /\ offer.version = 1 /\ offer.stock = offer.supply /\ offer.stock \in Nat \cup {None}
  BY <1>1 DEF Shop!Init, ShopConstants
<1>3. /\ Placed = {} /\ SoldNow = {} /\ BackFromOlder = {}
      /\ \A a \in Buyers : CreditsOf(a) = {} /\ OrdersOf(a) = {}
  BY <1>1, <1>2
  DEF Placed, SoldNow, BackFromOlder, CreditsOf, OrdersOf, Shop!NoPurchase, ShopConstants
<1>4. FinitelyMany
  BY <1>2, <1>3, FS_EmptySet DEF FinitelyMany
<1>5. WalletsBalance
  <2>1. \A a \in Buyers : Credited(a) = 0 /\ Spent(a) = 0
    BY <1>3, TotalOfNone DEF Credited, Spent
  <2> QED  BY <1>2, <2>1 DEF WalletsBalance
<1>6. StockBalances
  <2>1. Pieces(SoldNow) = 0 /\ Pieces(BackFromOlder) = 0
    BY <1>3, TotalOfNone DEF Pieces
  <2> QED  BY <1>2, <2>1 DEF StockBalances
<1> QED  BY <1>4, <1>5, <1>6 DEF Books

(* No order is of a version that is still to come. *)
LEMMA VersionsAreOld ==
    ASSUME OrdersAreSound, NEW i \in Ids
    PROVE  /\ purchases[i].version \in Nat /\ offer.version \in Nat
           /\ purchases[i].version <= offer.version
<1>1. purchases[i] \in Orders /\ OrderIsPlaced(i) /\ offer \in Offers
  BY ShopTypes DEF ShopTyped, OrdersAreSound
<1>2. purchases[i].version \in Nat /\ offer.version \in Nat
  BY <1>1, OrderIs, OfferIs
<1>3. CASE purchases[i].state = "none"
  BY <1>1, <1>2, <1>3 DEF OrderIsPlaced, Shop!NoPurchase
<1>4. CASE purchases[i].state # "none"
  BY <1>1, <1>2, <1>4 DEF OrderIsPlaced
<1> QED  BY <1>2, <1>3, <1>4

(* A new version starts with the stock it is configured with. *)
LEMMA SyncBooks ==
    ASSUME OrdersAreSound, Books, NEW v \in 1..MaxVersion, NEW p \in Prices, NEW s \in Stocks,
           NEW b \in BOOLEAN, Shop!Sync(v, p, s, b)
    PROVE  Books'
<1>0. ShopTyped /\ ShopConstants /\ offer \in Offers /\ offer.version \in Nat
  BY ShopTypes, ShopConstantsHold, OfferIs DEF OrdersAreSound, ShopTyped
<1>1. /\ v \in offer.version..MaxVersion
      /\ offer' = IF v = offer.version
                  THEN [offer EXCEPT !.price = p, !.enabled = b]
                  ELSE [version |-> v, price |-> p, stock |-> s, enabled |-> b, supply |-> s]
      /\ UNCHANGED <<wallet, ledger, purchases>>
  BY DEF Shop!Sync
<1>2. CASE v = offer.version
  <2>1. offer' = [offer EXCEPT !.price = p, !.enabled = b]
    BY <1>1, <1>2
  <2>2. /\ offer'.stock = offer.stock /\ offer'.version = offer.version
        /\ offer'.supply = offer.supply
    BY <1>0, <2>1 DEF Offers
  <2> QED  BY <1>1, <2>2, BooksUntouched
<1>3. CASE v # offer.version
  <2>1. /\ offer'.version = v /\ offer'.stock = s /\ offer'.supply = s /\ v \in Nat
        /\ v > offer.version /\ s \in Nat \cup {None}
    <3>1. offer' = [version |-> v, price |-> p, stock |-> s, enabled |-> b, supply |-> s]
      BY <1>1, <1>3
    <3>2. s \in Nat \cup {None}
      BY <1>0 DEF ShopConstants
    <3> QED  BY <1>0, <1>1, <1>3, <3>1, <3>2
  <2>2. SoldNow' = {}
    <3>1. \A i \in Ids : purchases[i].version # v
      BY <2>1, VersionsAreOld
    <3> QED  BY <1>1, <2>1, <3>1 DEF SoldNow
  <2>3. Pieces(SoldNow)' = 0
    BY <2>2, TotalOfNone DEF Pieces
  <2>4. Pieces(BackFromOlder)' \in Nat
    <3>1. BackFromOlder' \subseteq Placed /\ BackFromOlder' \subseteq Ids
      BY <1>1 DEF BackFromOlder, Placed
    <3>2. IsFiniteSet(BackFromOlder')
      BY <3>1, FS_Subset DEF Books, FinitelyMany
    <3> DEFINE Q == [j \in Ids |-> purchases'[j].quantity]
    <3>3. \A j \in BackFromOlder' : Q[j] \in Nat
      BY <1>0, <1>1, <3>1, OrderIs DEF ShopTyped
    <3>4. Pieces(BackFromOlder)' = Total(Q, BackFromOlder')
      BY DEF Pieces
    <3> HIDE DEF Q
    <3> QED  BY <3>2, <3>3, <3>4, UnitsType
  <2>5. StockBalances'
    <3> SUFFICES ASSUME offer'.stock # None
                 PROVE  /\ offer'.supply \in Nat /\ offer'.supply <= offer'.stock + Pieces(SoldNow)'
                        /\ offer'.stock + Pieces(SoldNow)' <= offer'.supply + Pieces(BackFromOlder)'
      BY DEF StockBalances
    <3>1. s \in Nat
      BY <2>1
    <3> QED  BY <2>1, <2>3, <2>4, <3>1
  <2>6. FinitelyMany' /\ WalletsBalance'
    BY <1>1 DEF Books, FinitelyMany, Placed, WalletsBalance, Credited, CreditsOf, Spent, OrdersOf
  <2> QED  BY <2>5, <2>6 DEF Books
<1> QED  BY <1>2, <1>3

LEMMA BooksStep ==
    ASSUME OrdersAreSound, OrdersAreSound', Books, [LedgersNext]_allVars
    PROVE  Books'
<1>1. ShopTyped /\ ShopConstants /\ offer \in Offers
  BY ShopTypes, ShopConstantsHold DEF OrdersAreSound, ShopTyped
<1>2. ASSUME UNCHANGED <<wallet, ledger, purchases, offer>> PROVE Books'
  BY <1>2, BooksUntouched
<1>3. CASE UNCHANGED shopVars
  BY <1>2, <1>3 DEF shopVars
<1>4. CASE Shop!Next
  <2>1. ASSUME NEW t \in Threads, Shop!Tick(t) PROVE Books'
    <3>i. PICK i : i = shopTick[t].id
      OBVIOUS
    <3>1. CASE Shop!FailDefinitively(t) \/ Shop!Complete(t)
      <4>1. shopTick[t].pc # "idle"
        BY <3>1 DEF Shop!FailDefinitively, Shop!Complete
      <4>2. i \in Ids /\ purchases[i].state = "queued"
        BY <3>i, <4>1, HeldIs
      <4>3. \/ /\ purchases' = [purchases EXCEPT ![i].state = "delivered"]
               /\ UNCHANGED <<wallet, ledger, offer>>
            \/ Shop!Refund(i)
        BY <3>1, <3>i DEF Shop!FailDefinitively, Shop!Complete
      <4> QED  BY <4>2, <4>3, OutcomeBooks
    <3>2. CASE \/ Shop!Claim(t) \/ Shop!Release(t) \/ Shop!Preflight(t) \/ Shop!Grant(t)
               \/ Shop!GrantRaises(t) \/ Shop!Abandon(t)
      <4>1. UNCHANGED <<wallet, ledger, purchases, offer>>
        BY <3>2 DEF Shop!Claim, Shop!Release, Shop!Preflight, Shop!Grant, Shop!GrantRaises,
           Shop!Abandon
      <4> QED  BY <1>2, <4>1
    <3> QED  BY <2>1, <3>1, <3>2 DEF Shop!Tick
  <2>2. CASE Shop!Restart
    BY <1>2, <2>2 DEF Shop!Restart
  <2>3. ASSUME NEW a \in Buyers, NEW amount \in Amounts, NEW ref, Shop!Credit(a, amount, ref)
        PROVE  Books'
    <3>1. /\ amount \in Nat \ {0} /\ Shop!Post(a, amount, "credit", ref)
          /\ UNCHANGED <<offer, purchases>>
      BY <1>1, <2>3 DEF Shop!Credit, Shop!shop, ShopConstants
    <3> QED  BY <3>1, CreditBooks
  <2>4. ASSUME NEW a \in Buyers, NEW amount \in Amounts, NEW e \in WebhookIds,
               Shop!Webhook(a, amount, e)
        PROVE  Books'
    <3>1. /\ amount \in Nat \ {0} /\ Shop!Post(a, amount, "webhook", e)
          /\ UNCHANGED <<offer, purchases>>
      BY <1>1, <2>4 DEF Shop!Webhook, Shop!shop, ShopConstants
    <3> QED  BY <3>1, CreditBooks
  <2>5. CASE Shop!Delist
    <3>1. /\ offer' = [offer EXCEPT !.enabled = FALSE]
          /\ UNCHANGED <<wallet, ledger, purchases>>
      BY <2>5 DEF Shop!Delist
    <3>2. /\ offer'.stock = offer.stock /\ offer'.version = offer.version
          /\ offer'.supply = offer.supply
      BY <1>1, <3>1 DEF Offers
    <3> QED  BY <3>1, <3>2, BooksUntouched
  <2>6. ASSUME NEW i \in Ids, NEW delivered \in BOOLEAN, Shop!Resolve(i, delivered)
        PROVE  Books'
    <3>1. purchases[i].state = "queued"
      <4>1. purchases[i] \in Orders /\ OrderIsPlaced(i) /\ deliveries[i].status = "reconciliation"
        BY <1>1, <2>6 DEF ShopTyped, OrdersAreSound, Shop!Resolve, Shop!Undecided
      <4>2. purchases[i].state \in {"none", "queued", "delivered", "refunded"}
        BY <4>1, OrderIs
      <4> QED  BY <4>1, <4>2 DEF OrderIsPlaced
    <3>2. \/ /\ purchases' = [purchases EXCEPT ![i].state = "delivered"]
             /\ UNCHANGED <<wallet, ledger, offer>>
          \/ Shop!Refund(i)
      BY <2>6 DEF Shop!Resolve
    <3> QED  BY <3>1, <3>2, OutcomeBooks
  <2> QED
    BY <1>4, <2>1, <2>2, <2>3, <2>4, <2>5, <2>6, PurchaseBooks, SyncBooks DEF Shop!Next
<1> QED
  BY <1>3, <1>4 DEF LedgersNext, RunLedger, RunShop, RunPlay, RunEngage, allVars

(* The sums of the shop's module are the sums of this one. *)
LEMMA ShopTotal == ASSUME NEW f, NEW S PROVE Shop!Total(f, S) = Total(f, S)
BY DEF Shop!Total, Total, Shop!Units, Units, Cardinality, Shop!Cardinality

LEMMA ShopInvMeans == ShopInv => ShopBooksBalance
<1> SUFFICES ASSUME ShopInv PROVE ShopBooksBalance
  OBVIOUS
<1>1. OrdersAreSound /\ Books
  BY DEF ShopInv, Books
<1>2. Shop!WalletTellsTheStory
  BY <1>1, ShopTotal
  DEF Books, WalletsBalance, Credited, CreditsOf, Spent, OrdersOf, Shop!WalletTellsTheStory
<1>3. Shop!StockIsAccountedFor
  <2> SUFFICES ASSUME offer.stock # None
               PROVE  offer.stock + Pieces(SoldNow)
                        \in offer.supply..(offer.supply + Pieces(BackFromOlder))
    BY ShopTotal DEF Pieces, SoldNow, BackFromOlder, Shop!StockIsAccountedFor
  <2>1. /\ ShopTyped /\ Pieces(SoldNow) \in Nat /\ Pieces(BackFromOlder) \in Nat
    BY <1>1, SumsAreFinite DEF Books
  <2>2. offer.stock \in Nat
    BY <2>1, OfferIs DEF ShopTyped
  <2> QED  BY <1>1, <2>1, <2>2 DEF Books, StockBalances
<1>4. Shop!OrderFollowsDelivery
  BY <1>1 DEF OrdersAreSound, OrderIsPlaced, TickHolds, Shop!OrderFollowsDelivery
<1> QED  BY <1>1, <1>2, <1>3, <1>4 DEF OrdersAreSound, ShopBooksBalance

(* Whatever threads tick, retry, fail and resolve: the wallet is the sum of *)
(* its ledger, stock is configured minus sold and not refunded, items are   *)
(* given for money and an order follows its delivery (purchase,             *)
(* claim_delivery, complete_delivery, fail_delivery,                        *)
(* resolve_reconciliation).                                                 *)
THEOREM LedgersBalanceTheShop == LedgersSpec => []ShopBooksBalance
<1>1. LedgersInit => ShopInv
  BY OrdersInit, BooksInit DEF ShopInv, Books
<1>2. ShopInv /\ [LedgersNext]_allVars => ShopInv'
  BY OrdersStep, BooksStep DEF ShopInv, Books
<1> QED  BY <1>1, <1>2, ShopInvMeans, PTL DEF LedgersSpec

-----------------------------------------------------------------------------
(***************************************************************************)
(* The engagement rewards.  The invariant ties the row of the last         *)
(* observation to the days, the weeks and the claims: the active seconds   *)
(* fit before the row, a streak is an unbroken run, and a session's claims *)
(* are the hours of its active seconds.                                    *)
(***************************************************************************)
(* The instance has its own names for the library's operators. *)
LEMMA SameExtremes ==
    ASSUME NEW S
    PROVE  Engage!Max(S) = Play!Max(S) /\ Engage!Min(S) = Play!Min(S)
BY DEF Engage!Max, Engage!Min, Play!Max, Play!Min

EngageConstants ==
    /\ Day \in Nat \ {0} /\ Week \in Nat \ {0} /\ Seconds \in Nat \ {0}
    /\ \A p \in Policies :
          /\ p.maxGap \in Nat \ {0} /\ p.grace \in Nat
          /\ p.hour \in Nat \ {0} /\ p.maxHours \in Nat
          /\ p.dayTiers \subseteq Nat \ {0} /\ p.weekGoals \subseteq Nat \ {0}
    /\ None \notin Places /\ None \notin Nat

LEMMA EngageConstantsHold == EngageConstants
<1> USE BooksAssumption DEF Engage!EngagementAssumption
<1>1. Day \in Nat \ {0} /\ Week \in Nat \ {0} /\ Seconds \in Nat \ {0}
  OBVIOUS
<1>2. ASSUME NEW p \in Policies
      PROVE  /\ p.maxGap \in Nat \ {0} /\ p.grace \in Nat
             /\ p.hour \in Nat \ {0} /\ p.maxHours \in Nat
             /\ p.dayTiers \subseteq Nat \ {0} /\ p.weekGoals \subseteq Nat \ {0}
  OBVIOUS
<1>3. None \notin Places /\ None \notin Nat
  OBVIOUS
<1> QED  BY <1>1, <1>2, <1>3 DEF EngageConstants

(* Days and weeks begin one after the other. *)
LEMMA Quotients ==
    ASSUME NEW x \in Nat, NEW y \in Nat, NEW n \in Nat \ {0}, x <= y
    PROVE  x \div n \in Nat /\ x \div n <= y \div n
<1>1. /\ x \div n \in Nat /\ y \div n \in Nat
      /\ x % n \in 0..(n - 1) /\ y % n \in 0..(n - 1)
  OBVIOUS
<1>2. x = n * (x \div n) + (x % n) /\ y = n * (y \div n) + (y % n)
  OBVIOUS
<1> DEFINE a == x \div n
           b == y \div n
           r == x % n
           s == y % n
<1>3. ASSUME a > b PROVE FALSE
  <2> HIDE DEF a, b, r, s
  <2>1. a \in Nat /\ b \in Nat /\ r \in Nat /\ s \in Nat /\ s < n /\ x = n * a + r /\ y = n * b + s
    BY <1>1, <1>2 DEF a, b, r, s
  <2>2. PICK k \in Nat : a = b + 1 + k
    <3>1. a - b - 1 \in Nat /\ a = b + 1 + (a - b - 1)
      BY <1>3, <2>1
    <3> QED  BY <3>1
  <2>3. n * a = n * b + n + n * k
    BY <2>1, <2>2
  <2>4. n * k \in Nat /\ n * b \in Nat /\ n * a \in Nat
    BY <2>1, <2>2
  <2> QED  BY <2>1, <2>3, <2>4
<1> QED  BY <1>1, <1>3

LEMMA HoursAre ==
    ASSUME policy \in Policies, NEW x \in Nat
    PROVE  /\ Engage!HoursOf(x) \in Nat /\ Engage!HoursOf(x) <= Engage!MaxHours
           /\ Engage!HoursOf(0) = 0
           /\ \A y \in Nat : x <= y => Engage!HoursOf(x) <= Engage!HoursOf(y)
           /\ Engage!MaxHours \in Nat
<1>h. PICK h : h = Engage!Hour
  OBVIOUS
<1>m. PICK m : m = Engage!MaxHours
  OBVIOUS
<1>1. h \in Nat \ {0} /\ m \in Nat
  BY <1>h, <1>m, EngageConstantsHold DEF EngageConstants, Engage!Hour, Engage!MaxHours
<1>2. ASSUME NEW y \in Nat
      PROVE  /\ y \div h \in Nat
             /\ Engage!HoursOf(y) = IF y \div h <= m THEN y \div h ELSE m
  <2> DEFINE q == y \div h
  <2>1. q \in Nat
    BY <1>1
  <2>2. Engage!HoursOf(y) = Play!Min({q, m})
    BY <1>h, <1>m, SameExtremes DEF Engage!HoursOf
  <2> HIDE DEF q
  <2>3. CASE q <= m
    <3>1. Play!Min({q, m}) = q
      BY <1>1, <2>1, <2>3, PlayMin
    <3> QED  BY <2>1, <2>2, <2>3, <3>1 DEF q
  <2>4. CASE ~(q <= m)
    <3>1. Play!Min({q, m}) = m
      BY <1>1, <2>1, <2>4, PlayMin
    <3> QED  BY <2>1, <2>2, <2>4, <3>1 DEF q
  <2> QED  BY <2>3, <2>4
<1>3. /\ Engage!HoursOf(x) \in Nat /\ Engage!HoursOf(x) <= m
  BY <1>1, <1>2
<1>4. Engage!HoursOf(0) = 0
  <2>1. 0 \div h = 0
    BY <1>1
  <2> QED  BY <1>1, <1>2, <2>1
<1>5. ASSUME NEW y \in Nat, x <= y PROVE Engage!HoursOf(x) <= Engage!HoursOf(y)
  <2>1. x \div h <= y \div h
    BY <1>1, <1>5, Quotients
  <2> QED  BY <1>1, <1>2, <2>1
<1> QED  BY <1>1, <1>3, <1>4, <1>5, <1>m

-----------------------------------------------------------------------------
(* The inductive invariant of the engagement rewards. *)
LastDay == Seconds \div Day
LastWeek == Seconds \div Week

Observations ==
    [pc : {"idle", "query", "observe"}, now : 0..Seconds, online : BOOLEAN,
     place : Places \cup {None}]

Checkpoints ==
    [at : {None} \cup 0..Seconds, online : BOOLEAN, place : Places \cup {None},
     moved : {None} \cup 0..Seconds, session : {None} \cup 0..Seconds,
     active : Nat, hours : Nat]

EngageTyped ==
    /\ policy \in Policies
    /\ dayClock \in 0..Seconds /\ place \in Places /\ online \in BOOLEAN
    /\ dayRow \in Checkpoints
    /\ days \in [0..LastDay -> [seconds : Nat, streak : Nat]]
    /\ weeks \in [0..LastWeek -> Nat]
    /\ dayTick \in [Threads -> Observations]
    /\ \A t \in Threads : dayTick[t].now <= dayClock
    /\ daySeen \subseteq 0..dayClock
    /\ \A c \in claims : c[1] \in Engage!Kinds

(* The row is the latest observation of all. *)
DayRowIsLatest ==
    /\ dayRow.at = None => daySeen = {} /\ dayRow = Engage!NoRow
    /\ dayRow.at # None => dayRow.at \in daySeen /\ \A x \in daySeen : x <= dayRow.at

DaysTotal == Total([d \in 0..LastDay |-> days[d].seconds], 0..LastDay)
WeeksTotal == Total(weeks, 0..LastWeek)

(* The active seconds fit between the first observation and the row. *)
DaysFitTheRow ==
    /\ DaysTotal = WeeksTotal
    /\ dayRow.at = None => DaysTotal = 0
    /\ dayRow.at # None =>
          \E first \in daySeen :
             (\A x \in daySeen : first <= x) /\ DaysTotal + first <= dayRow.at

(* The days up to d that are in H, without a break. *)
UnbrokenRun(H, d) == {e \in 0..d : \A x \in e..d : x \in H}
ActiveDays == {d \in 0..LastDay : Engage!HasRow(d)}

DaysAreRuns ==
    \A d \in 0..LastDay :
       /\ Engage!HasRow(d) <=> days[d].seconds > 0
       /\ Engage!HasRow(d) => /\ dayRow.at # None /\ d <= dayRow.at \div Day
                              /\ days[d].streak = Cardinality(UnbrokenRun(ActiveDays, d))

ClaimsOf(kind, period) == {c \in claims : c[1] = kind /\ c[2] = period}

DailyOf(d, streak) ==
    {<<"daily", d, Engage!Max(Engage!Tier(streak))>> :
        x \in {y \in Engage!Tier(streak) :
                  Engage!RepeatLast \/ Engage!Max(Engage!Tier(streak)) = streak}}

DailyClaims ==
    \A d \in 0..LastDay :
       ClaimsOf("daily", d) = IF Engage!HasRow(d) THEN DailyOf(d, days[d].streak) ELSE {}

WeeklyOf(w, n) == {<<"weekly", w, g>> : g \in {g \in Engage!WeekGoals : g <= n}}
WeeklyClaims == \A w \in 0..LastWeek : ClaimsOf("weekly", w) = WeeklyOf(w, weeks[w])

(* A session begins with an observation; its hours are those of its active  *)
(* seconds, and no later session has claims.                                *)
HourlyClaims ==
    /\ \A c \in claims : c[1] = "hourly" =>
          dayRow.at # None /\ c[2] \in Nat /\ c[2] <= dayRow.at
    /\ dayRow.online <=> dayRow.session # None
    /\ dayRow.session = None => dayRow.active = 0 /\ dayRow.hours = 0
    /\ dayRow.session # None =>
          /\ dayRow.at # None /\ dayRow.session + dayRow.active <= dayRow.at
          /\ dayRow.hours = Engage!HoursOf(dayRow.active)
          /\ ClaimsOf("hourly", dayRow.session)
                = Engage!HourlyGrants(dayRow.session, 0, dayRow.hours)

GrantsAreClaims ==
    /\ \A g \in grants : g[1] \in claims
    /\ \A g, h \in grants : g[1] = h[1] => g = h

EngageInv ==
    /\ EngageTyped /\ DayRowIsLatest /\ DaysFitTheRow /\ DaysAreRuns
    /\ DailyClaims /\ WeeklyClaims /\ HourlyClaims /\ GrantsAreClaims

LEMMA DaysAreFinite ==
    /\ LastDay \in Nat /\ LastWeek \in Nat
    /\ Engage!AllDays = 0..LastDay /\ Engage!AllWeeks = 0..LastWeek
    /\ IsFiniteSet(0..LastDay) /\ IsFiniteSet(0..LastWeek)
    /\ \A x \in 0..Seconds : /\ x \div Day \in 0..LastDay /\ x \div Week \in 0..LastWeek
                             /\ Engage!DayOf(x) = x \div Day /\ Engage!WeekOf(x) = x \div Week
<1>1. Seconds \in Nat /\ Day \in Nat \ {0} /\ Week \in Nat \ {0}
  BY EngageConstantsHold DEF EngageConstants
<1>2. LastDay \in Nat /\ LastWeek \in Nat
  BY <1>1, Quotients DEF LastDay, LastWeek
<1>3. Engage!AllDays = 0..LastDay /\ Engage!AllWeeks = 0..LastWeek
  BY DEF Engage!AllDays, Engage!AllWeeks, LastDay, LastWeek
<1>4. IsFiniteSet(0..LastDay) /\ IsFiniteSet(0..LastWeek)
  BY <1>2, FS_Interval
<1>5. ASSUME NEW x \in 0..Seconds
      PROVE  x \div Day \in 0..LastDay /\ x \div Week \in 0..LastWeek
  <2>1. x \in Nat /\ x <= Seconds
    BY <1>1
  <2>2. x \div Day \in Nat /\ x \div Day <= LastDay
    BY <1>1, <2>1, Quotients DEF LastDay
  <2>3. x \div Week \in Nat /\ x \div Week <= LastWeek
    BY <1>1, <2>1, Quotients DEF LastWeek
  <2> QED  BY <1>2, <2>2, <2>3
<1> QED  BY <1>2, <1>3, <1>4, <1>5 DEF Engage!DayOf, Engage!WeekOf

-----------------------------------------------------------------------------
(* A run of days. *)
LEMMA RunsGoOn ==
    ASSUME NEW H, NEW d \in Nat, d \in H
    PROVE  /\ IsFiniteSet(UnbrokenRun(H, d))
           /\ Cardinality(UnbrokenRun(H, d)) =
                 IF d > 0 /\ d - 1 \in H THEN Cardinality(UnbrokenRun(H, d - 1)) + 1 ELSE 1
           /\ Cardinality(UnbrokenRun(H, d)) \in Nat \ {0}
<1>1. \A k \in Nat : IsFiniteSet(UnbrokenRun(H, k)) /\ Cardinality(UnbrokenRun(H, k)) \in Nat
  <2> TAKE k \in Nat
  <2>1. IsFiniteSet(0..k) /\ UnbrokenRun(H, k) \subseteq 0..k
    BY FS_Interval DEF UnbrokenRun
  <2> QED  BY <2>1, FS_Subset, FS_CardinalityType
<1>2. CASE d > 0 /\ d - 1 \in H
  <2>1. UnbrokenRun(H, d) = UnbrokenRun(H, d - 1) \cup {d}
    <3>1. ASSUME NEW e \in UnbrokenRun(H, d), e # d PROVE e \in UnbrokenRun(H, d - 1)
      <4>1. e \in 0..d /\ \A x \in e..d : x \in H
        BY DEF UnbrokenRun
      <4>2. e \in 0..(d - 1) /\ \A x \in e..(d - 1) : x \in e..d
        BY <3>1, <4>1
      <4> QED  BY <4>1, <4>2 DEF UnbrokenRun
    <3>2. ASSUME NEW e \in UnbrokenRun(H, d - 1) PROVE e \in UnbrokenRun(H, d)
      <4>1. e \in 0..(d - 1) /\ \A x \in e..(d - 1) : x \in H
        BY DEF UnbrokenRun
      <4>2. e \in 0..d /\ \A x \in e..d : x = d \/ x \in e..(d - 1)
        BY <4>1
      <4> QED  BY <4>1, <4>2 DEF UnbrokenRun
    <3>3. d \in UnbrokenRun(H, d)
      <4>1. d \in 0..d /\ \A x \in d..d : x = d
        OBVIOUS
      <4> QED  BY <4>1 DEF UnbrokenRun
    <3> QED  BY <3>1, <3>2, <3>3
  <2>2. d \notin UnbrokenRun(H, d - 1)
    BY DEF UnbrokenRun
  <2>3. d - 1 \in Nat
    BY <1>2
  <2>4. Cardinality(UnbrokenRun(H, d - 1) \cup {d}) = Cardinality(UnbrokenRun(H, d - 1)) + 1
    BY <1>1, <2>2, <2>3, FS_AddElement
  <2>5. IsFiniteSet(UnbrokenRun(H, d)) /\ Cardinality(UnbrokenRun(H, d - 1)) \in Nat
    BY <1>1, <2>3
  <2>6. Cardinality(UnbrokenRun(H, d)) = Cardinality(UnbrokenRun(H, d - 1)) + 1
    BY <2>1, <2>4
  <2>7. Cardinality(UnbrokenRun(H, d)) \in Nat \ {0}
    BY <2>5, <2>6
  <2> QED  BY <1>2, <2>5, <2>6, <2>7
<1>3. CASE ~(d > 0 /\ d - 1 \in H)
  <2>1. UnbrokenRun(H, d) = {d}
    <3>1. d \in UnbrokenRun(H, d)
      <4>1. d \in 0..d /\ \A x \in d..d : x = d
        OBVIOUS
      <4> QED  BY <4>1 DEF UnbrokenRun
    <3>2. ASSUME NEW e \in UnbrokenRun(H, d), e # d PROVE FALSE
      <4>1. e \in 0..d /\ \A x \in e..d : x \in H
        BY DEF UnbrokenRun
      <4>2. d > 0 /\ d - 1 \in e..d
        BY <3>2, <4>1
      <4> QED  BY <1>3, <4>1, <4>2
    <3> QED  BY <3>1, <3>2
  <2>2. Cardinality({d}) = 1
    BY FS_Singleton
  <2> QED  BY <1>1, <1>3, <2>1, <2>2
<1> QED  BY <1>2, <1>3

LEMMA RunsAgree ==
    ASSUME NEW H, NEW G, NEW d \in Nat, \A x \in 0..d : x \in H <=> x \in G
    PROVE  UnbrokenRun(H, d) = UnbrokenRun(G, d)
<1>1. \A e \in 0..d : \A x \in e..d : x \in 0..d
  OBVIOUS
<1> QED  BY <1>1 DEF UnbrokenRun

-----------------------------------------------------------------------------
(* The invariant holds at the start. *)
LEMMA EngageInvInit == LedgersInit => EngageInv
<1> SUFFICES ASSUME LedgersInit PROVE EngageInv
  OBVIOUS
<1>1. /\ policy \in Policies /\ dayClock = 0 /\ online \in BOOLEAN /\ place \in Places
      /\ dayRow = Engage!NoRow
      /\ days = [d \in 0..LastDay |-> [seconds |-> 0, streak |-> 0]]
      /\ weeks = [w \in 0..LastWeek |-> 0]
      /\ claims = {} /\ grants = {}
      /\ dayTick = [t \in Threads |-> Engage!Idle] /\ daySeen = {}
  BY DaysAreFinite DEF LedgersInit, Engage!Init
<1>2. Seconds \in Nat /\ LastDay \in Nat /\ LastWeek \in Nat
  BY DaysAreFinite, EngageConstantsHold DEF EngageConstants
<1>3. Engage!Idle \in Observations /\ Engage!Idle.now = 0
  BY <1>2 DEF Engage!Idle, Observations
<1>4. Engage!NoRow \in Checkpoints
  BY <1>2 DEF Engage!NoRow, Checkpoints
<1>5. EngageTyped
  BY <1>1, <1>2, <1>3, <1>4 DEF EngageTyped
<1>6. DayRowIsLatest
  BY <1>1 DEF DayRowIsLatest, Engage!NoRow
<1>7. DaysFitTheRow
  <2>1. WeeksTotal = 0
    BY <1>1, TotalOfZeros DEF WeeksTotal
  <2>2. DaysTotal = 0
    BY <1>1, TotalOfZeros DEF DaysTotal
  <2> QED  BY <1>1, <2>1, <2>2 DEF DaysFitTheRow, Engage!NoRow
<1>8. \A d \in 0..LastDay : ~Engage!HasRow(d) /\ days[d].seconds = 0
  BY <1>1 DEF Engage!HasRow
<1>9. DaysAreRuns /\ DailyClaims
  BY <1>1, <1>8 DEF DaysAreRuns, DailyClaims, ClaimsOf
<1>10. WeeklyClaims
  <2>1. \A g \in Engage!WeekGoals : g \in Nat \ {0}
    BY <1>1, EngageConstantsHold DEF EngageConstants, Engage!WeekGoals
  <2>2. \A w \in 0..LastWeek : WeeklyOf(w, weeks[w]) = {}
    BY <1>1, <2>1 DEF WeeklyOf
  <2> QED  BY <1>1, <2>2 DEF WeeklyClaims, ClaimsOf
<1>11. HourlyClaims /\ GrantsAreClaims
  BY <1>1 DEF HourlyClaims, GrantsAreClaims, Engage!NoRow
<1> QED  BY <1>5, <1>6, <1>7, <1>9, <1>10, <1>11 DEF EngageInv

(* The steps that leave the store alone. *)
dayStore == <<policy, dayRow, days, weeks, claims, grants, daySeen>>

LEMMA StorelessStep ==
    ASSUME EngageInv, UNCHANGED dayStore, EngageTyped'
    PROVE  EngageInv'
<1>1. /\ policy' = policy /\ dayRow' = dayRow /\ days' = days /\ weeks' = weeks
      /\ claims' = claims /\ grants' = grants /\ daySeen' = daySeen
  BY DEF dayStore
<1>2. DayRowIsLatest' /\ GrantsAreClaims'
  BY <1>1 DEF EngageInv, DayRowIsLatest, GrantsAreClaims, Engage!NoRow
<1>3. DaysFitTheRow'
  BY <1>1 DEF EngageInv, DaysFitTheRow, DaysTotal, WeeksTotal
<1>4. DaysAreRuns'
  BY <1>1 DEF EngageInv, DaysAreRuns, ActiveDays, Engage!HasRow
<1>5. DailyClaims'
  BY <1>1 DEF EngageInv, DailyClaims, ClaimsOf, DailyOf, Engage!HasRow, Engage!Tier,
       Engage!DayTiers, Engage!RepeatLast
<1>6. WeeklyClaims'
  BY <1>1 DEF EngageInv, WeeklyClaims, ClaimsOf, WeeklyOf, Engage!WeekGoals
<1>7. HourlyClaims'
  BY <1>1 DEF EngageInv, HourlyClaims, ClaimsOf, Engage!HourlyGrants, Engage!HoursOf,
       Engage!Hour, Engage!MaxHours
<1> QED  BY <1>2, <1>3, <1>4, <1>5, <1>6, <1>7 DEF EngageInv

(* What an observation that is not an old one comes to. *)
LEMMA ActiveSecondsAre ==
    ASSUME EngageInv, NEW o \in Observations, dayRow.at # None, ~Engage!Replay(o)
    PROVE  /\ dayRow.at \in Nat /\ o.now \in Nat /\ o.now <= Seconds /\ dayRow.at < o.now
           /\ Engage!ActiveSeconds(o) \in Nat /\ Engage!ActiveSeconds(o) <= o.now - dayRow.at
           /\ Engage!ActiveSeconds(o) > 0 => Engage!Continuous(o)
           /\ Engage!Continuous(o) => o.online = TRUE /\ dayRow.session # None
           /\ Engage!LastMove(o) \in {None} \cup 0..Seconds
<1>c. Seconds \in Nat /\ Engage!ObservationGap \in Nat \ {0}
  BY EngageConstantsHold DEF EngageConstants, EngageInv, EngageTyped, Engage!ObservationGap
<1>1. /\ dayRow \in Checkpoints /\ o.now \in 0..Seconds /\ o.online \in BOOLEAN
      /\ dayRow.at \in 0..Seconds
  BY DEF EngageInv, EngageTyped, Observations, Checkpoints
<1>2. dayRow.at \in Nat /\ o.now \in Nat /\ o.now <= Seconds /\ dayRow.at < o.now
  BY <1>c, <1>1 DEF Engage!Replay
<1>3. Engage!LastMove(o) \in {None} \cup 0..Seconds
  BY <1>1 DEF Engage!LastMove, Checkpoints
<1>4. Engage!Continuous(o) => o.online = TRUE /\ dayRow.session # None
  BY <1>1 DEF Engage!Continuous, EngageInv, HourlyClaims, Checkpoints
<1>p. PICK p : p = o.now - dayRow.at
  OBVIOUS
<1>g. PICK g : g = Engage!ObservationGap
  OBVIOUS
<1>5. p \in Nat /\ g \in Nat
  BY <1>c, <1>2, <1>p, <1>g
<1>6. Engage!Min({p, g}) \in Nat /\ Engage!Min({p, g}) <= p
  <2>1. CASE p <= g
    <3>1. Play!Min({p, g}) = p
      BY <1>5, <2>1, PlayMin
    <3> QED  BY <1>5, <3>1, SameExtremes
  <2>2. CASE ~(p <= g)
    <3>1. Play!Min({p, g}) = g
      BY <1>5, <2>2, PlayMin
    <3> QED  BY <1>5, <2>2, <3>1, SameExtremes
  <2> QED  BY <2>1, <2>2
<1>m. PICK m : m = Engage!Min({p, g})
  OBVIOUS
<1>7. Engage!Max({0, m}) = m
  <2>1. m \in Nat
    BY <1>6, <1>m
  <2>2. Play!Max({0, m}) = m
    BY <2>1, PlayMax
  <2> QED  BY <2>2, SameExtremes
<1>8. Engage!ActiveSeconds(o) = 0 \/ (Engage!ActiveSeconds(o) = m /\ Engage!Continuous(o))
  BY <1>7, <1>p, <1>g, <1>m DEF Engage!ActiveSeconds
<1>9. /\ Engage!ActiveSeconds(o) \in Nat /\ Engage!ActiveSeconds(o) <= o.now - dayRow.at
      /\ Engage!ActiveSeconds(o) > 0 => Engage!Continuous(o)
  BY <1>2, <1>6, <1>8, <1>m, <1>p
<1> QED  BY <1>2, <1>3, <1>4, <1>9

-----------------------------------------------------------------------------
(* The rows of the days after active seconds. *)
LEMMA DaysAfterAre ==
    ASSUME EngageInv, NEW o \in Observations, NEW s \in Nat \ {0}, NEW d, d = o.now \div Day,
           NEW D, D = Engage!DaysAfter(o, s)
    PROVE  /\ d \in 0..LastDay
           /\ D \in [0..LastDay -> [seconds : Nat, streak : Nat]]
           /\ \A x \in (0..LastDay) \ {d} : D[x] = days[x]
           /\ D[d].seconds = days[d].seconds + s
           /\ D[d].streak = IF Engage!HasRow(d) THEN days[d].streak ELSE Engage!Streak(d)
           /\ Engage!Streak(d) \in Nat \ {0}
<1>1. o.now \in 0..Seconds
  BY DEF Observations
<1>2. d \in 0..LastDay /\ Engage!DayOf(o.now) = d
  BY <1>1, DaysAreFinite
<1>3. days \in [0..LastDay -> [seconds : Nat, streak : Nat]]
  BY DEF EngageInv, EngageTyped
<1>4. Engage!Streak(d) \in Nat \ {0}
  <2>1. CASE d = 0
    BY <2>1 DEF Engage!Streak
  <2>2. CASE d # 0
    <3>1. d - 1 \in 0..LastDay
      BY <1>2, <2>2, DaysAreFinite
    <3>2. days[d - 1].streak \in Nat
      BY <1>3, <3>1
    <3> QED  BY <2>2, <3>2 DEF Engage!Streak
  <2> QED  BY <2>1, <2>2
<1>5. D = [days EXCEPT ![d] =
              [seconds |-> days[d].seconds + s,
               streak |-> IF days[d].streak > 0 THEN days[d].streak ELSE Engage!Streak(d)]]
  BY <1>2 DEF Engage!DaysAfter
<1>6. days[d].seconds + s \in Nat /\ days[d].streak \in Nat
  BY <1>2, <1>3
<1> QED  BY <1>2, <1>3, <1>4, <1>5, <1>6 DEF Engage!HasRow

(* The sums after active seconds. *)
LEMMA TotalsAfter ==
    ASSUME EngageInv, NEW o \in Observations, NEW s \in Nat \ {0},
           dayRow.at # None, dayRow.at < o.now, s <= o.now - dayRow.at,
           dayRow'.at = o.now, daySeen' = daySeen \cup {o.now},
           days' = Engage!DaysAfter(o, s),
           weeks' = [weeks EXCEPT ![Engage!WeekOf(o.now)] = @ + s]
    PROVE  DaysFitTheRow' /\ weeks' \in [0..LastWeek -> Nat]
<1>1. o.now \in 0..Seconds
  BY DEF Observations
<1>s. Seconds \in Nat
  BY EngageConstantsHold DEF EngageConstants
<1>d. PICK d : d = o.now \div Day
  OBVIOUS
<1>w. PICK w : w = o.now \div Week
  OBVIOUS
<1>2. /\ d \in 0..LastDay /\ days' \in [0..LastDay -> [seconds : Nat, streak : Nat]]
      /\ \A x \in (0..LastDay) \ {d} : days'[x] = days[x]
      /\ days'[d].seconds = days[d].seconds + s
  BY <1>d, DaysAfterAre
<1>3. days \in [0..LastDay -> [seconds : Nat, streak : Nat]] /\ weeks \in [0..LastWeek -> Nat]
  BY DEF EngageInv, EngageTyped
<1>4. w \in 0..LastWeek /\ weeks' = [weeks EXCEPT ![w] = weeks[w] + s]
  BY <1>1, <1>w, DaysAreFinite
<1>5. weeks' \in [0..LastWeek -> Nat]
  BY <1>3, <1>4
<1>f. PICK f : f = [x \in 0..LastDay |-> days[x].seconds]
  OBVIOUS
<1>g. PICK g : g = [x \in 0..LastDay |-> days'[x].seconds]
  OBVIOUS
<1>u. PICK u : u = weeks
  OBVIOUS
<1>v. PICK v : v = weeks'
  OBVIOUS
<1>6. Total(f, 0..LastDay) \in Nat /\ Total(g, 0..LastDay) = Total(f, 0..LastDay) + s
  <2>1. \A x \in 0..LastDay : f[x] \in Nat /\ g[x] \in Nat
    BY <1>2, <1>3, <1>f, <1>g
  <2>2. \A x \in (0..LastDay) \ {d} : f[x] = g[x]
    BY <1>2, <1>3, <1>f, <1>g
  <2>3. g[d] = f[d] + s
    BY <1>2, <1>3, <1>f, <1>g
  <2>a. PICK S : S = 0..LastDay
    OBVIOUS
  <2>4. IsFiniteSet(S) /\ d \in S
    BY <1>2, <2>a, DaysAreFinite
  <2>5. \A x \in S : f[x] \in Nat /\ g[x] \in Nat
    BY <2>1, <2>a
  <2>6. \A x \in S \ {d} : f[x] = g[x]
    BY <2>2, <2>a
  <2>7. Total(f, S) \in Nat /\ Total(g, S) = Total(f, S) + s
    BY <2>3, <2>4, <2>5, <2>6, SumGrows
  <2> QED  BY <2>7, <2>a
<1>7. Total(u, 0..LastWeek) \in Nat /\ Total(v, 0..LastWeek) = Total(u, 0..LastWeek) + s
  <2>1. \A x \in 0..LastWeek : u[x] \in Nat /\ v[x] \in Nat
    BY <1>3, <1>5, <1>u, <1>v
  <2>2. \A x \in (0..LastWeek) \ {w} : u[x] = v[x]
    BY <1>3, <1>4, <1>u, <1>v
  <2>3. v[w] = u[w] + s
    BY <1>3, <1>4, <1>u, <1>v
  <2>a. PICK S : S = 0..LastWeek
    OBVIOUS
  <2>4. IsFiniteSet(S) /\ w \in S
    BY <1>4, <2>a, DaysAreFinite
  <2>5. \A x \in S : u[x] \in Nat /\ v[x] \in Nat
    BY <2>1, <2>a
  <2>6. \A x \in S \ {w} : u[x] = v[x]
    BY <2>2, <2>a
  <2>7. Total(u, S) \in Nat /\ Total(v, S) = Total(u, S) + s
    BY <2>3, <2>4, <2>5, <2>6, SumGrows
  <2> QED  BY <2>7, <2>a
<1>8. /\ DaysTotal = Total(f, 0..LastDay) /\ DaysTotal' = Total(g, 0..LastDay)
      /\ WeeksTotal = Total(u, 0..LastWeek) /\ WeeksTotal' = Total(v, 0..LastWeek)
  BY <1>f, <1>g, <1>u, <1>v DEF DaysTotal, WeeksTotal
<1>9. DaysTotal' = DaysTotal + s /\ WeeksTotal' = WeeksTotal + s /\ DaysTotal \in Nat
  BY <1>6, <1>7, <1>8
<1>10. DaysTotal = WeeksTotal
  BY DEF EngageInv, DaysFitTheRow
<1>11. PICK first \in daySeen :
          (\A x \in daySeen : first <= x) /\ DaysTotal + first <= dayRow.at
  BY DEF EngageInv, DaysFitTheRow
<1>12. dayRow.at \in daySeen /\ daySeen \subseteq Nat /\ dayRow.at \in Nat
  <2>1. daySeen \subseteq 0..dayClock /\ dayClock \in 0..Seconds
    BY DEF EngageInv, EngageTyped
  <2>2. dayRow.at \in daySeen
    BY DEF EngageInv, DayRowIsLatest
  <2>3. daySeen \subseteq Nat
    BY <1>s, <2>1
  <2> QED  BY <2>2, <2>3
<1>13. /\ first \in daySeen' /\ \A x \in daySeen' : first <= x
       /\ DaysTotal' + first <= dayRow'.at
  <2>1. first \in Nat /\ o.now \in Nat
    BY <1>1, <1>12, <1>s
  <2>2. first <= dayRow.at
    BY <1>11, <1>12
  <2>3. first <= o.now
    BY <1>12, <2>1, <2>2
  <2>4. DaysTotal + s + first <= o.now
    BY <1>9, <1>11, <1>12, <2>1
  <2> QED  BY <1>9, <1>11, <2>3, <2>4
<1>14. dayRow'.at # None
  BY <1>1, <1>s, EngageConstantsHold DEF EngageConstants
<1> QED  BY <1>5, <1>9, <1>10, <1>13, <1>14 DEF DaysFitTheRow

(* Streaks after active seconds. *)
LEMMA StreaksAfter ==
    ASSUME EngageInv, NEW o \in Observations, NEW s \in Nat \ {0},
           dayRow.at # None, dayRow.at < o.now, dayRow'.at = o.now,
           days' = Engage!DaysAfter(o, s)
    PROVE  /\ DaysAreRuns'
           /\ \A x \in 0..LastDay : Engage!HasRow(x)' <=> (Engage!HasRow(x) \/ x = o.now \div Day)
<1>d. PICK d : d = o.now \div Day
  OBVIOUS
<1>D. PICK D : D = days'
  OBVIOUS
<1>H. PICK H : H = ActiveDays
  OBVIOUS
<1>G. PICK G : G = ActiveDays'
  OBVIOUS
<1>1. o.now \in 0..Seconds /\ Seconds \in Nat /\ dayRow.at \in 0..Seconds /\ Day \in Nat \ {0}
  BY EngageConstantsHold DEF EngageConstants, Observations, EngageInv, EngageTyped, Checkpoints
<1>2. /\ d \in 0..LastDay
      /\ D \in [0..LastDay -> [seconds : Nat, streak : Nat]]
      /\ \A x \in (0..LastDay) \ {d} : D[x] = days[x]
      /\ D[d].seconds = days[d].seconds + s
      /\ D[d].streak = IF Engage!HasRow(d) THEN days[d].streak ELSE Engage!Streak(d)
      /\ Engage!Streak(d) \in Nat \ {0}
  BY <1>d, <1>D, DaysAfterAre
<1>3. days \in [0..LastDay -> [seconds : Nat, streak : Nat]] /\ LastDay \in Nat
  BY DaysAreFinite DEF EngageInv, EngageTyped
<1>4. \A x \in 0..LastDay : Engage!HasRow(x) => x <= d
  <2>1. dayRow.at \in Nat /\ o.now \in Nat /\ dayRow.at <= o.now
    BY <1>1
  <2>2. dayRow.at \div Day \in Nat /\ dayRow.at \div Day <= d
    BY <1>1, <1>d, <2>1, Quotients
  <2>3. \A x \in 0..LastDay : Engage!HasRow(x) => x <= dayRow.at \div Day
    BY DEF EngageInv, DaysAreRuns
  <2>4. \A x \in 0..LastDay : x \in Nat
    BY <1>3
  <2>5. d \in Nat
    BY <1>2, <1>3
  <2> QED  BY <2>2, <2>3, <2>4, <2>5
<1>5. \A x \in 0..LastDay : Engage!HasRow(x)' <=> (Engage!HasRow(x) \/ x = d)
  <2> TAKE x \in 0..LastDay
  <2>1. CASE x = d
    BY <1>2, <1>3, <1>D, <2>1 DEF Engage!HasRow
  <2>2. CASE x # d
    BY <1>2, <1>D, <2>2 DEF Engage!HasRow
  <2> QED  BY <2>1, <2>2
<1>6. H \subseteq 0..LastDay /\ G = H \cup {d} /\ \A x \in 0..LastDay : x \in H <=> Engage!HasRow(x)
  BY <1>2, <1>5, <1>H, <1>G DEF ActiveDays
<1>7. \A x \in 0..LastDay : x \in Nat
  BY <1>3
<1>8. ASSUME NEW x \in 0..LastDay, Engage!HasRow(x)'
      PROVE  D[x].streak = Cardinality(UnbrokenRun(G, x))
  <2>1. CASE Engage!HasRow(x)
    <3>1. D[x].streak = days[x].streak
      BY <1>2, <2>1
    <3>2. days[x].streak = Cardinality(UnbrokenRun(H, x))
      BY <1>H, <2>1 DEF EngageInv, DaysAreRuns
    <3>3. \A y \in 0..x : y \in H <=> y \in G
      <4>1. ASSUME d \in 0..x PROVE d \in H
        <5>1. d = x
          BY <1>2, <1>4, <1>7, <2>1, <4>1
        <5> QED  BY <1>6, <2>1, <5>1
      <4> QED  BY <1>6, <4>1
    <3>4. UnbrokenRun(H, x) = UnbrokenRun(G, x)
      BY <1>7, <3>3, RunsAgree
    <3> QED  BY <3>1, <3>2, <3>4
  <2>2. CASE ~Engage!HasRow(x)
    <3>1. x = d /\ D[d].streak = Engage!Streak(d) /\ d \in Nat /\ d \in G
      BY <1>2, <1>5, <1>6, <1>7, <1>8, <2>2
    <3>2. Cardinality(UnbrokenRun(G, d)) =
             IF d > 0 /\ d - 1 \in G THEN Cardinality(UnbrokenRun(G, d - 1)) + 1 ELSE 1
      BY <3>1, RunsGoOn
    <3>3. CASE d = 0
      <4>1. D[d].streak = 1
        BY <3>1, <3>3 DEF Engage!Streak
      <4> QED  BY <3>1, <3>2, <3>3, <4>1
    <3>4. CASE d # 0
      <4>1. d - 1 \in 0..LastDay /\ d - 1 \in Nat /\ d - 1 # d /\ d > 0
        BY <1>2, <1>3, <3>1, <3>4
      <4>2. d - 1 \in G <=> Engage!HasRow(d - 1)
        BY <1>6, <4>1
      <4>3. D[d].streak = days[d - 1].streak + 1
        BY <3>1, <3>4 DEF Engage!Streak
      <4>4. CASE Engage!HasRow(d - 1)
        <5>1. days[d - 1].streak = Cardinality(UnbrokenRun(H, d - 1))
          BY <1>H, <4>1, <4>4 DEF EngageInv, DaysAreRuns
        <5>2. \A y \in 0..(d - 1) : y \in H <=> y \in G
          <6>1. d \notin 0..(d - 1)
            BY <3>1
          <6> QED  BY <1>6, <6>1
        <5>3. UnbrokenRun(H, d - 1) = UnbrokenRun(G, d - 1)
          BY <4>1, <5>2, RunsAgree
        <5> QED  BY <3>1, <3>2, <4>1, <4>2, <4>3, <4>4, <5>1, <5>3
      <4>5. CASE ~Engage!HasRow(d - 1)
        <5>1. days[d - 1].streak = 0
          BY <1>3, <4>1, <4>5 DEF Engage!HasRow
        <5> QED  BY <3>1, <3>2, <4>1, <4>2, <4>3, <4>5, <5>1
      <4> QED  BY <4>4, <4>5
    <3> QED  BY <3>3, <3>4
  <2> QED  BY <2>1, <2>2
<1>9. ASSUME NEW x \in 0..LastDay
      PROVE  Engage!HasRow(x)' <=> days'[x].seconds > 0
  <2>1. CASE x = d
    BY <1>2, <1>3, <1>5, <1>D, <2>1
  <2>2. CASE x # d
    <3>1. Engage!HasRow(x) <=> days[x].seconds > 0
      BY DEF EngageInv, DaysAreRuns
    <3> QED  BY <1>2, <1>5, <1>D, <2>2, <3>1
  <2> QED  BY <2>1, <2>2
<1>10. dayRow'.at # None
  BY <1>1, EngageConstantsHold DEF EngageConstants
<1>11. \A x \in 0..LastDay : Engage!HasRow(x)' => x <= dayRow'.at \div Day
  <2>1. \A x \in 0..LastDay : Engage!HasRow(x)' => x <= d
    BY <1>2, <1>4, <1>5, <1>7
  <2> QED  BY <2>1, <1>d
<1>12. DaysAreRuns'
  BY <1>8, <1>9, <1>10, <1>11, <1>D, <1>G DEF DaysAreRuns
<1> QED  BY <1>5, <1>12, <1>d

-----------------------------------------------------------------------------
(* The claims of one observation. *)
NewClaims(o, s) ==
    Engage!DailyGrants(o) \cup Engage!WeeklyGrants(o, s)
    \cup Engage!HourlyGrants(dayRow.session, dayRow.hours, Engage!HoursOf(dayRow.active + s))

LEMMA NewClaimsAre ==
    ASSUME EngageInv, NEW o \in Observations, NEW s
    PROVE  /\ Engage!DailyGrants(o) =
                 IF Engage!HasRow(o.now \div Day) THEN {}
                 ELSE DailyOf(o.now \div Day, Engage!Streak(o.now \div Day))
           /\ \A c \in Engage!DailyGrants(o) : c[1] = "daily" /\ c[2] = o.now \div Day
           /\ Engage!WeeklyGrants(o, s) =
                 {<<"weekly", o.now \div Week, g>> :
                    g \in {g \in Engage!WeekGoals :
                             weeks[o.now \div Week] < g /\ g <= weeks[o.now \div Week] + s}}
           /\ \A c \in Engage!WeeklyGrants(o, s) : c[1] = "weekly" /\ c[2] = o.now \div Week
           /\ \A n, m : \A c \in Engage!HourlyGrants(dayRow.session, n, m) :
                 c[1] = "hourly" /\ c[2] = dayRow.session
<1>1. o.now \in 0..Seconds
  BY DEF Observations
<1>d. PICK d : d = o.now \div Day
  OBVIOUS
<1>w. PICK w : w = o.now \div Week
  OBVIOUS
<1>2. Engage!DayOf(o.now) = d /\ Engage!WeekOf(o.now) = w /\ d \in 0..LastDay
  BY <1>1, <1>d, <1>w, DaysAreFinite
<1>3. days[d].streak \in Nat
  BY <1>2 DEF EngageInv, EngageTyped
<1>4. Engage!HasRow(d) <=> days[d].streak # 0
  BY <1>3 DEF Engage!HasRow
<1>5. Engage!DailyGrants(o) =
         IF Engage!HasRow(d) THEN {} ELSE DailyOf(d, Engage!Streak(d))
  <2>k. PICK k : k = Engage!Streak(d)
    OBVIOUS
  <2>t. PICK T : T = Engage!Tier(k)
    OBVIOUS
  <2>1. Engage!DailyGrants(o) =
           IF days[d].streak = 0 /\ T # {} /\ (Engage!RepeatLast \/ Engage!Max(T) = k)
           THEN {<<"daily", d, Engage!Max(T)>>} ELSE {}
    BY <1>2, <2>k, <2>t DEF Engage!DailyGrants
  <2>2. DailyOf(d, k) = {<<"daily", d, Engage!Max(T)>> :
                            x \in {y \in T : Engage!RepeatLast \/ Engage!Max(T) = k}}
    BY <2>t DEF DailyOf
  <2> QED  BY <1>4, <2>1, <2>2, <2>k
<1>6. \A c \in Engage!DailyGrants(o) : c[1] = "daily" /\ c[2] = d
  BY <1>5 DEF DailyOf
<1>7. Engage!WeeklyGrants(o, s) =
         {<<"weekly", w, g>> : g \in {g \in Engage!WeekGoals : weeks[w] < g /\ g <= weeks[w] + s}}
  BY <1>2 DEF Engage!WeeklyGrants, Engage!Passed
<1>8. \A c \in Engage!WeeklyGrants(o, s) : c[1] = "weekly" /\ c[2] = w
  BY <1>7
<1>9. \A n, m : \A c \in Engage!HourlyGrants(dayRow.session, n, m) :
         c[1] = "hourly" /\ c[2] = dayRow.session
  BY DEF Engage!HourlyGrants
<1> QED  BY <1>5, <1>6, <1>7, <1>8, <1>9, <1>d, <1>w

(* Claims that are granted. *)
LEMMA ClaimsAfter ==
    ASSUME EngageInv, NEW o \in Observations, NEW s \in Nat \ {0},
           dayRow.at # None, dayRow.at < o.now, dayRow'.at = o.now, policy' = policy,
           dayRow.session # None,
           days' = Engage!DaysAfter(o, s),
           weeks' = [weeks EXCEPT ![Engage!WeekOf(o.now)] = @ + s],
           Engage!Grant(NewClaims(o, s))
    PROVE  /\ DailyClaims' /\ WeeklyClaims' /\ GrantsAreClaims'
           /\ \A c \in claims' : c[1] \in Engage!Kinds
           /\ \A c \in claims' : c[1] = "hourly" => c[2] \in Nat /\ c[2] <= o.now
           /\ {c \in claims' : c[1] = "hourly" /\ c[2] = dayRow.session} =
                 Engage!HourlyGrants(dayRow.session, 0, Engage!HoursOf(dayRow.active + s))
<1>d. PICK d : d = o.now \div Day
  OBVIOUS
<1>w. PICK w : w = o.now \div Week
  OBVIOUS
<1>b. PICK b : b = dayRow.session
  OBVIOUS
<1>h. PICK h : h = dayRow.hours
  OBVIOUS
<1>k. PICK k : k = Engage!HoursOf(dayRow.active + s)
  OBVIOUS
<1>K. PICK K : K = NewClaims(o, s)
  OBVIOUS
<1>x. PICK X : X = Engage!DailyGrants(o)
  OBVIOUS
<1>y. PICK Y : Y = Engage!WeeklyGrants(o, s)
  OBVIOUS
<1>z. PICK Z : Z = Engage!HourlyGrants(b, h, k)
  OBVIOUS
<1>1. K = X \cup Y \cup Z /\ claims' = claims \cup K
  BY <1>b, <1>h, <1>k, <1>K, <1>x, <1>y, <1>z DEF NewClaims, Engage!Grant
<1>2. /\ X = IF Engage!HasRow(d) THEN {} ELSE DailyOf(d, Engage!Streak(d))
      /\ \A c \in X : c[1] = "daily" /\ c[2] = d
      /\ Y = {<<"weekly", w, g>> :
                 g \in {g \in Engage!WeekGoals : weeks[w] < g /\ g <= weeks[w] + s}}
      /\ \A c \in Y : c[1] = "weekly" /\ c[2] = w
      /\ \A c \in Z : c[1] = "hourly" /\ c[2] = b
  BY <1>b, <1>d, <1>w, <1>x, <1>y, <1>z, NewClaimsAre
<1>3. /\ d \in 0..LastDay
      /\ \A x \in (0..LastDay) \ {d} : days'[x] = days[x]
      /\ days'[d].streak = IF Engage!HasRow(d) THEN days[d].streak ELSE Engage!Streak(d)
  BY <1>d, DaysAfterAre
<1>4. \A x \in 0..LastDay : Engage!HasRow(x)' <=> (Engage!HasRow(x) \/ x = d)
  BY <1>d, StreaksAfter
<1>5. o.now \in 0..Seconds /\ Seconds \in Nat /\ dayRow.at \in 0..Seconds
  BY EngageConstantsHold DEF EngageConstants, Observations, EngageInv, EngageTyped, Checkpoints
<1>6. DailyClaims'
  <2>1. ASSUME NEW x \in 0..LastDay
        PROVE  ClaimsOf("daily", x)' =
                  IF Engage!HasRow(x)' THEN DailyOf(x, days'[x].streak) ELSE {}
    <3>1. ClaimsOf("daily", x) = IF Engage!HasRow(x) THEN DailyOf(x, days[x].streak) ELSE {}
      BY DEF EngageInv, DailyClaims
    <3>2. ClaimsOf("daily", x)' = ClaimsOf("daily", x) \cup {c \in X : c[2] = x}
      BY <1>1, <1>2 DEF ClaimsOf
    <3>4. CASE x # d
      <4>1. {c \in X : c[2] = x} = {}
        BY <1>2, <3>4
      <4> QED  BY <1>3, <1>4, <3>1, <3>2, <3>4, <4>1
    <3>5. CASE x = d /\ Engage!HasRow(d)
      BY <1>2, <1>3, <1>4, <3>1, <3>2, <3>5
    <3>6. CASE x = d /\ ~Engage!HasRow(d)
      <4>1. {c \in X : c[2] = x} = X
        BY <1>2, <3>6
      <4> QED  BY <1>2, <1>3, <1>4, <3>1, <3>2, <3>6, <4>1
    <3> QED  BY <3>4, <3>5, <3>6
  <2> QED
    BY <2>1 DEF DailyClaims, DailyOf, Engage!Tier, Engage!DayTiers, Engage!RepeatLast
<1>7. WeeklyClaims'
  <2>0. weeks \in [0..LastWeek -> Nat] /\ w \in 0..LastWeek /\ Engage!WeekOf(o.now) = w
    BY <1>5, <1>w, DaysAreFinite DEF EngageInv, EngageTyped
  <2>g. \A g \in Engage!WeekGoals : g \in Nat
    BY EngageConstantsHold DEF EngageConstants, Engage!WeekGoals, EngageInv, EngageTyped
  <2>1. ASSUME NEW x \in 0..LastWeek PROVE ClaimsOf("weekly", x)' = WeeklyOf(x, weeks'[x])
    <3>1. ClaimsOf("weekly", x) = WeeklyOf(x, weeks[x])
      BY DEF EngageInv, WeeklyClaims
    <3>2. ClaimsOf("weekly", x)' = ClaimsOf("weekly", x) \cup {c \in Y : c[2] = x}
      BY <1>1, <1>2 DEF ClaimsOf
    <3>4. CASE x # w
      <4>1. {c \in Y : c[2] = x} = {}
        BY <1>2, <3>4
      <4>2. weeks'[x] = weeks[x]
        BY <2>0, <3>4
      <4> QED  BY <3>1, <3>2, <4>1, <4>2
    <3>5. CASE x = w
      <4>1. {c \in Y : c[2] = x} = Y
        BY <1>2, <3>5
      <4>2. weeks'[w] = weeks[w] + s /\ weeks[w] \in Nat
        BY <2>0
      <4>n. PICK n : n = weeks[w]
        OBVIOUS
      <4>3. {g \in Engage!WeekGoals : g <= n + s} =
               {g \in Engage!WeekGoals : g <= n} \cup {g \in Engage!WeekGoals : n < g /\ g <= n + s}
        BY <2>g, <4>2, <4>n
      <4>4. WeeklyOf(w, n + s) = WeeklyOf(w, n) \cup Y
        BY <1>2, <4>3, <4>n DEF WeeklyOf
      <4> QED  BY <3>1, <3>2, <3>5, <4>1, <4>2, <4>4, <4>n
    <3> QED  BY <3>4, <3>5
  <2> QED  BY <2>1 DEF WeeklyClaims, WeeklyOf, Engage!WeekGoals
<1>8. GrantsAreClaims'
  <2>1. grants' = grants \cup {<<q, i>> : q \in K \ claims, i \in {Engage!Cardinality(daySeen)}}
    BY <1>K DEF Engage!Grant
  <2>2. \A g \in grants : g[1] \in claims
    BY DEF EngageInv, GrantsAreClaims
  <2>3. \A g, e \in grants : g[1] = e[1] => g = e
    BY DEF EngageInv, GrantsAreClaims
  <2>i. PICK i : i = Engage!Cardinality(daySeen)
    OBVIOUS
  <2>4. \A g \in grants' : g \in grants \/ (g[1] \in K \ claims /\ g = <<g[1], i>>)
    BY <2>1, <2>i
  <2>5. \A g \in grants' : g[1] \in claims'
    BY <1>1, <2>2, <2>4
  <2>6. \A g, e \in grants' : g[1] = e[1] => g = e
    BY <2>2, <2>3, <2>4
  <2> QED  BY <2>5, <2>6 DEF GrantsAreClaims
<1>9. \A c \in claims' : c[1] \in Engage!Kinds
  <2>1. \A c \in claims : c[1] \in Engage!Kinds
    BY DEF EngageInv, EngageTyped
  <2> QED  BY <1>1, <1>2, <2>1 DEF Engage!Kinds
<1>10. b \in Nat /\ b <= o.now
  <2>1. b \in 0..Seconds /\ dayRow.active \in Nat /\ b + dayRow.active <= dayRow.at
    BY <1>b DEF EngageInv, EngageTyped, Checkpoints, HourlyClaims
  <2> QED  BY <1>5, <2>1
<1>11. \A c \in claims' : c[1] = "hourly" => c[2] \in Nat /\ c[2] <= o.now
  <2>1. \A c \in claims : c[1] = "hourly" => c[2] \in Nat /\ c[2] <= dayRow.at
    BY DEF EngageInv, HourlyClaims
  <2>2. \A c \in claims : c[1] = "hourly" => c[2] \in Nat /\ c[2] <= o.now
    BY <1>5, <2>1
  <2> QED  BY <1>1, <1>2, <1>10, <2>2
<1>12. {c \in claims' : c[1] = "hourly" /\ c[2] = b} = Engage!HourlyGrants(b, 0, k)
  <2>1. ClaimsOf("hourly", b) = Engage!HourlyGrants(b, 0, h) /\ h = Engage!HoursOf(dayRow.active)
    BY <1>b, <1>h DEF EngageInv, HourlyClaims
  <2>2. h \in Nat /\ k \in Nat /\ h <= k
    <3>1. dayRow.active \in Nat /\ policy \in Policies
      BY DEF EngageInv, EngageTyped, Checkpoints
    <3>2. dayRow.active + s \in Nat /\ dayRow.active <= dayRow.active + s
      BY <3>1
    <3> QED  BY <2>1, <3>1, <3>2, <1>k, HoursAre
  <2>3. {c \in claims' : c[1] = "hourly" /\ c[2] = b} = ClaimsOf("hourly", b) \cup Z
    BY <1>1, <1>2 DEF ClaimsOf
  <2>4. 1..k = (1..h) \cup ((h + 1)..k)
    BY <2>2
  <2>5. Engage!HourlyGrants(b, 0, k) = Engage!HourlyGrants(b, 0, h) \cup Engage!HourlyGrants(b, h, k)
    BY <2>4 DEF Engage!HourlyGrants
  <2> QED  BY <2>1, <2>3, <2>5, <1>z
<1> QED  BY <1>6, <1>7, <1>8, <1>9, <1>11, <1>12, <1>b, <1>k

(* What the claims and sums say stays true when the rewards do. *)
LEMMA RewardsStay ==
    ASSUME EngageInv, UNCHANGED <<policy, days, weeks, claims, grants>>,
           dayRow.at # None => dayRow'.at # None /\ dayRow.at \in Nat /\ dayRow'.at \in Nat
                               /\ dayRow.at <= dayRow'.at
    PROVE  DaysAreRuns' /\ DailyClaims' /\ WeeklyClaims' /\ GrantsAreClaims'
<1>1. policy' = policy /\ days' = days /\ weeks' = weeks /\ claims' = claims /\ grants' = grants
  OBVIOUS
<1>2. DaysAreRuns'
  <2>1. ActiveDays' = ActiveDays
    BY <1>1 DEF ActiveDays, Engage!HasRow
  <2>2. ASSUME NEW d \in 0..LastDay, Engage!HasRow(d)
        PROVE  dayRow'.at # None /\ d <= dayRow'.at \div Day
    <3>1. dayRow.at # None /\ d <= dayRow.at \div Day
      BY <2>2 DEF EngageInv, DaysAreRuns
    <3>2. Day \in Nat \ {0} /\ dayRow.at \in Nat /\ dayRow'.at \in Nat /\ dayRow.at <= dayRow'.at
      BY <3>1, EngageConstantsHold DEF EngageConstants
    <3>x. PICK x : x = dayRow.at
      OBVIOUS
    <3>y. PICK y : y = dayRow'.at
      OBVIOUS
    <3>3. x \div Day \in Nat /\ y \div Day \in Nat /\ x \div Day <= y \div Day
      BY <3>2, <3>x, <3>y, Quotients
    <3>4. d \in Nat
      BY DaysAreFinite
    <3>5. d <= y \div Day
      BY <3>1, <3>3, <3>4, <3>x
    <3> QED  BY <3>1, <3>2, <3>5, <3>y
  <2>3. \A d \in 0..LastDay :
           /\ Engage!HasRow(d) <=> days[d].seconds > 0
           /\ Engage!HasRow(d) => days[d].streak = Cardinality(UnbrokenRun(ActiveDays, d))
    BY DEF EngageInv, DaysAreRuns
  <2>4. \A d \in 0..LastDay : Engage!HasRow(d)' <=> Engage!HasRow(d)
    BY <1>1 DEF Engage!HasRow
  <2> QED  BY <1>1, <2>1, <2>2, <2>3, <2>4 DEF DaysAreRuns
<1>3. DailyClaims'
  BY <1>1 DEF EngageInv, DailyClaims, ClaimsOf, DailyOf, Engage!HasRow, Engage!Tier,
       Engage!DayTiers, Engage!RepeatLast
<1>4. WeeklyClaims' /\ GrantsAreClaims'
  BY <1>1 DEF EngageInv, WeeklyClaims, ClaimsOf, WeeklyOf, Engage!WeekGoals, GrantsAreClaims
<1> QED  BY <1>2, <1>3, <1>4

LEMMA FirstObservationStep ==
    ASSUME EngageInv, NEW o \in Observations, Engage!FirstObservation(o), EngageTyped',
           policy' = policy, daySeen' = daySeen \cup {o.now}
    PROVE  EngageInv'
<1>1. /\ dayRow.at = None /\ daySeen = {} /\ dayRow = Engage!NoRow
      /\ days' = days /\ weeks' = weeks /\ claims' = claims /\ grants' = grants
  BY DEF EngageInv, DayRowIsLatest, Engage!FirstObservation, Engage!rewards
<1>2. /\ dayRow'.at = o.now /\ dayRow'.online = o.online
      /\ dayRow'.session = IF o.online THEN o.now ELSE None
      /\ dayRow'.active = 0 /\ dayRow'.hours = 0
  BY DEF Engage!FirstObservation, Engage!NoRow
<1>3. o.now \in Nat /\ o.now # None /\ o.online \in BOOLEAN /\ daySeen' = {o.now}
  BY <1>1, EngageConstantsHold DEF EngageConstants, Observations
<1>4. DaysAreRuns' /\ DailyClaims' /\ WeeklyClaims' /\ GrantsAreClaims'
  BY <1>1, RewardsStay
<1>5. DayRowIsLatest'
  BY <1>2, <1>3 DEF DayRowIsLatest
<1>6. DaysFitTheRow'
  <2>1. DaysTotal' = DaysTotal /\ WeeksTotal' = WeeksTotal /\ DaysTotal = 0 /\ DaysTotal = WeeksTotal
    BY <1>1 DEF EngageInv, DaysFitTheRow, DaysTotal, WeeksTotal
  <2> QED  BY <1>2, <1>3, <2>1 DEF DaysFitTheRow
<1>7. HourlyClaims'
  <2>1. \A c \in claims : c[1] # "hourly"
    BY <1>1 DEF EngageInv, HourlyClaims
  <2>2. ClaimsOf("hourly", dayRow.session)' = {}
    BY <1>1, <2>1 DEF ClaimsOf
  <2>3. \A n : Engage!HourlyGrants(n, 0, 0) = {}
    BY DEF Engage!HourlyGrants
  <2>4. Engage!HoursOf(0)' = 0
    <3>1. policy \in Policies /\ 0 \in Nat
      BY DEF EngageInv, EngageTyped
    <3>2. Engage!HoursOf(0) = 0
      BY <3>1, HoursAre
    <3>3. Engage!HoursOf(0)' = Engage!HoursOf(0)
      BY DEF Engage!HoursOf, Engage!Hour, Engage!MaxHours
    <3> QED  BY <3>2, <3>3
  <2>5. dayRow'.online <=> dayRow'.session # None
    BY <1>2, <1>3
  <2>6. dayRow'.session # None => dayRow'.session + dayRow'.active <= dayRow'.at
    BY <1>2, <1>3
  <2>7. ClaimsOf("hourly", dayRow.session)' = Engage!HourlyGrants(dayRow.session, 0, dayRow.hours)'
    BY <1>2, <2>2, <2>3 DEF Engage!HourlyGrants
  <2>8. (dayRow.hours = Engage!HoursOf(dayRow.active))'
    BY <1>2, <2>4 DEF Engage!HoursOf
  <2> QED  BY <1>1, <1>2, <1>3, <2>1, <2>5, <2>6, <2>7, <2>8 DEF HourlyClaims
<1> QED  BY <1>4, <1>5, <1>6, <1>7 DEF EngageInv

LEMMA OldObservationStep ==
    ASSUME EngageInv, NEW o \in Observations, dayRow.at # None, Engage!Replay(o),
           UNCHANGED <<policy, dayRow, days, weeks, claims, grants>>, EngageTyped',
           daySeen' = daySeen \cup {o.now}
    PROVE  EngageInv'
<1>1. /\ policy' = policy /\ dayRow' = dayRow /\ days' = days /\ weeks' = weeks
      /\ claims' = claims /\ grants' = grants
  OBVIOUS
<1>2. /\ dayRow.at \in daySeen /\ daySeen \subseteq Nat /\ dayRow.at \in Nat /\ o.now \in Nat
      /\ o.now <= dayRow.at /\ \A x \in daySeen : x <= dayRow.at
  <2>1. daySeen \subseteq 0..dayClock /\ dayClock \in 0..Seconds /\ Seconds \in Nat
    BY EngageConstantsHold DEF EngageConstants, EngageInv, EngageTyped
  <2>2. dayRow.at \in daySeen /\ \A x \in daySeen : x <= dayRow.at
    BY DEF EngageInv, DayRowIsLatest
  <2>3. daySeen \subseteq Nat
    BY <2>1
  <2>4. o.now \in Nat /\ o.now <= dayRow.at
    BY <2>1 DEF Observations, Engage!Replay
  <2> QED  BY <2>2, <2>3, <2>4
<1>3. DaysAreRuns' /\ DailyClaims' /\ WeeklyClaims' /\ GrantsAreClaims'
  <2>1. UNCHANGED <<policy, days, weeks, claims, grants>> /\ dayRow'.at = dayRow.at
    BY <1>1
  <2> QED  BY <1>2, <2>1, RewardsStay
<1>4. DayRowIsLatest'
  BY <1>1, <1>2 DEF DayRowIsLatest
<1>5. DaysFitTheRow'
  <2>1. DaysTotal' = DaysTotal /\ WeeksTotal' = WeeksTotal
    BY <1>1 DEF DaysTotal, WeeksTotal
  <2>2. PICK first \in daySeen :
           (\A x \in daySeen : first <= x) /\ DaysTotal + first <= dayRow.at
    BY DEF EngageInv, DaysFitTheRow
  <2>3. DaysTotal \in Nat /\ DaysTotal = WeeksTotal
    <3>f. PICK f : f = [d \in 0..LastDay |-> days[d].seconds]
      OBVIOUS
    <3>1. \A d \in 0..LastDay : f[d] \in Nat
      BY <3>f DEF EngageInv, EngageTyped
    <3>2. Total(f, 0..LastDay) \in Nat
      BY <3>1, DaysAreFinite, UnitsType
    <3> QED  BY <3>2, <3>f DEF DaysTotal, EngageInv, DaysFitTheRow
  <2>4. first \in Nat
    BY <1>2, <2>2
  <2>5. \E e \in daySeen' : (\A x \in daySeen' : e <= x) /\ DaysTotal + e <= dayRow.at
    <3>1. CASE first <= o.now
      BY <2>2, <3>1
    <3>2. CASE ~(first <= o.now)
      <4>1. \A x \in daySeen' : o.now <= x
        BY <1>2, <2>2, <2>4, <3>2
      <4>2. DaysTotal + o.now <= dayRow.at
        BY <1>2, <2>2, <2>3, <2>4, <3>2
      <4> QED  BY <4>1, <4>2
    <3> QED  BY <3>1, <3>2
  <2> QED  BY <1>1, <2>1, <2>3, <2>5 DEF DaysFitTheRow
<1>6. HourlyClaims'
  BY <1>1 DEF EngageInv, HourlyClaims, ClaimsOf, Engage!HourlyGrants, Engage!HoursOf,
       Engage!Hour, Engage!MaxHours
<1> QED  BY <1>3, <1>4, <1>5, <1>6 DEF EngageInv

LEMMA LaterObservationStep ==
    ASSUME EngageInv, NEW o \in Observations, Engage!LaterObservation(o),
           policy' = policy, daySeen' = daySeen \cup {o.now},
           UNCHANGED <<dayClock, online, place>>, o.now <= dayClock,
           dayTick' \in [Threads -> Observations], \A t \in Threads : dayTick'[t].now <= dayClock
    PROVE  EngageInv'
<1>s. PICK s : s = Engage!ActiveSeconds(o)
  OBVIOUS
<1>1. dayRow.at # None /\ ~Engage!Replay(o)
  BY DEF Engage!LaterObservation
<1>2. /\ dayRow.at \in Nat /\ o.now \in Nat /\ o.now <= Seconds /\ dayRow.at < o.now
      /\ s \in Nat /\ s <= o.now - dayRow.at
      /\ s > 0 => Engage!Continuous(o)
      /\ Engage!Continuous(o) => o.online = TRUE /\ dayRow.session # None
      /\ Engage!LastMove(o) \in {None} \cup 0..Seconds
  BY <1>1, <1>s, ActiveSecondsAre
<1>3. /\ policy \in Policies /\ dayRow \in Checkpoints /\ o.now \in 0..Seconds
      /\ o.online \in BOOLEAN /\ o.place \in Places \cup {None}
      /\ Seconds \in Nat /\ None \notin Nat
  BY EngageConstantsHold DEF EngageConstants, EngageInv, EngageTyped, Observations
<1>n. PICK session : session = IF Engage!Continuous(o) THEN dayRow.session ELSE o.now
  OBVIOUS
<1>a. PICK active : active = (IF Engage!Continuous(o) THEN dayRow.active ELSE 0) + s
  OBVIOUS
<1>b. PICK before : before = Engage!HoursBefore(o)
  OBVIOUS
<1>h. PICK hours : hours = IF s > 0 THEN Engage!Max({before, Engage!HoursOf(active)}) ELSE before
  OBVIOUS
<1>4. /\ dayRow' = IF o.online
                   THEN [at |-> o.now, online |-> TRUE, place |-> o.place,
                         moved |-> Engage!LastMove(o), session |-> session, active |-> active,
                         hours |-> hours]
                   ELSE [Engage!NoRow EXCEPT !.at = o.now, !.place = o.place]
      /\ IF s = 0 THEN UNCHANGED Engage!rewards
         ELSE /\ days' = Engage!DaysAfter(o, s)
              /\ weeks' = [weeks EXCEPT ![Engage!WeekOf(o.now)] = @ + s]
              /\ Engage!Grant(Engage!DailyGrants(o) \cup Engage!WeeklyGrants(o, s)
                              \cup Engage!HourlyGrants(session, before, hours))
  BY <1>s, <1>n, <1>a, <1>b, <1>h DEF Engage!LaterObservation
<1>5. dayRow'.at = o.now /\ dayRow'.at # None
  BY <1>2, <1>3, <1>4 DEF Engage!NoRow
(* The session's books: what it has been active, and the hours of that. *)
<1>6. Engage!Continuous(o) =>
         /\ session = dayRow.session /\ session \in 0..Seconds
         /\ active = dayRow.active + s /\ dayRow.active \in Nat
         /\ session + dayRow.active <= dayRow.at
         /\ before = dayRow.hours /\ before = Engage!HoursOf(dayRow.active)
  <2>1. dayRow.session # None =>
           /\ dayRow.session \in 0..Seconds /\ dayRow.session + dayRow.active <= dayRow.at
           /\ dayRow.hours = Engage!HoursOf(dayRow.active)
    BY <1>3 DEF EngageInv, HourlyClaims, Checkpoints
  <2>2. dayRow.active \in Nat
    BY <1>3 DEF Checkpoints
  <2> QED  BY <1>2, <1>n, <1>a, <1>b, <2>1, <2>2 DEF Engage!HoursBefore
<1>7. ~Engage!Continuous(o) =>
         session = o.now /\ active = 0 /\ before = 0 /\ s = 0 /\ hours = 0
  BY <1>2, <1>n, <1>a, <1>b, <1>h DEF Engage!HoursBefore
<1>8. active \in Nat /\ session \in 0..Seconds /\ session + active <= o.now
  <2>1. CASE Engage!Continuous(o)
    <3>1. session \in Nat
      BY <1>3, <1>6, <2>1
    <3> QED  BY <1>2, <1>6, <2>1, <3>1
  <2>2. CASE ~Engage!Continuous(o)
    BY <1>2, <1>3, <1>7, <2>2
  <2> QED  BY <2>1, <2>2
<1>9. hours = Engage!HoursOf(active) /\ hours \in Nat
  <2>1. CASE Engage!Continuous(o)
    <3>1. /\ before \in Nat /\ Engage!HoursOf(active) \in Nat /\ before <= Engage!HoursOf(active)
      <4>1. dayRow.active <= active
        BY <1>2, <1>6, <2>1
      <4> QED  BY <1>3, <1>6, <1>8, <2>1, <4>1, HoursAre
    <3>2. CASE s > 0
      <4>m. PICK m : m = Engage!HoursOf(active)
        OBVIOUS
      <4>1. Play!Max({before, m}) = m
        BY <3>1, <4>m, PlayMax
      <4>2. Engage!Max({before, m}) = m
        BY <4>1, SameExtremes
      <4> QED  BY <1>h, <3>1, <3>2, <4>2, <4>m
    <3>3. CASE ~(s > 0)
      <4>1. active = dayRow.active
        BY <1>2, <1>6, <2>1, <3>3
      <4> QED  BY <1>6, <1>h, <2>1, <3>1, <3>3, <4>1
    <3> QED  BY <3>2, <3>3
  <2>2. CASE ~Engage!Continuous(o)
    <3>1. Engage!HoursOf(0) = 0
      BY <1>3, HoursAre
    <3> QED  BY <1>7, <2>2, <3>1
  <2> QED  BY <2>1, <2>2
<1>10. dayRow' \in Checkpoints
  BY <1>3, <1>4, <1>2, <1>8, <1>9 DEF Checkpoints, Engage!NoRow
<1>11. DayRowIsLatest'
  <2>1. \A x \in daySeen : x \in Nat /\ x <= dayRow.at
    <3>1. daySeen \subseteq 0..dayClock /\ dayClock \in 0..Seconds
      BY DEF EngageInv, EngageTyped
    <3>2. daySeen \subseteq Nat
      BY <1>3, <3>1
    <3> QED  BY <1>1, <3>2 DEF EngageInv, DayRowIsLatest
  <2>2. \A x \in daySeen' : x <= o.now
    BY <1>2, <2>1
  <2> QED  BY <1>5, <2>2 DEF DayRowIsLatest
<1>12. dayRow'.online <=> dayRow'.session # None
  BY <1>3, <1>4, <1>8 DEF Engage!NoRow
<1>13. dayRow'.session = None => dayRow'.active = 0 /\ dayRow'.hours = 0
  BY <1>3, <1>4, <1>8 DEF Engage!NoRow
<1>14. dayRow'.session # None =>
          /\ o.online = TRUE /\ dayRow'.session = session /\ dayRow'.active = active
          /\ dayRow'.hours = hours
  BY <1>3, <1>4 DEF Engage!NoRow
<1>15. Engage!HoursOf(active)' = Engage!HoursOf(active)
  BY DEF Engage!HoursOf, Engage!Hour, Engage!MaxHours
(* What the rewards need for the rest. *)
<1>16. ASSUME (DaysFitTheRow /\ DaysAreRuns /\ DailyClaims /\ WeeklyClaims /\ GrantsAreClaims)',
              days' \in [0..LastDay -> [seconds : Nat, streak : Nat]],
              weeks' \in [0..LastWeek -> Nat],
              \A c \in claims' : c[1] \in Engage!Kinds,
              \A c \in claims' : c[1] = "hourly" => c[2] \in Nat /\ c[2] <= o.now,
              o.online = TRUE =>
                 {c \in claims' : c[1] = "hourly" /\ c[2] = session} = Engage!HourlyGrants(session, 0, hours)
       PROVE  EngageInv'
  <2>1. EngageTyped'
    <3>1. daySeen' \subseteq 0..dayClock
      <4>1. dayClock \in 0..Seconds /\ daySeen \subseteq 0..dayClock
        BY DEF EngageInv, EngageTyped
      <4>2. dayClock \in Nat
        BY <1>3, <4>1
      <4>3. o.now \in 0..dayClock
        BY <1>2, <4>2
      <4> QED  BY <4>1, <4>3
    <3>2. place \in Places /\ online \in BOOLEAN /\ dayClock \in 0..Seconds
      BY DEF EngageInv, EngageTyped
    <3> QED  BY <1>3, <1>10, <1>16, <3>1, <3>2 DEF EngageTyped
  <2>2. HourlyClaims'
    <3>1. dayRow'.session # None => ClaimsOf("hourly", dayRow.session)'
                                       = Engage!HourlyGrants(dayRow.session, 0, dayRow.hours)'
      BY <1>14, <1>16 DEF ClaimsOf, Engage!HourlyGrants
    <3>2. dayRow'.session # None => dayRow'.hours = Engage!HoursOf(dayRow.active)'
      BY <1>9, <1>14, <1>15 DEF Engage!HoursOf
    <3>3. dayRow'.session # None => dayRow'.session + dayRow'.active <= dayRow'.at
      BY <1>5, <1>8, <1>14
    <3>4. \A c \in claims' : c[1] = "hourly" =>
             dayRow'.at # None /\ c[2] \in Nat /\ c[2] <= dayRow'.at
      BY <1>5, <1>16
    <3> QED  BY <1>5, <1>12, <1>13, <3>1, <3>2, <3>3, <3>4 DEF HourlyClaims
  <2> QED  BY <1>11, <1>16, <2>1, <2>2 DEF EngageInv
<1>17. CASE s = 0
  <2>1. /\ days' = days /\ weeks' = weeks /\ claims' = claims /\ grants' = grants
    BY <1>4, <1>17 DEF Engage!rewards
  <2>2. (DaysAreRuns /\ DailyClaims /\ WeeklyClaims /\ GrantsAreClaims)'
    <3>1. UNCHANGED <<policy, days, weeks, claims, grants>>
      BY <2>1
    <3> QED  BY <1>2, <1>5, <3>1, RewardsStay
  <2>3. DaysFitTheRow'
    <3>1. DaysTotal' = DaysTotal /\ WeeksTotal' = WeeksTotal
      BY <2>1 DEF DaysTotal, WeeksTotal
    <3>2. PICK first \in daySeen :
             (\A x \in daySeen : first <= x) /\ DaysTotal + first <= dayRow.at
      BY <1>1 DEF EngageInv, DaysFitTheRow
    <3>3. DaysTotal \in Nat /\ DaysTotal = WeeksTotal
      <4>f. PICK f : f = [d \in 0..LastDay |-> days[d].seconds]
        OBVIOUS
      <4>1. \A d \in 0..LastDay : f[d] \in Nat
        BY <4>f DEF EngageInv, EngageTyped
      <4>2. Total(f, 0..LastDay) \in Nat
        BY <4>1, DaysAreFinite, UnitsType
      <4> QED  BY <4>2, <4>f DEF DaysTotal, EngageInv, DaysFitTheRow
    <3>4. first \in Nat /\ first <= dayRow.at
      <4>1. daySeen \subseteq 0..dayClock /\ dayClock \in 0..Seconds
        BY DEF EngageInv, EngageTyped
      <4>2. daySeen \subseteq Nat
        BY <1>3, <4>1
      <4>3. \A x \in daySeen : x <= dayRow.at
        BY <1>1 DEF EngageInv, DayRowIsLatest
      <4> QED  BY <3>2, <4>2, <4>3
    <3>5. \A x \in daySeen' : first <= x
      BY <1>2, <3>2, <3>4
    <3>6. DaysTotal + first <= dayRow'.at
      BY <1>2, <1>5, <3>2, <3>3, <3>4
    <3> QED  BY <1>5, <3>1, <3>2, <3>3, <3>5, <3>6 DEF DaysFitTheRow
  <2>4. /\ days' \in [0..LastDay -> [seconds : Nat, streak : Nat]]
        /\ weeks' \in [0..LastWeek -> Nat]
        /\ \A c \in claims' : c[1] \in Engage!Kinds
    BY <2>1 DEF EngageInv, EngageTyped
  <2>5. \A c \in claims' : c[1] = "hourly" => c[2] \in Nat /\ c[2] <= dayRow.at
    BY <2>1 DEF EngageInv, HourlyClaims
  <2>6. \A c \in claims' : c[1] = "hourly" => c[2] \in Nat /\ c[2] <= o.now
    BY <1>2, <2>5
  <2>7. {c \in claims' : c[1] = "hourly" /\ c[2] = session} = Engage!HourlyGrants(session, 0, hours)
    <3>1. CASE Engage!Continuous(o)
      <4>1. hours = dayRow.hours
        BY <1>6, <1>h, <1>17, <3>1
      <4>2. ClaimsOf("hourly", dayRow.session) = Engage!HourlyGrants(dayRow.session, 0, dayRow.hours)
        BY <1>2, <3>1 DEF EngageInv, HourlyClaims
      <4> QED  BY <1>6, <2>1, <3>1, <4>1, <4>2 DEF ClaimsOf
    <3>2. CASE ~Engage!Continuous(o)
      <4>1. \A c \in claims' : c[1] = "hourly" => c[2] # o.now
        BY <1>2, <2>5
      <4>2. Engage!HourlyGrants(session, 0, 0) = {}
        BY DEF Engage!HourlyGrants
      <4> QED  BY <1>7, <3>2, <4>1, <4>2
    <3> QED  BY <3>1, <3>2
  <2> QED  BY <1>16, <2>2, <2>3, <2>4, <2>6, <2>7
<1>18. CASE s # 0
  <2>0. s \in Nat \ {0} /\ Engage!Continuous(o) /\ dayRow.session # None
    BY <1>2, <1>18
  <2>1. /\ session = dayRow.session /\ before = dayRow.hours /\ active = dayRow.active + s
        /\ hours = Engage!HoursOf(dayRow.active + s)
    BY <1>6, <1>9, <2>0
  <2>2. /\ days' = Engage!DaysAfter(o, s)
        /\ weeks' = [weeks EXCEPT ![Engage!WeekOf(o.now)] = @ + s]
        /\ Engage!Grant(NewClaims(o, s))
    BY <1>4, <1>18, <2>1 DEF NewClaims
  <2>3. DaysFitTheRow' /\ weeks' \in [0..LastWeek -> Nat]
    BY <1>1, <1>2, <1>5, <2>0, <2>2, TotalsAfter
  <2>4. DaysAreRuns'
    BY <1>1, <1>2, <1>5, <2>0, <2>2, StreaksAfter
  <2>5. days' \in [0..LastDay -> [seconds : Nat, streak : Nat]]
    <3>1. PICK D : D = days'
      OBVIOUS
    <3> QED  BY <2>0, <2>2, <3>1, DaysAfterAre
  <2>6. /\ DailyClaims' /\ WeeklyClaims' /\ GrantsAreClaims'
        /\ \A c \in claims' : c[1] \in Engage!Kinds
        /\ \A c \in claims' : c[1] = "hourly" => c[2] \in Nat /\ c[2] <= o.now
        /\ {c \in claims' : c[1] = "hourly" /\ c[2] = dayRow.session} =
              Engage!HourlyGrants(dayRow.session, 0, Engage!HoursOf(dayRow.active + s))
    BY <1>1, <1>2, <1>5, <2>0, <2>2, ClaimsAfter
  <2> QED  BY <1>16, <2>1, <2>3, <2>4, <2>5, <2>6
<1> QED  BY <1>17, <1>18

LEMMA EngageObserveStep ==
    ASSUME EngageInv, NEW t \in Threads, Engage!Observe(t), policy' = policy
    PROVE  EngageInv'
<1>o. PICK o : o = dayTick[t]
  OBVIOUS
<1>0. Seconds \in Nat /\ None \notin Nat
  BY EngageConstantsHold DEF EngageConstants
<1>1. EngageTyped
  BY DEF EngageInv
<1>2. o \in Observations /\ o.now <= dayClock
  BY <1>1, <1>o DEF EngageTyped
<1>3. /\ daySeen' = daySeen \cup {o.now} /\ dayTick' = [dayTick EXCEPT ![t] = Engage!Idle]
      /\ UNCHANGED <<dayClock, online, place>>
      /\ \/ Engage!FirstObservation(o)
         \/ Engage!LaterObservation(o)
         \/ dayRow.at # None /\ Engage!Replay(o)
            /\ UNCHANGED <<dayRow, days, weeks, claims, grants, blind>>
  BY <1>o DEF Engage!Observe, Engage!rewards
<1>4. Engage!Idle \in Observations /\ Engage!Idle.now = 0 /\ dayClock \in Nat
  BY <1>0, <1>1 DEF Engage!Idle, Observations, EngageTyped
<1>5. dayTick' \in [Threads -> Observations] /\ \A u \in Threads : dayTick'[u].now <= dayClock
  BY <1>1, <1>3, <1>4 DEF EngageTyped
<1>6. daySeen' \subseteq 0..dayClock
  <2>1. o.now \in 0..dayClock
    BY <1>0, <1>2, <1>4 DEF Observations
  <2> QED  BY <1>1, <1>3, <2>1 DEF EngageTyped
<1>7. CASE Engage!LaterObservation(o)
  BY <1>2, <1>3, <1>5, <1>7, LaterObservationStep
<1>8. ASSUME UNCHANGED <<days, weeks, claims, grants>>, dayRow' \in Checkpoints PROVE EngageTyped'
  BY <1>1, <1>3, <1>5, <1>6, <1>8 DEF EngageTyped
<1>9. CASE Engage!FirstObservation(o)
  <2>1. UNCHANGED <<days, weeks, claims, grants>>
    BY <1>9 DEF Engage!FirstObservation, Engage!rewards
  <2>2. dayRow' = [Engage!NoRow EXCEPT !.at = o.now, !.online = o.online, !.place = o.place,
                                       !.session = IF o.online THEN o.now ELSE None]
    BY <1>9 DEF Engage!FirstObservation
  <2>3. dayRow' \in Checkpoints
    BY <1>0, <1>2, <2>2 DEF Engage!NoRow, Checkpoints, Observations
  <2>4. EngageTyped'
    BY <1>8, <2>1, <2>3
  <2> QED  BY <1>2, <1>3, <1>9, <2>4, FirstObservationStep
<1>10. CASE /\ dayRow.at # None /\ Engage!Replay(o)
            /\ UNCHANGED <<dayRow, days, weeks, claims, grants, blind>>
  <2>1. UNCHANGED <<days, weeks, claims, grants>> /\ dayRow' \in Checkpoints
    BY <1>1, <1>10 DEF EngageTyped
  <2>2. EngageTyped'
    BY <1>8, <2>1
  <2> QED  BY <1>2, <1>3, <1>10, <2>2, OldObservationStep
<1> QED  BY <1>3, <1>7, <1>9, <1>10

LEMMA EngageInvStep == EngageInv /\ [LedgersNext]_allVars => EngageInv'
<1> SUFFICES ASSUME EngageInv, [LedgersNext]_allVars PROVE EngageInv'
  OBVIOUS
<1>0. Seconds \in Nat /\ None \notin Nat /\ EngageTyped
  BY EngageConstantsHold DEF EngageConstants, EngageInv
<1>1. CASE UNCHANGED dayVars
  <2>1. UNCHANGED dayStore
        /\ UNCHANGED <<dayClock, online, place, dayTick>>
    BY <1>1 DEF dayVars, dayStore
  <2>2. EngageTyped'
    BY <1>0, <2>1 DEF EngageTyped, dayStore
  <2> QED  BY <2>1, <2>2, StorelessStep
<1>2. CASE Engage!Next
  <2>p. policy' = policy
    BY <1>2 DEF Engage!Next
  <2>1. CASE Engage!Second
    <3>1. UNCHANGED dayStore /\ UNCHANGED dayTick
          /\ dayClock < Seconds /\ dayClock' = dayClock + 1 /\ online' \in BOOLEAN /\ place' \in Places
      BY <2>p, <2>1 DEF Engage!Second, Engage!rewards, dayStore
    <3>2. dayClock \in Nat /\ dayClock' \in 0..Seconds /\ 0..dayClock \subseteq 0..dayClock'
      BY <1>0, <3>1 DEF EngageTyped
    <3>3. \A t \in Threads : dayTick'[t].now <= dayClock'
      <4>1. \A t \in Threads : dayTick[t].now \in Nat /\ dayTick[t].now <= dayClock
        BY <1>0 DEF EngageTyped, Observations
      <4> QED  BY <3>1, <3>2, <4>1
    <3>4. daySeen' \subseteq 0..dayClock'
      BY <1>0, <3>1, <3>2 DEF EngageTyped, dayStore
    <3>5. EngageTyped'
      BY <1>0, <3>1, <3>2, <3>3, <3>4 DEF EngageTyped, dayStore
    <3> QED  BY <3>1, <3>5, StorelessStep
  <2>2. ASSUME NEW t \in Threads, NEW v \in Observations, v.now <= dayClock,
               dayTick' = [dayTick EXCEPT ![t] = v],
               UNCHANGED <<dayStore, dayClock, online, place>>
        PROVE  EngageInv'
    <3>1. UNCHANGED dayStore
      BY <2>2
    <3>2. dayTick' \in [Threads -> Observations] /\ \A u \in Threads : dayTick'[u].now <= dayClock
      BY <1>0, <2>2 DEF EngageTyped
    <3>3. EngageTyped'
      BY <1>0, <2>2, <3>2 DEF EngageTyped, dayStore
    <3> QED  BY <3>1, <3>3, StorelessStep
  <2>3. Engage!Idle \in Observations /\ Engage!Idle.now = 0 /\ dayClock \in 0..Seconds /\ dayClock \in Nat
    BY <1>0 DEF Engage!Idle, Observations, EngageTyped
  <2>4. ASSUME NEW t \in Threads, Engage!StartTick(t) PROVE EngageInv'
    <3>1. UNCHANGED <<dayStore, dayClock, online, place>>
          /\ dayTick' = [dayTick EXCEPT ![t] = [Engage!Idle EXCEPT !.pc = "query", !.now = dayClock]]
      BY <2>p, <2>4 DEF Engage!StartTick, Engage!rewards, dayStore
    <3>v. PICK v : v = [Engage!Idle EXCEPT !.pc = "query", !.now = dayClock]
      OBVIOUS
    <3>2. v \in Observations /\ v.now <= dayClock
      <4>1. v = [pc |-> "query", now |-> dayClock, online |-> FALSE, place |-> None]
        BY <3>v DEF Engage!Idle
      <4>2. v.now = dayClock /\ dayClock <= dayClock
        BY <2>3, <4>1
      <4> QED  BY <2>3, <4>1, <4>2 DEF Observations
    <3> QED  BY <2>2, <3>1, <3>2, <3>v
  <2>5. ASSUME NEW t \in Threads, Engage!Query(t) PROVE EngageInv'
    <3>1. UNCHANGED <<dayStore, dayClock, online, place>>
      BY <2>p, <2>5 DEF Engage!Query, Engage!rewards, dayStore
    <3>2. PICK p \in {place, None} :
             dayTick' = [dayTick EXCEPT ![t] =
                           [dayTick[t] EXCEPT !.pc = "observe", !.online = online, !.place = p]]
      BY <2>5 DEF Engage!Query
    <3>v. PICK v : v = [dayTick[t] EXCEPT !.pc = "observe", !.online = online, !.place = p]
      OBVIOUS
    <3>3. dayTick[t] \in Observations /\ dayTick[t].now <= dayClock /\ online \in BOOLEAN
          /\ p \in Places \cup {None}
      BY <1>0, <3>2 DEF EngageTyped
    <3>4. v \in Observations /\ v.now <= dayClock
      BY <3>3, <3>v DEF Observations
    <3> QED  BY <2>2, <3>1, <3>2, <3>4, <3>v
  <2>6. ASSUME NEW t \in Threads, Engage!Abort(t) PROVE EngageInv'
    <3>1. UNCHANGED <<dayStore, dayClock, online, place>>
          /\ dayTick' = [dayTick EXCEPT ![t] = Engage!Idle]
      BY <2>p, <2>6 DEF Engage!Abort, Engage!rewards, dayStore
    <3>2. Engage!Idle.now <= dayClock
      BY <2>3
    <3>v. PICK v : v = Engage!Idle
      OBVIOUS
    <3> QED  BY <2>2, <2>3, <3>1, <3>2, <3>v
  <2> QED
    BY <1>2, <2>p, <2>1, <2>4, <2>5, <2>6, EngageObserveStep DEF Engage!Next
<1> QED
  BY <1>1, <1>2 DEF LedgersNext, RunLedger, RunShop, RunPlay, RunEngage, allVars

(* The instance has its own names for these operators. *)
LEMMA EngageTotals == ASSUME NEW f, NEW S PROVE Engage!Total(f, S) = Total(f, S)
BY DEF Engage!Total, Total, Engage!Units, Units, Engage!Cardinality, Cardinality

LEMMA EngageCardinality == ASSUME NEW S PROVE Engage!Cardinality(S) = Cardinality(S)
BY DEF Engage!Cardinality, Cardinality

LEMMA EngageInvMeans == EngageInv => EngagementIsEarned
<1> SUFFICES ASSUME EngageInv PROVE EngagementIsEarned
  OBVIOUS
<1>0. /\ Seconds \in Nat /\ None \notin Nat /\ EngageTyped
      /\ Engage!AllDays = 0..LastDay /\ Engage!AllWeeks = 0..LastWeek /\ LastDay \in Nat
  BY EngageConstantsHold, DaysAreFinite DEF EngageConstants, EngageInv
<1>1. dayRow \in Checkpoints /\ dayRow.at \in {None} \cup 0..Seconds
  BY <1>0 DEF EngageTyped, Checkpoints
<1>2. Engage!TypeOK
  <2>1. dayRow.active \in 0..Seconds /\ dayRow.hours \in 0..Engage!MaxHours
    <3>1. CASE dayRow.session = None
      <4>1. dayRow.active = 0 /\ dayRow.hours = 0
        BY <3>1 DEF EngageInv, HourlyClaims
      <4>2. Engage!MaxHours \in Nat
        BY <1>0, HoursAre DEF EngageTyped
      <4> QED  BY <1>0, <4>1, <4>2
    <3>2. CASE dayRow.session # None
      <4>1. /\ dayRow.at # None /\ dayRow.session + dayRow.active <= dayRow.at
            /\ dayRow.hours = Engage!HoursOf(dayRow.active)
        BY <3>2 DEF EngageInv, HourlyClaims
      <4>2. dayRow.active \in Nat /\ dayRow.session \in 0..Seconds /\ dayRow.at \in 0..Seconds
        BY <1>1, <3>2, <4>1 DEF Checkpoints
      <4>3. dayRow.active \in 0..Seconds
        BY <1>0, <4>1, <4>2
      <4>4. dayRow.hours \in Nat /\ dayRow.hours <= Engage!MaxHours /\ Engage!MaxHours \in Nat
        BY <1>0, <4>1, <4>2, HoursAre DEF EngageTyped
      <4> QED  BY <4>3, <4>4
    <3> QED  BY <3>1, <3>2
  <2> QED  BY <1>0, <1>1, <2>1 DEF EngageTyped, Engage!TypeOK, EngageInv, DaysAreRuns
<1>3. Engage!ActiveTimeIsReal
  <2>1. /\ Engage!Total([d \in Engage!AllDays |-> days[d].seconds], Engage!AllDays) = DaysTotal
        /\ Engage!Total(weeks, Engage!AllWeeks) = WeeksTotal
    BY <1>0, EngageTotals DEF DaysTotal, WeeksTotal
  <2>2. DaysTotal \in Nat
    <3>f. PICK f : f = [d \in 0..LastDay |-> days[d].seconds]
      OBVIOUS
    <3>1. \A d \in 0..LastDay : f[d] \in Nat
      BY <1>0, <3>f DEF EngageTyped
    <3>2. Total(f, 0..LastDay) \in Nat
      BY <3>1, DaysAreFinite, UnitsType
    <3> QED  BY <3>2, <3>f DEF DaysTotal
  <2>3. DaysTotal <= IF daySeen = {} THEN 0 ELSE Engage!Max(daySeen) - Engage!Min(daySeen)
    <3>1. CASE dayRow.at = None
      <4>1. DaysTotal = 0 /\ daySeen = {}
        BY <3>1 DEF EngageInv, DaysFitTheRow, DayRowIsLatest
      <4> QED  BY <4>1
    <3>2. CASE dayRow.at # None
      <4>1. daySeen \in SUBSET Nat
        <5>1. dayClock \in 0..Seconds /\ daySeen \subseteq 0..dayClock
          BY <1>0 DEF EngageTyped
        <5> QED  BY <1>0, <5>1
      <4>2. dayRow.at \in daySeen /\ \A x \in daySeen : x <= dayRow.at
        BY <3>2 DEF EngageInv, DayRowIsLatest
      <4>3. PICK first \in daySeen :
               (\A x \in daySeen : first <= x) /\ DaysTotal + first <= dayRow.at
        BY <3>2 DEF EngageInv, DaysFitTheRow
      <4>4. Engage!Max(daySeen) = dayRow.at
        BY <4>1, <4>2, PlayMax, SameExtremes
      <4>5. Engage!Min(daySeen) = first
        BY <4>1, <4>3, PlayMin, SameExtremes
      <4>6. first \in Nat /\ dayRow.at \in Nat
        BY <4>1, <4>2
      <4> QED  BY <2>2, <4>2, <4>3, <4>4, <4>5, <4>6
    <3> QED  BY <3>1, <3>2
  <2> QED  BY <2>1, <2>3 DEF EngageInv, DaysFitTheRow, Engage!ActiveTimeIsReal
<1>4. Engage!StreakIsARun
  <2>1. ASSUME NEW d \in 0..LastDay
        PROVE  {e \in Engage!AllDays : e <= d /\ \A x \in e..d : Engage!HasRow(x)}
                  = UnbrokenRun(ActiveDays, d)
    <3>1. \A e \in 0..LastDay : e <= d <=> e \in 0..d
      BY <1>0
    <3>2. 0..d \subseteq 0..LastDay
      BY <1>0
    <3>3. \A e \in 0..d : \A x \in e..d : x \in 0..LastDay
      BY <1>0
    <3> QED  BY <1>0, <3>1, <3>2, <3>3 DEF UnbrokenRun, ActiveDays
  <2>2. \A d \in 0..LastDay : Engage!HasRow(d) =>
           days[d].streak = Cardinality(UnbrokenRun(ActiveDays, d))
    BY DEF EngageInv, DaysAreRuns
  <2> QED  BY <1>0, <2>1, <2>2, EngageCardinality DEF Engage!StreakIsARun
<1>5. Engage!ClaimsMatchActivity
  <2>1. \A d \in 0..LastDay :
           ClaimsOf("daily", d) = IF Engage!HasRow(d) THEN DailyOf(d, days[d].streak) ELSE {}
    BY DEF EngageInv, DailyClaims
  <2>2. \A w \in 0..LastWeek : ClaimsOf("weekly", w) = WeeklyOf(w, weeks[w])
    BY DEF EngageInv, WeeklyClaims
  <2> QED  BY <1>0, <2>1, <2>2 DEF ClaimsOf, DailyOf, WeeklyOf, Engage!ClaimsMatchActivity
<1>6. Engage!HoursAreEarned
  BY DEF EngageInv, HourlyClaims, GrantsAreClaims, ClaimsOf, Engage!HoursAreEarned
<1> QED  BY <1>2, <1>3, <1>4, <1>5, <1>6 DEF EngagementIsEarned

(* However the ticks of two threads interleave, abort or come late: active  *)
(* seconds are counted once, streaks are unbroken runs of active days, and  *)
(* every daily, weekly and hourly claim is what was played for              *)
(* (observe_engagement).                                                    *)
THEOREM LedgersKeepEngagement == LedgersSpec => []EngagementIsEarned
<1>1. EngageInv => EngagementIsEarned
  BY EngageInvMeans
<1> QED  BY <1>1, EngageInvInit, EngageInvStep, PTL DEF LedgersSpec
=============================================================================
