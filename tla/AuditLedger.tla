---------------------------- MODULE AuditLedger ----------------------------
(***************************************************************************)
(* The mutation flight recorder's store, admin/audit_ledger.py (class      *)
(* Store), as the threads of one admin panel process use it, and the       *)
(* separate process that copies it, scripts/snapshot-audit-ledger.py.      *)
(*                                                                         *)
(* append() commits the event to SQLite and then replaces the anchor file; *)
(* a crash or an I/O error between the two leaves the database one event   *)
(* ahead of its anchor.  A full verification is cached for VerifyCache     *)
(* time units while the artifacts' signature (inode, size, mtime) does not *)
(* change; append() carries a cached verification over its own writes.     *)
(*                                                                         *)
(* HMACs are abstracted to what they detect: "damage" says that a stored   *)
(* row, the key or the triggers no longer verify.                          *)
(***************************************************************************)
EXTENDS Integers, Sequences

CONSTANTS
    Threads,      \* handler and worker threads of the panel
    Events,       \* records [id, body]: eventId and canonical payload
    VerifyCache,  \* VERIFY_CACHE_SECONDS
    MaxClock,     \* bound on time.monotonic()
    None

ASSUME ConstantsAssumption ==
    /\ VerifyCache \in Nat
    /\ MaxClock \in Nat
    /\ None \notin Threads

VARIABLES
    log,      \* table events, in sequence order
    anchor,   \* the sequence in audit-ledger.anchor.json
    damage,   \* "none", or when the artifacts were changed from outside:
              \* "quiet" while no call held the store's lock, else "racing"
    lock,     \* holder of Store.lock
    cache,    \* _verified_integrity, _verified_artifacts and _verified_at
    call,     \* the append() or verify() a thread is in
    acked,    \* history: events whose append() returned success
    snap,     \* the copying process and the copy it made
    clock     \* time.monotonic()

vars == <<log, anchor, damage, lock, cache, call, acked, snap, clock>>
store == <<log, anchor, damage, acked>>

NoCache == [held |-> FALSE, current |-> FALSE, at |-> 0]
Idle    == [pc |-> "idle", event |-> None, required |-> FALSE,
            cached |-> FALSE, scanned |-> FALSE]
NoSnap  == [pc |-> "idle", anchor |-> 0, log |-> << >>]

Init ==
    /\ log = << >> /\ anchor = 0 /\ damage = "none"
    /\ lock = None /\ cache = NoCache
    /\ call = [t \in Threads |-> Idle]
    /\ acked = {} /\ snap = NoSnap /\ clock = 0

-----------------------------------------------------------------------------

(* Fault: a head that is ahead of its anchor is accepted. *)
HeadMatches_Ahead == anchor <= Len(log)

(* _assert_head, and the last comparison of _verify_connection. *)
HeadMatches == anchor = Len(log)

(* _verify_connection: the complete scan succeeds. *)
ScanSucceeds == damage = "none" /\ HeadMatches

(* Fault: the artifacts' signature is not compared. *)
CacheHit_Unsigned == cache.held /\ clock - cache.at <= VerifyCache

(* _cached_verification returns a result. *)
CacheHit == cache.held /\ cache.current /\ clock - cache.at <= VerifyCache

(* _remember_verification: the signature is taken now. *)
Remembered == [held |-> TRUE, current |-> TRUE, at |-> clock]

(* The artifacts changed since their signature was taken. *)
Outdated == [cache EXCEPT !.current = FALSE]

IdInLog(e) == \E k \in DOMAIN log : log[k].id = e.id

Leave(t) == lock' = None /\ call' = [call EXCEPT ![t] = Idle]

-----------------------------------------------------------------------------
(* append() *)

(* The store's lock is taken and the cache consulted. *)
AppendBegin(t) ==
    /\ lock = None /\ call[t].pc = "idle"
    /\ lock' = t
    /\ \E e \in Events, required \in BOOLEAN :
         call' = [call EXCEPT ![t] =
                    [pc |-> "commit", event |-> e, required |-> required,
                     cached |-> CacheHit, scanned |-> FALSE]]
    /\ UNCHANGED <<store, cache, snap, clock>>

(* Fault: the head is not compared when the chain was verified. *)
Admits_Unanchored(c) == c.required /\ ~ c.cached => ScanSucceeds

(* "begin immediate": verify_chain scans unless a cached result is there,
   then the head must match the anchor. *)
Admits(c) ==
    /\ c.required /\ ~ c.cached => ScanSucceeds
    /\ HeadMatches

AppendCommit(t) ==
    LET c == call[t] IN
    /\ c.pc = "commit" /\ Admits(c) /\ ~ IdInLog(c.event)
    /\ log' = Append(log, c.event)
    /\ cache' = Outdated
    /\ call' = [call EXCEPT ![t] = [@ EXCEPT
                  !.pc = "anchor", !.scanned = c.required /\ ~ c.cached]]
    /\ UNCHANGED <<anchor, damage, lock, acked, snap, clock>>

(* The same event is already there: the receipt is returned again. *)
AppendIdempotent(t) ==
    LET c == call[t] IN
    /\ c.pc = "commit" /\ Admits(c)
    /\ \E k \in DOMAIN log : log[k] = c.event
    /\ acked' = acked \cup {c.event}
    /\ Leave(t)
    /\ UNCHANGED <<log, anchor, damage, cache, snap, clock>>

(* Verification, the head check or the id check fails, or SQLite does. *)
AppendRefused(t) ==
    /\ call[t].pc = "commit"
    /\ cache' = NoCache
    /\ Leave(t)
    /\ UNCHANGED <<store, snap, clock>>

WriteAnchor(t) ==
    /\ call[t].pc = "anchor"
    /\ anchor' = Len(log)
    /\ cache' = Outdated
    /\ call' = [call EXCEPT ![t] = [@ EXCEPT !.pc = "remember"]]
    /\ UNCHANGED <<log, damage, lock, acked, snap, clock>>

(* The anchor, its mode or the signature cannot be written or read: the
   caller gets an error although the event is committed. *)
AppendFailsLate(t) ==
    /\ call[t].pc \in {"anchor", "remember"}
    /\ cache' = NoCache
    /\ Leave(t)
    /\ UNCHANGED <<store, snap, clock>>

AppendReturn(t) ==
    LET c == call[t] IN
    /\ c.pc = "remember"
    /\ cache' = IF c.cached \/ c.scanned THEN Remembered ELSE NoCache
    /\ acked' = acked \cup {c.event}
    /\ Leave(t)
    /\ UNCHANGED <<log, anchor, damage, snap, clock>>

-----------------------------------------------------------------------------
(* verify(): status, scrapes, request_state; force=True is a cache miss. *)

VerifyBegin(t) ==
    /\ lock = None /\ call[t].pc = "idle" /\ ScanSucceeds
    /\ lock' = t
    /\ call' = [call EXCEPT ![t] = [@ EXCEPT !.pc = "verified"]]
    /\ UNCHANGED <<store, cache, snap, clock>>

VerifyReturn(t) ==
    /\ call[t].pc = "verified"
    /\ cache' = Remembered
    /\ Leave(t)
    /\ UNCHANGED <<store, snap, clock>>

-----------------------------------------------------------------------------
(* scripts/snapshot-audit-ledger.py: key and anchor are copied first, the
   database later, and the copy must verify; else it tries again. *)

SnapAnchor ==
    /\ snap.pc = "idle"
    /\ snap' = [pc |-> "copying", anchor |-> anchor, log |-> << >>]
    /\ UNCHANGED <<store, lock, cache, call, clock>>

SnapVerifies == damage = "none" /\ snap.anchor = Len(log)

SnapDatabase ==
    /\ snap.pc = "copying"
    /\ snap' = IF SnapVerifies
                 THEN [pc |-> "done", anchor |-> snap.anchor, log |-> log]
                 ELSE NoSnap
    /\ UNCHANGED <<store, lock, cache, call, clock>>

-----------------------------------------------------------------------------
(* The environment. *)

(* The process stops and a new one starts. *)
Restart ==
    /\ lock' = None /\ cache' = NoCache
    /\ call' = [t \in Threads |-> Idle]
    /\ UNCHANGED <<store, snap, clock>>

(* Bit rot, a stray write or a chmod changes an artifact. *)
Damage ==
    /\ damage = "none"
    /\ damage' = IF lock = None THEN "quiet" ELSE "racing"
    /\ cache' = Outdated
    /\ UNCHANGED <<log, anchor, lock, call, acked, snap, clock>>

Tick ==
    /\ clock < MaxClock
    /\ clock' = clock + 1
    /\ UNCHANGED <<store, lock, cache, call, snap>>

Next ==
    \/ \E t \in Threads :
         \/ AppendBegin(t) \/ AppendCommit(t) \/ AppendIdempotent(t)
         \/ AppendRefused(t) \/ WriteAnchor(t) \/ AppendFailsLate(t)
         \/ AppendReturn(t) \/ VerifyBegin(t) \/ VerifyReturn(t)
    \/ SnapAnchor \/ SnapDatabase
    \/ Restart \/ Damage \/ Tick

Spec == Init /\ [][Next]_vars

-----------------------------------------------------------------------------
(* Properties. *)

CallType ==
    [pc : {"idle", "commit", "anchor", "remember", "verified"},
     event : Events \cup {None}, required : BOOLEAN, cached : BOOLEAN,
     scanned : BOOLEAN]

(* Type invariant: the store, its cache and the calls keep their shape. *)
TypeOK ==
    /\ log \in Seq(Events) /\ anchor \in Nat
    /\ damage \in {"none", "quiet", "racing"}
    /\ lock \in Threads \cup {None}
    /\ cache \in [held : BOOLEAN, current : BOOLEAN, at : Nat]
    /\ call \in [Threads -> CallType]
    /\ \A t \in Threads :
         call[t].pc \in {"commit", "anchor", "remember"} =>
           call[t].event \in Events
    /\ acked \subseteq Events
    /\ snap \in [pc : {"idle", "copying", "done"}, anchor : Nat,
                 log : Seq(Events)]
    /\ clock \in Nat

(* The anchor never runs ahead of the database and never lags by more than
   the single event that a crash or an I/O error can leave unsealed
   (append, lines 289-361). *)
AnchorLagsByAtMostOne == anchor \in {Len(log) - 1, Len(log)}

(* An append that reported success is in the sealed part of the ledger,
   whatever crashes and failures came later; no event id is there twice. *)
AckedIsSealed ==
    /\ \A e \in acked : \E k \in 1..anchor : log[k] = e
    /\ \A j, k \in DOMAIN log : log[j].id = log[k].id => j = k

(* Fail closed: once an append stopped between commit and anchor, the
   ledger takes and acknowledges nothing more, in this process or the next
   (_assert_head, lines 278-287). *)
UnsealedHeadClosesLedger ==
    [][~ HeadMatches /\ (\A t \in Threads : call[t].pc # "anchor")
         => UNCHANGED <<log, anchor, acked>>]_vars

(* Damage done while nobody is in the store is never overlooked: no
   verify_chain append commits on top of it, cached result or not
   (_cached_verification, lines 79-89, and append). *)
QuietDamageIsCaught ==
    [][damage = "quiet" =>
         \A t \in Threads : call[t].required /\ call[t].pc = "commit" =>
           call'[t].pc # "anchor"]_vars

(* A copy taken by the other process while the panel appends is one that
   the ledger really had, with its anchor: sealed to its end and a prefix
   of what the ledger holds now (snapshot, lines 22-72). *)
SnapshotIsConsistent ==
    snap.pc = "done" =>
      /\ snap.anchor = Len(snap.log)
      /\ snap.log = SubSeq(log, 1, Len(snap.log))

(* What a reader of the ledger, of its anchor or of a copy relies on. *)
LedgerIsSound ==
    TypeOK /\ AnchorLagsByAtMostOne /\ AckedIsSealed /\ SnapshotIsConsistent

(* The store keeps the promise its callers rely on. *)
SL == INSTANCE SealedLog WITH sealed <- anchor
ImplementsSealedLog == SL!Spec

(* docs/audit-ledger.md: "DASH checks the complete chain before every
   fail-closed privileged admission"; append() accepts a cached result. *)
AdmissionScansChain ==
    \A t \in Threads : call[t].required /\ call[t].pc = "anchor" =>
      call[t].scanned

=============================================================================
