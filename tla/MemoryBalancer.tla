--------------------------- MODULE MemoryBalancer ---------------------------
(***************************************************************************)
(* The memory balancer: every tick moves 1 GiB of container limit from a   *)
(* map with room to the most pressured one.  The limits from before are    *)
(* kept in a state file, per container, and put back when the balancer is  *)
(* disabled.  Operators set limits by hand beside it: Docker first, the    *)
(* state file after, the lock for the second only.                         *)
(*                                                                         *)
(* Amounts are in GiB.  `steps` are the Docker updates that the holder of  *)
(* the lock still has to do, each of which may fail, having had its effect *)
(* or not.                                                                 *)
(***************************************************************************)
EXTENDS Naturals, Sequences, SequencesExt

CONSTANTS
    Maps,
    Actors,      \* the worker and requests
    Worker,
    Host,        \* the host's memory: the limit Docker reports for no limit
    Default,     \* limit of a fresh container
    Sets,        \* limits set by operators, Host to unset one
    Uses,        \* what a map may use
    Stopped,     \* maps that do not run at first
    Fails,       \* Docker updates fail and the panel crashes
    Again,       \* an enabled balancer is enabled
    None

MemoryAssumption ==
    /\ Worker \in Actors /\ Stopped \subseteq Maps /\ {Fails, Again} \subseteq BOOLEAN
    /\ {Host, Default} \cup Sets \cup Uses \subseteq Nat \ {0}

VARIABLES
    file,      \* memory-balancer.json: [on, base], base: map -> limit or None
    mem,       \* what the holder of the lock is going to write
    steps,     \* his Docker updates: [map, limit]
    back,      \* the update that undoes the first one of a tick
    failed,    \* one of his updates failed: he raises
    lock,      \* MEMORY_BALANCER_LOCK
    pc, job,   \* actor -> "idle", "act" or "record"; the limit he set by hand
    running, limit, used,
    wanted     \* history, map -> limit before the balancer, or as last set

vars == <<file, mem, steps, back, failed, lock, pc, job, running, limit, used, wanted>>
docker == <<running, used, wanted>>

Off == [on |-> FALSE, base |-> [m \in Maps |-> None]]
Running == {m \in Maps : running[m]}

Init ==
    /\ file = Off /\ mem = Off /\ steps = <<>> /\ back = <<>> /\ failed = FALSE
    /\ lock = None /\ pc = [a \in Actors |-> "idle"] /\ job = [a \in Actors |-> None]
    /\ running = [m \in Maps |-> m \notin Stopped]
    /\ limit = [m \in Maps |-> Default] /\ wanted = limit
    /\ used \in [Maps -> {u \in Uses : u <= Default}]

-----------------------------------------------------------------------------
(* memory_balancer_tick: whom it would help, and who may give.             *)
Targets == {m \in Running : used[m] * 100 >= 90 * limit[m]}
MorePressed(m, n) == used[m] * limit[n] > used[n] * limit[m]
Target(m) == m \in Targets /\ \A n \in Targets : ~MorePressed(n, m)

MayGive(m) ==
    /\ limit[m] - 1 >= used[m] + 1 /\ used[m] * 100 <= 80 * (limit[m] - 1)
    /\ used[m] * 100 <= 70 * limit[m]
Donors(t) == {m \in Running \ {t} : MayGive(m)}
Donor(t, m) ==
    m \in Donors(t) /\ \A n \in Donors(t) :
        ~MorePressed(m, n) /\ (MorePressed(n, m) \/ limit[n] <= limit[m])

(* Fault: a tick captures the limits of every map again. *)
Captured_Anew(base) == [m \in Maps |-> IF running[m] THEN limit[m] ELSE base[m]]
Captured(base) == [m \in Maps |-> IF running[m] /\ base[m] = None THEN limit[m] ELSE base[m]]

Move(t, d) == <<[map |-> t, limit |-> limit[t] + 1], [map |-> d, limit |-> limit[d] - 1]>>

Take(a) == lock = None /\ lock' = a /\ pc[a] = "idle" /\ pc' = [pc EXCEPT ![a] = "act"] /\ failed' = FALSE

Tick(a) ==
    /\ Take(a) /\ file.on
    /\ mem' = [on |-> TRUE, base |-> Captured(file.base)]
    /\ \/ \E t, d \in Maps : Target(t) /\ Donor(t, d) /\ steps' = Move(t, d)
                             /\ back' = <<[map |-> t, limit |-> limit[t]]>>
       \/ (\A t \in Targets : Donors(t) = {}) /\ steps' = <<>> /\ back' = <<>>
    /\ UNCHANGED <<file, job, limit, docker>>

(* set_memory_balancer_enabled(False); `order` is the order of the file. *)
Disable(a) ==
    /\ a # Worker /\ Take(a) /\ file.on
    /\ mem' = Off /\ back' = <<>>
    /\ \E order \in SetToSeqs({m \in Running : file.base[m] # None}) :
         steps' = [i \in DOMAIN order |-> [map |-> order[i], limit |-> file.base[order[i]]]]
    (* What does not run keeps what it has: it is not the balancer's any more. *)
    /\ wanted' = [m \in Maps |-> IF running[m] THEN wanted[m] ELSE limit[m]]
    /\ UNCHANGED <<file, job, limit, running, used>>

Update(a) ==
    /\ pc[a] = "act" /\ steps # <<>>
    /\ limit' = [limit EXCEPT ![Head(steps).map] = Head(steps).limit]
    /\ steps' = Tail(steps)
    /\ UNCHANGED <<file, mem, back, failed, lock, pc, job, docker>>

(* A tick undoes its first update when the second fails; restoring goes on. *)
UpdateFails(a) ==
    /\ Fails /\ pc[a] = "act" /\ steps # <<>>
    /\ \/ UNCHANGED limit
       \/ limit' = [limit EXCEPT ![Head(steps).map] = Head(steps).limit]
    /\ steps' = IF ~mem.on THEN Tail(steps)
                ELSE IF Len(steps) = 1 /\ ~failed THEN back ELSE <<>>
    /\ failed' = TRUE
    /\ UNCHANGED <<file, mem, back, lock, pc, job, docker>>

Finish(a) ==
    /\ pc[a] = "act" /\ steps = <<>>
    /\ file' = IF failed THEN file ELSE mem
    /\ mem' = Off /\ back' = <<>> /\ failed' = FALSE
    /\ lock' = None /\ pc' = [pc EXCEPT ![a] = "idle"]
    /\ UNCHANGED <<steps, job, limit, docker>>

(* set_memory_balancer_enabled(True) *)
Enable(a) ==
    /\ a # Worker /\ pc[a] = "idle" /\ lock = None /\ (file.on => Again)
    /\ file' = [on |-> TRUE, base |-> [m \in Maps |-> IF running[m] THEN limit[m] ELSE None]]
    /\ UNCHANGED <<mem, steps, back, failed, lock, pc, job, limit, docker>>

(* set_map_memory; no limit is Host, and no baseline.                      *)
SetLimit(a, m, l) ==
    /\ a # Worker /\ pc[a] = "idle" /\ running[m]
    /\ limit' = [limit EXCEPT ![m] = l] /\ wanted' = [wanted EXCEPT ![m] = l]
    /\ used' = [used EXCEPT ![m] = IF @ > l THEN l ELSE @]
    /\ pc' = [pc EXCEPT ![a] = "record"] /\ job' = [job EXCEPT ![a] = [map |-> m, limit |-> l]]
    /\ UNCHANGED <<file, mem, steps, back, failed, lock, running>>

Recorded(l) == [file EXCEPT !.base[l.map] = IF l.limit = Host THEN None ELSE l.limit]

Record(a) ==
    /\ pc[a] = "record" /\ lock = None
    /\ file' = IF file.on THEN Recorded(job[a]) ELSE file
    /\ pc' = [pc EXCEPT ![a] = "idle"] /\ job' = [job EXCEPT ![a] = None]
    /\ UNCHANGED <<mem, steps, back, failed, lock, limit, docker>>

-----------------------------------------------------------------------------
(* Maps start and stop, and use more or less.  A fresh container appears   *)
(* only while nobody works on the old one.                                 *)
Use(m, u) ==
    /\ running[m] /\ u <= limit[m] /\ u # used[m] /\ used' = [used EXCEPT ![m] = u]
    /\ UNCHANGED <<file, mem, steps, back, failed, lock, pc, job, running, limit, wanted>>

Stop(m) ==
    /\ Stopped # {} /\ running[m] /\ running' = [running EXCEPT ![m] = FALSE]
    /\ UNCHANGED <<file, mem, steps, back, failed, lock, pc, job, limit, used, wanted>>

Start(m) ==
    /\ ~running[m] /\ running' = [running EXCEPT ![m] = TRUE]
    /\ UNCHANGED <<file, mem, steps, back, failed, lock, pc, job, limit, used, wanted>>

StartFresh(m) ==
    /\ ~running[m] /\ running' = [running EXCEPT ![m] = TRUE]
    /\ \A a \in Actors : pc[a] = "idle"
    /\ limit' = [limit EXCEPT ![m] = Default] /\ wanted' = [wanted EXCEPT ![m] = Default]
    /\ used' = [used EXCEPT ![m] = IF @ > Default THEN Default ELSE @]
    /\ file' = [file EXCEPT !.base[m] = None]
    /\ UNCHANGED <<mem, steps, back, failed, lock, pc, job>>

Crash ==
    /\ Fails /\ lock # None
    /\ mem' = Off /\ steps' = <<>> /\ back' = <<>> /\ failed' = FALSE /\ lock' = None
    /\ pc' = [a \in Actors |-> IF pc[a] = "act" THEN "idle" ELSE pc[a]]
    /\ UNCHANGED <<file, job, limit, docker>>

Balance == \E a \in Actors : Tick(a) \/ Update(a) \/ UpdateFails(a) \/ Finish(a)
Operate ==
    \E a \in Actors : Enable(a) \/ Disable(a) \/ Record(a)
                      \/ \E m \in Maps, l \in Sets : SetLimit(a, m, l)
Environment ==
    \/ \E m \in Maps : Stop(m) \/ Start(m) \/ StartFresh(m) \/ \E u \in Uses : Use(m, u)
    \/ Crash

Next == Balance \/ Operate \/ Environment

Spec == Init /\ [][Next]_vars

(* The worker comes back every 10 s; Docker requests have a timeout.       *)
FairSpec ==
    /\ Spec /\ SF_vars(Tick(Worker))
    /\ \A a \in Actors : WF_vars(Update(a)) /\ WF_vars(Finish(a)) /\ WF_vars(Record(a))

-----------------------------------------------------------------------------
(* Properties.                                                             *)
(* The variables stay in their sets; updates are done by the holder of     *)
(* the lock, and a limit never reaches zero (for Docker: no limit).        *)
TypeOK ==
    /\ \A s \in {file, mem} : s.on \in BOOLEAN /\ DOMAIN s.base = Maps
                              /\ \A m \in Maps : s.base[m] \in Nat \cup {None}
    /\ file.on \/ file = Off
    /\ \A a \in Actors : pc[a] = "act" <=> lock = a
    /\ lock = None => steps = <<>> /\ ~failed
    /\ \A m \in Maps : limit[m] \in Nat \ {0} /\ wanted[m] \in Nat \ {0}

(* When the balancer is off again, every running map has the limit it had  *)
(* before, or the one an operator set (docs/autoscaling-memory.md:         *)
(* "Disabling restores all still-running captured baselines").             *)
Restored == \A m \in Maps : (running'[m] /\ running[m]) => limit'[m] = wanted'[m]
DisablingRestores == [][file.on /\ ~file'.on => Restored]_vars

(* When what maps use and who runs does not change any more, the limits    *)
(* come to rest: no GiB goes back and forth for ever (memory_balancer_tick,*)
(* its 90, 80 and 70 percent).                                             *)
Steady == [][UNCHANGED <<used, running, wanted, file>>]_vars
Settles == <>Steady => <>[][UNCHANGED limit]_vars
=============================================================================
