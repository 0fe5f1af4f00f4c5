--------------------------- MODULE AssuredDeploy ----------------------------
(***************************************************************************)
(* Assured deployments: the host runner assured-control-plane-deploy.sh,   *)
(* the panel's requests to start, finish and cancel a change window, and   *)
(* the store of windows and signed receipts.                               *)
(*                                                                         *)
(* Runs are executions of the runner for one deployment (same commit, same *)
(* reason: a deployment is repeated until it succeeds), one at a time      *)
(* under the operation lock. A request that the runner stops waiting for   *)
(* goes on in the panel. The game's maps are told by the number of their   *)
(* last start, backups by the run that made them.                          *)
(***************************************************************************)
EXTENDS Naturals, Sequences, FiniteSets, SequencesExt

CONSTANTS
    MaxRuns, MaxBoots,  \* bounds: runs, map restarts
    MaxDeaths,  \* bound: panel deaths, and writes that fail
    Handlers,   \* requests in progress in the panel
    MaxWindows, MaxReceipts,        \* bounds: what the store holds
    None

AssuredAssumption ==
    {MaxRuns, MaxBoots, MaxDeaths, MaxWindows, MaxReceipts} \subseteq Nat

VARIABLES
    boots,      \* starts of the maps
    deaths,     \* deaths of the panel, and writes that failed
    run,        \* the run in progress: [id, pc, window, handler]
    runs,       \* history: runs that ended, id -> [ok, window, own]
    windows,    \* deployment-window files
    receipts,   \* signed receipts, by time of writing
    handler,    \* Handlers -> request in progress
    lock,       \* deployment_assurance.LOCK
    torn        \* history: windows left open after the receipt was written

store == <<windows, receipts, torn>>
vars == <<boots, deaths, run, runs, store, handler, lock>>

NoHandler == [pc |-> "idle", window |-> 0, run |-> 0, boot |-> 0, answer |-> None]
NoRun == [id |-> 0, pc |-> "none", window |-> 0, handler |-> None, own |-> FALSE]

Init ==
    /\ boots = 0 /\ deaths = 0
    /\ run = NoRun /\ runs = <<>>
    /\ windows = <<>> /\ receipts = <<>> /\ torn = {}
    /\ handler = [h \in Handlers |-> NoHandler] /\ lock = None

-----------------------------------------------------------------------------
(* The panel.                                                              *)
Reply(h, answer) == [handler EXCEPT ![h] = [@ EXCEPT !.pc = "done", !.answer = answer]]

(* deployment_assurance_start: backup and archive are verified, the maps   *)
(* looked at; any of it may be refused. The window's id is fresh.          *)
StartLooks(h) ==
    /\ handler[h].pc = "start"
    /\ \/ handler' = [handler EXCEPT ![h] = [@ EXCEPT !.pc = "open", !.boot = boots]]
       \/ handler' = Reply(h, "error")
    /\ UNCHANGED <<boots, deaths, run, runs, store, lock>>

StartWrites(h) ==
    /\ handler[h].pc = "open" /\ lock = None /\ Len(windows) < MaxWindows
    /\ windows' = Append(windows, [status |-> "open", boot |-> handler[h].boot, expired |-> FALSE,
                                   backup |-> handler[h].run, opened |-> boots])
    /\ handler' = [Reply(h, "started") EXCEPT ![h].window = Len(windows')]
    /\ UNCHANGED <<boots, deaths, run, runs, receipts, torn, lock>>

(* deployment_assurance_finish: the gates of health, then the maps, before *)
(* the store's lock.                                                       *)
FinishLooks(h) ==
    /\ handler[h].pc = "finish"
    /\ \/ handler' = [handler EXCEPT ![h] = [@ EXCEPT !.pc = "store", !.boot = boots]]
       \/ handler' = Reply(h, "waiting")
    /\ UNCHANGED <<boots, deaths, run, runs, store, lock>>

(* Store.finish under LOCK *)
(* Fault: only a finished window is refused. *)
Finishable_Cancelled(w) == windows[w].status # "completed" /\ ~windows[w].expired
Finishable(w) == windows[w].status = "open" /\ ~windows[w].expired

Ready(h) == windows[handler[h].window].boot = handler[h].boot

(* The files of the workspace may have been changed since, and do not      *)
(* match then.                                                             *)
FinishReceipt(h) ==
    /\ handler[h].pc = "store" /\ lock = None /\ Len(receipts) < MaxReceipts
    /\ Finishable(handler[h].window)
    /\ \E match \in BOOLEAN :
          receipts' = Append(receipts, [window |-> handler[h].window, ready |-> match /\ Ready(h),
                                        backup |-> handler[h].run, boot |-> handler[h].boot])
    /\ handler' = [handler EXCEPT ![h].pc = "close"] /\ lock' = h
    /\ UNCHANGED <<boots, deaths, run, runs, windows, torn>>

FinishRefused(h) ==
    /\ handler[h].pc = "store" /\ lock = None /\ ~Finishable(handler[h].window)
    /\ handler' = Reply(h, "error")
    /\ UNCHANGED <<boots, deaths, run, runs, store, lock>>

FinishCloses(h) ==
    /\ handler[h].pc = "close"
    /\ windows' = [windows EXCEPT ![handler[h].window].status = "completed"]
    /\ handler' = Reply(h, IF Last(receipts).ready THEN "ready" ELSE "failed") /\ lock' = None
    /\ UNCHANGED <<boots, deaths, run, runs, receipts, torn>>

(* The disk refuses the receipt, or after it the window. *)
WriteFails(h) ==
    /\ deaths < MaxDeaths /\ deaths' = deaths + 1
    /\ \/ handler[h].pc = "store" /\ lock = None /\ UNCHANGED <<lock, torn>>
       \/ handler[h].pc = "close" /\ lock' = None /\ torn' = torn \cup {handler[h].window}
    /\ handler' = Reply(h, "error")
    /\ UNCHANGED <<boots, run, runs, windows, receipts>>

(* Store.cancel *)
Cancellable(w) == windows[w].status = "open"

Cancel(h) ==
    /\ handler[h].pc = "cancel" /\ lock = None
    /\ windows' = IF Cancellable(handler[h].window)
                  THEN [windows EXCEPT ![handler[h].window].status = "cancelled"] ELSE windows
    /\ handler' = Reply(h, "cancelled")
    /\ UNCHANGED <<boots, deaths, run, runs, receipts, torn, lock>>

(* Nobody waits for the answer. *)
Forgotten(h) ==
    /\ handler[h].pc = "done" /\ run.handler # h
    /\ handler' = [handler EXCEPT ![h] = NoHandler]
    /\ UNCHANGED <<boots, deaths, run, runs, store, lock>>

(* Death or recreation of the panel: its requests are gone. *)
Dying ==
    /\ handler' = [h \in Handlers |-> NoHandler] /\ lock' = None
    /\ torn' = torn \cup {handler[h].window : h \in {g \in Handlers : handler[g].pc = "close"}}

PanelDies ==
    /\ deaths < MaxDeaths /\ deaths' = deaths + 1 /\ Dying
    /\ UNCHANGED <<boots, run, runs, windows, receipts>>

(* The world: maps are restarted, windows grow older than six hours. *)
MapsRestart ==
    /\ boots < MaxBoots /\ boots' = boots + 1
    /\ UNCHANGED <<deaths, run, runs, store, handler, lock>>

Expire ==
    /\ \E w \in DOMAIN windows :
          /\ windows[w].status = "open" /\ ~windows[w].expired
          /\ windows' = [windows EXCEPT ![w].expired = TRUE]
    /\ UNCHANGED <<boots, deaths, run, runs, receipts, torn, handler, lock>>

-----------------------------------------------------------------------------
(* The runner.                                                             *)
Step(pc) == run' = [run EXCEPT !.pc = pc, !.handler = None]

Send(h, kind) ==
    /\ handler[h].pc = "idle"
    /\ handler' = [handler EXCEPT ![h] =
                      [NoHandler EXCEPT !.pc = kind, !.window = run.window, !.run = run.id]]

Await(kind, pc) ==
    \E h \in Handlers : Send(h, kind) /\ run' = [run EXCEPT !.pc = pc, !.handler = h]

(* The operation lock, verified pre-change backup and rollback archive. *)
Begin ==
    /\ run.pc = "none" /\ Len(runs) < MaxRuns
    /\ run' = [NoRun EXCEPT !.id = Len(runs) + 1, !.pc = "start"]
    /\ UNCHANGED <<boots, deaths, runs, store, handler, lock>>

PostStart ==
    /\ run.pc = "start" /\ Await("start", "starting")
    /\ UNCHANGED <<boots, deaths, runs, store, lock>>

PostFinish ==
    /\ run.pc = "finish" /\ Await("finish", "finishing")
    /\ UNCHANGED <<boots, deaths, runs, store, lock>>

Answered == run.handler # None /\ handler[run.handler].pc = "done"

StartAnswered ==
    /\ run.pc = "starting" /\ Answered
    /\ handler' = [handler EXCEPT ![run.handler] = NoHandler]
    /\ run' = IF handler[run.handler].answer = "started"
              THEN [run EXCEPT !.pc = "apply", !.window = handler[run.handler].window,
                               !.handler = None, !.own = TRUE]
              ELSE [run EXCEPT !.pc = "recover", !.handler = None]
    /\ UNCHANGED <<boots, deaths, runs, store, lock>>

(* The panel cannot be reached, a timeout, or the connection breaks. *)
NoAnswer ==
    /\ \/ run.pc \in {"start", "starting"} /\ Step("recover")
       \/ run.pc \in {"finish", "finishing"} /\ Step("look")
    /\ UNCHANGED <<boots, deaths, runs, store, handler, lock>>

(* recover_start_response: exactly one open window of this commit and      *)
(* reason.                                                                 *)
Resumable(w) == {v \in DOMAIN windows : windows[v].status = "open"} = {w}

Recover ==
    /\ run.pc = "recover"
    /\ \E w \in DOMAIN windows :
          /\ Resumable(w)
          /\ run' = [run EXCEPT !.pc = "apply", !.window = w]
    /\ UNCHANGED <<boots, deaths, runs, store, handler, lock>>

Apply ==
    /\ run.pc = "apply" /\ Step("reload")
    /\ UNCHANGED <<boots, deaths, runs, store, handler, lock>>

(* deploy-admin-panel.sh recreates the panel; then desired state,          *)
(* certification, post-change backup and convergence of health.            *)
Reload ==
    /\ run.pc = "reload" /\ Dying /\ Step("finish")
    /\ UNCHANGED <<boots, deaths, runs, windows, receipts>>

FinishAnswered ==
    /\ run.pc = "finishing" /\ Answered
    /\ handler' = [handler EXCEPT ![run.handler] = NoHandler]
    /\ LET answer == handler[run.handler].answer
       IN  Step(CASE answer = "ready" -> "ok"
                  [] answer = "failed" -> "abort"
                  [] answer = "waiting" -> "finish"
                  [] answer = "error" -> "look")
    /\ UNCHANGED <<boots, deaths, runs, store, lock>>

(* After a failed request, the window's row and the latest receipt.        *)
Recoverable == windows[run.window].status = "completed" /\ receipts # <<>> /\ Last(receipts).ready

Look ==
    /\ run.pc = "look" /\ Step(IF Recoverable THEN "ok" ELSE "finish")
    /\ UNCHANGED <<boots, deaths, runs, store, handler, lock>>

(* A deadline passes, or a command fails. *)
GiveUp ==
    /\ run.pc \in {"recover", "apply", "reload", "finish"}
    /\ Step("abort")
    /\ UNCHANGED <<boots, deaths, runs, store, handler, lock>>

Ended == Append(runs, [ok |-> run.pc = "ok", window |-> run.window, own |-> run.own])

(* cleanup: the window is cancelled when the panel can be reached. *)
End ==
    /\ run.pc \in {"ok", "abort"} /\ runs' = Ended
    /\ \/ run.pc = "abort" /\ run.window # 0 /\ \E h \in Handlers : Send(h, "cancel")
       \/ UNCHANGED handler
    /\ run' = NoRun
    /\ UNCHANGED <<boots, deaths, store, lock>>

Killed ==
    /\ run.pc \notin {"none", "ok"} /\ run' = NoRun /\ runs' = Ended
    /\ UNCHANGED <<boots, deaths, store, handler, lock>>

HandlerStep(h) ==
    \/ StartLooks(h) \/ StartWrites(h) \/ FinishLooks(h) \/ FinishReceipt(h)
    \/ FinishRefused(h) \/ FinishCloses(h) \/ Cancel(h) \/ Forgotten(h)

RunnerStep ==
    \/ PostStart \/ StartAnswered \/ NoAnswer \/ Recover \/ Apply \/ Reload
    \/ PostFinish \/ FinishAnswered \/ Look \/ GiveUp \/ End \/ Killed

Next ==
    \/ \E h \in Handlers : HandlerStep(h) \/ WriteFails(h)
    \/ Begin \/ RunnerStep
    \/ PanelDies \/ MapsRestart \/ Expire

Spec == Init /\ [][Next]_vars

(* Every command of the runner and of a request has a timeout, and the     *)
(* runner's loops have deadlines.                                          *)
FairSpec ==
    /\ Spec
    /\ WF_vars(RunnerStep) /\ SF_vars(GiveUp)
    /\ \A h \in Handlers : WF_vars(HandlerStep(h))

-----------------------------------------------------------------------------
(* Properties.                                                             *)
WindowIds == 1..MaxWindows
Status == {"open", "completed", "cancelled"}
ReceiptsOf(w) == {r \in DOMAIN receipts : receipts[r].window = w}

(* The variables stay in their sets; the lock is a request's that has      *)
(* written a receipt and not yet closed its window.                        *)
TypeOK ==
    /\ boots \in 0..MaxBoots /\ deaths \in 0..MaxDeaths
    /\ \A w \in DOMAIN windows : windows[w].status \in Status /\ windows[w].backup \in 1..MaxRuns
    /\ run.id \in 0..MaxRuns /\ run.window \in 0..Len(windows)
    /\ \A h \in Handlers : handler[h].pc = "close" <=> lock = h

(* However requests of this run and forgotten ones of earlier runs meet, a *)
(* window that was completed or cancelled stays so (finish, cancel).       *)
WindowsAreFinal ==
    [][\A w \in DOMAIN windows :
          windows[w].status # "open" => windows'[w].status = windows[w].status]_vars

(* A completed window has its receipt; two receipts, or one of a window    *)
(* that is not completed, are left only by a panel that died between the   *)
(* two writes or could not do the second, or are about to be completed     *)
(* (Store.finish).                                                         *)
ReceiptsMatchWindows ==
    \A w \in DOMAIN windows :
        LET n == Cardinality(ReceiptsOf(w))
            closing == \E h \in Handlers : handler[h].pc = "close" /\ handler[h].window = w
        IN  /\ windows[w].status = "completed" => n > 0
            /\ w \notin torn => n <= 1 /\ (n = 1 <=> windows[w].status = "completed" \/ closing)

(* A run that reports success has a completed window, and there is a ready *)
(* receipt (finalize_assurance_when_healthy).                              *)
SuccessIsReceipted ==
    \A i \in DOMAIN runs : runs[i].ok =>
        /\ windows[runs[i].window].status = "completed"
        /\ \E r \in DOMAIN receipts : receipts[r].ready

(* What a ready receipt says of the maps is true of all the time from the  *)
(* opening of its window to the look at the end (compare_snapshots).       *)
ReadyMeansContinuous ==
    \A r \in DOMAIN receipts : receipts[r].ready =>
        receipts[r].boot = windows[receipts[r].window].opened

(* Every run comes to an end and lets go of the operation lock.            *)
RunsEnd == (run.pc # "none") ~> (run.pc = "none")

-----------------------------------------------------------------------------
(* What the documentation says of it, and the code does not do.            *)

(* A window "cannot be reused after completion". *)
OneReceiptPerWindow == \A w \in DOMAIN windows : Cardinality(ReceiptsOf(w)) <= 1

(* The run's own "pre-change recovery state" is the one that its window    *)
(* refers to.                                                              *)
PreChangeIsReferenced == run.window # 0 => windows[run.window].backup = run.id

(* The run's own "post-change recovery state" is the one that the receipt  *)
(* refers to.                                                              *)
PostChangeIsReferenced ==
    \A i \in DOMAIN runs : runs[i].ok =>
        \E r \in ReceiptsOf(runs[i].window) : receipts[r].ready /\ receipts[r].backup = i
=============================================================================
