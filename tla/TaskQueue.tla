----------------------------- MODULE TaskQueue -----------------------------
(***************************************************************************)
(* The Telegram task queue of the daemon: the poll loop that accepts an    *)
(* update and enqueues it, the single queue worker that hands a task to    *)
(* Codex and delivers the answer, the crash recovery that runs on the next *)
(* start, and the recovery that runs when the Codex app-server goes away.  *)
(*                                                                         *)
(* An action is the code between two suspension points (an await) of one   *)
(* of the three: only there can the others, or the end of the process,     *)
(* come in between.  The one exception is "recorded": the daemon writes    *)
(* the active-task record and sends turn/start without an await, yet a     *)
(* killed process may stop between the two, so nothing but Crash           *)
(* interleaves there.                                                      *)
(***************************************************************************)
EXTENDS Integers, FiniteSets

CONSTANTS
  NumUpdates,     \* Telegram message updates, numbered by update_id
  MaxFaults,      \* bound on crashes, app-server exits and outside repairs
  MaxHolds,       \* bound on holds and call-handoff turns
  SlowNotices,    \* a "queued" or "submitted" notice may answer after its task moved on
  TelegramFails,  \* a Telegram request may fail after its retries
  BackendDies,    \* the Codex app-server may exit or drop its socket
  OtherProcess    \* a second process may repair the queue of a running daemon

ASSUME QueueAssumption ==
  /\ NumUpdates \in Nat \ {0}
  /\ MaxFaults \in Nat
  /\ MaxHolds \in Nat
  /\ {SlowNotices, TelegramFails, BackendDies, OtherProcess} \subseteq BOOLEAN

Updates == 1..NumUpdates
NoTask  == 0
Handoff == -1      \* a turn that appends a call handoff, not a queued task

Stages    == {"preparing", "requesting", "submitted"}
Record    == [task : Updates, stage : Stages]
NoRecord  == [task |-> NoTask, stage |-> "preparing"]
Terminal  == {"completed", "failed"}
RowStatus == {"absent", "pending", "processing"} \cup Terminal

VARIABLES
  status,      \* durable: message_queue.status of each update
  record,      \* durable: the active-task record of the settings table
  offset,      \* durable: telegram:last_update_id
  rollout,     \* durable: what Codex's rollout file shows of each task's turn
  daemon,      \* "down", "reconciling" (start-up recovery) or "up"
  pollPc,      \* where pollLoop is with update offset + 1
  placing,     \* a "submitted" notice was sent and its message id is not stored yet
  workerPc,    \* where the worker is with task workerTask
  workerTask,
  activeTask,  \* the daemon's in-memory activeTask
  turn,        \* pendingTurn of the current backend
  acked,       \* Codex has answered that turn's turn/start
  alive,       \* the current backend's app-server is connected
  reconPc,     \* where reconcileInterruptedWork, or the recovery around it, is
  recon,       \* the record it was started with
  hold,        \* a hold reason other than codex_busy: asleep, other owner, live call
  faults, holds,
  handed,      \* history: turn/start requests sent for each task
  answered     \* history: the final text of the task was sent to the chat

durable  == <<status, record, offset, rollout>>
poller   == <<pollPc, placing>>
worker   == <<workerPc, workerTask, activeTask>>
backend  == <<turn, acked, alive>>
recovery == <<reconPc, recon>>
history  == <<handed, answered>>
budget   == <<faults, holds>>
vars == <<durable, daemon, poller, worker, backend, recovery, hold, budget, history>>

TypeOK ==
  /\ status \in [Updates -> RowStatus]
  /\ record \in Record \cup {NoRecord}
  /\ offset \in 0..NumUpdates
  /\ rollout \in [Updates -> {"none", "activity", "result"}]
  /\ daemon \in {"down", "reconciling", "up"}
  /\ pollPc \in {"fetch", "decide", "notice"}
  /\ placing \in BOOLEAN
  /\ workerPc \in {"idle", "synced", "prepare", "requeue", "inputs", "recorded", "turn",
                   "deliver", "artifacts", "report", "defer"}
  /\ workerTask \in Updates \cup {NoTask}
  /\ activeTask \in Updates \cup {NoTask}
  /\ turn \in Updates \cup {NoTask, Handoff}
  /\ acked \in BOOLEAN
  /\ alive \in BOOLEAN
  /\ reconPc \in {"none", "sync", "inspect", "answer", "mark", "fail"}
  /\ recon \in Record \cup {NoRecord}
  /\ hold \in BOOLEAN
  /\ faults \in 0..MaxFaults
  /\ holds \in 0..MaxHolds
  /\ handed \in [Updates -> Nat]
  /\ answered \in [Updates -> BOOLEAN]

Init ==
  /\ status = [u \in Updates |-> "absent"]
  /\ record = NoRecord
  /\ offset = 0
  /\ rollout = [u \in Updates |-> "none"]
  /\ daemon = "up"
  /\ pollPc = "fetch" /\ placing = FALSE
  /\ workerPc = "idle" /\ workerTask = NoTask /\ activeTask = NoTask
  /\ turn = NoTask /\ acked = FALSE /\ alive = TRUE
  /\ reconPc = "none" /\ recon = NoRecord
  /\ hold = FALSE
  /\ faults = 0 /\ holds = 0
  /\ handed = [u \in Updates |-> 0]
  /\ answered = [u \in Updates |-> FALSE]

----------------------------------------------------------------------------
(* Helpers of BridgeState and of the daemon.                               *)

SetStatus(u, s) == status' = [status EXCEPT ![u] = s]

Pending == {u \in Updates : status[u] = "pending"}

\* Variant: the newest row first.
NewestPending(t) == t \in Pending /\ \A u \in Pending : u <= t

\* nextPendingTask: the pending row with the smallest update_id.
IsNextPending(t) == t \in Pending /\ \A u \in Pending : t <= u

\* queueHoldReason: a pending turn of the backend is the hold "codex_busy".
Held == hold \/ turn # NoTask

\* The daemon runs, and is not inside the await-free stretch of RecordTask.
Running == daemon = "up" /\ workerPc # "recorded"

\* Variant: recovery leaves the rows alone.
RowsNotRecovered == status

\* Rows that recoverInterruptedWork puts back to pending: every row in
\* processing but the one the active-task record names.
RecoveredStatus ==
  [u \in Updates |->
     IF status[u] = "processing" /\ u # record.task THEN "pending" ELSE status[u]]

\* The record survives only when its row is in processing.
RecordStands == record # NoRecord /\ status[record.task] = "processing"

\* Variants: a stage is marked without a record, or never.
MarkStageUnguarded(s) == record' = [record EXCEPT !.stage = s]

StageNotMarked(s) == UNCHANGED record

\* markActiveTaskStage, markActiveTaskSubmitted: nothing to mark without a record.
MarkStage(s) ==
  record' = IF record = NoRecord THEN record ELSE [record EXCEPT !.stage = s]

RecoverInterruptedWork ==
  /\ status' = RecoveredStatus
  /\ record' = IF RecordStands THEN record ELSE NoRecord

----------------------------------------------------------------------------
(* pollLoop and handleMessage: updates are handled one at a time, in       *)
(* order, and acknowledged after their handler returned.                   *)

\* The handler has enqueued the update and has not returned yet.
NoticeOpen(u) == pollPc \in {"decide", "notice"} /\ u = offset + 1

Acknowledge ==
  /\ offset' = offset + 1
  /\ pollPc' = "fetch"

\* Variant: an update that arrives during a hold is acknowledged and dropped.
EnqueueUnlessHeld ==
  /\ Running
  /\ pollPc = "fetch"
  /\ offset < NumUpdates
  /\ IF status[offset + 1] = "absent" /\ ~hold
       THEN SetStatus(offset + 1, "pending") /\ pollPc' = "decide" /\ UNCHANGED offset
       ELSE Acknowledge /\ UNCHANGED status
  /\ UNCHANGED <<record, rollout, daemon, placing, worker, backend, recovery, hold, budget, history>>

\* enqueueTask: a second insertion of the same update_id fails and is ignored.
Enqueue ==
  /\ Running
  /\ pollPc = "fetch"
  /\ offset < NumUpdates
  /\ \/ /\ status[offset + 1] = "absent"
        /\ SetStatus(offset + 1, "pending")
        /\ pollPc' = "decide"
        /\ UNCHANGED offset
     \/ /\ status[offset + 1] # "absent"
        /\ Acknowledge
        /\ UNCHANGED status
  /\ UNCHANGED <<record, rollout, daemon, placing, worker, backend, recovery, hold, budget, history>>

\* A notice is due when the task waits behind another one or behind a hold.
NoticeDue == Cardinality(Pending) > 1 \/ activeTask # NoTask \/ Held

DecideNotice ==
  /\ Running
  /\ pollPc = "decide"
  /\ \/ /\ NoticeDue
        /\ pollPc' = "notice"
        /\ UNCHANGED offset
     \/ /\ ~NoticeDue
        /\ Acknowledge
  /\ UNCHANGED <<status, record, rollout, daemon, placing, worker, backend, recovery, hold, budget, history>>

\* The notice was sent; the handler stores its message id and writes the row's
\* status again, whatever the worker has made of the row in between.
NoticeSent ==
  /\ Running
  /\ pollPc = "notice"
  /\ SetStatus(offset + 1, "pending")
  /\ Acknowledge
  /\ UNCHANGED <<record, rollout, daemon, placing, worker, backend, recovery, hold, budget, history>>

\* The handler throws: the update is not acknowledged and will be fetched again.
NoticeFails ==
  /\ TelegramFails
  /\ Running
  /\ pollPc = "notice"
  /\ pollPc' = "fetch"
  /\ UNCHANGED <<durable, daemon, placing, worker, backend, recovery, hold, budget, history>>

Poll == Enqueue \/ DecideNotice \/ NoticeSent \/ NoticeFails

----------------------------------------------------------------------------
(* ensureWorker and processQueuedTask.                                     *)

\* The finally block of processQueuedTask.
ReleaseTask ==
  /\ record' = NoRecord
  /\ activeTask' = NoTask
  /\ workerTask' = NoTask
  /\ workerPc' = "idle"

\* The worker loop's own codex.sync() restarts a backend that is gone, or fails to.
\* It queues behind the sync of a recovery.
SyncBackend ==
  /\ Running
  /\ workerPc = "idle"
  /\ ~Held /\ Pending # {}
  /\ reconPc # "sync"
  /\ alive' \in {alive, TRUE}
  /\ workerPc' = "synced"
  /\ UNCHANGED <<durable, daemon, poller, workerTask, activeTask, turn, acked, recovery, hold, budget, history>>

\* The second look at the hold and at the queue decides.
PickTask ==
  /\ Running
  /\ workerPc = "synced"
  /\ \/ /\ ~Held
        /\ \E t \in Updates : IsNextPending(t) /\ workerTask' = t
        /\ workerPc' = "prepare"
     \/ /\ Held \/ Pending = {}
        /\ workerPc' = "idle"
        /\ UNCHANGED workerTask
  /\ UNCHANGED <<durable, daemon, poller, activeTask, backend, recovery, hold, budget, history>>

\* Without SlowNotices, Telegram has answered the notice of a task by the time the
\* worker first writes its row.
NoticeSettled == SlowNotices \/ ~NoticeOpen(workerTask)

\* The early placeholder could not be sent or edited.
PrepareFails ==
  /\ TelegramFails
  /\ Running
  /\ workerPc = "prepare"
  /\ NoticeSettled
  /\ workerPc' = "report"
  /\ UNCHANGED <<durable, daemon, poller, workerTask, activeTask, backend, recovery, hold, budget, history>>

\* selectedTaskLane checks the hold again: the row goes back to pending or on to
\* processing.
SelectLane ==
  /\ Running
  /\ workerPc = "prepare"
  /\ NoticeSettled
  /\ \/ /\ Held
        /\ SetStatus(workerTask, "pending")
        /\ workerPc' = "requeue"
     \/ /\ ~Held
        /\ SetStatus(workerTask, "processing")
        /\ workerPc' = "inputs"
  /\ UNCHANGED <<record, offset, rollout, daemon, poller, workerTask, activeTask, backend, recovery, hold, budget, history>>

\* updateQueuedTaskPlaceholder writes the row again when the placeholder is there; when it
\* throws, the task that was only held back is reported as failed.
Requeue ==
  /\ Running
  /\ workerPc = "requeue"
  /\ \/ /\ SetStatus(workerTask, "pending")
        /\ ReleaseTask
     \/ /\ TelegramFails
        /\ workerPc' = "report"
        /\ UNCHANGED <<status, record, workerTask, activeTask>>
  /\ UNCHANGED <<offset, rollout, daemon, poller, backend, recovery, hold, budget, history>>

\* Variant: the failure escapes the catch block.
InputsFailUncaught ==
  /\ Running
  /\ workerPc = "inputs"
  /\ ReleaseTask
  /\ UNCHANGED <<status, offset, rollout, daemon, poller, backend, recovery, hold, budget, history>>

\* buildTurnInputs, or the placeholder edit after it, throws.
InputsFail ==
  /\ Running
  /\ workerPc = "inputs"
  /\ workerPc' = "report"
  /\ UNCHANGED <<durable, daemon, poller, workerTask, activeTask, backend, recovery, hold, budget, history>>

RecordTask ==
  /\ Running
  /\ workerPc = "inputs"
  /\ activeTask' = workerTask
  /\ record' = [task |-> workerTask, stage |-> "preparing"]
  /\ workerPc' = "recorded"
  /\ UNCHANGED <<status, offset, rollout, daemon, poller, workerTask, backend, recovery, hold, budget, history>>

\* markActiveTaskStage("requesting") and startTurn: refused while another turn is
\* pending (the task is deferred), failed when the app-server is gone.
RequestTurn ==
  /\ daemon = "up"
  /\ workerPc = "recorded"
  /\ MarkStage("requesting")
  /\ \/ /\ turn # NoTask
        /\ SetStatus(workerTask, "pending")
        /\ workerPc' = "defer"
        /\ UNCHANGED <<turn, acked, handed>>
     \/ /\ turn = NoTask /\ ~alive
        /\ workerPc' = "report"
        /\ UNCHANGED <<status, turn, acked, handed>>
     \/ /\ turn = NoTask /\ alive
        /\ turn' = workerTask
        /\ acked' = FALSE
        /\ handed' = [handed EXCEPT ![workerTask] = @ + 1]
        /\ workerPc' = "turn"
        /\ UNCHANGED status
  /\ UNCHANGED <<offset, rollout, daemon, poller, workerTask, activeTask, alive, recovery, hold, budget, answered>>

\* turnStarted: whatever record is there becomes "submitted", and a task that has no
\* message of the bridge yet gets one.
TurnAcked ==
  /\ Running
  /\ turn \in Updates /\ alive /\ ~acked
  /\ acked' = TRUE
  /\ MarkStage("submitted")
  /\ placing' \in {placing, SlowNotices}
  /\ UNCHANGED <<status, offset, rollout, daemon, pollPc, worker, turn, alive, recovery, hold, budget, history>>

\* updatePersistedActiveTaskPlaceholder: the message id goes to the task that is active
\* by now, and its row is written as processing.
PlaceholderStored ==
  /\ Running
  /\ placing
  /\ placing' = FALSE
  /\ IF activeTask = NoTask THEN UNCHANGED status ELSE SetStatus(activeTask, "processing")
  /\ UNCHANGED <<record, offset, rollout, daemon, pollPc, worker, backend, recovery, hold, budget, history>>

\* Codex answers turn/start with an error.
TurnRejected ==
  /\ Running
  /\ turn \in Updates /\ alive /\ ~acked
  /\ turn' = NoTask
  /\ workerPc' = "report"
  /\ UNCHANGED <<durable, daemon, poller, workerTask, activeTask, acked, alive, recovery, hold, budget, history>>

TurnCompletes ==
  /\ Running
  /\ turn \in Updates /\ alive /\ acked
  /\ rollout' = [rollout EXCEPT ![turn] = "result"]
  /\ turn' = NoTask
  /\ workerPc' = "deliver"
  /\ UNCHANGED <<status, record, offset, daemon, poller, workerTask, activeTask, acked, alive, recovery, hold, budget, history>>

\* Variant: a failed sendFinalText is logged and forgotten.
DeliverAnswerOrNot ==
  /\ Running
  /\ workerPc = "deliver"
  /\ answered' \in {answered, [answered EXCEPT ![workerTask] = TRUE]}
  /\ workerPc' = "artifacts"
  /\ UNCHANGED <<durable, daemon, poller, workerTask, activeTask, backend, recovery, hold, budget, handed>>

DeliverAnswer ==
  /\ Running
  /\ workerPc = "deliver"
  /\ \/ /\ answered' = [answered EXCEPT ![workerTask] = TRUE]
        /\ workerPc' = "artifacts"
     \/ /\ TelegramFails
        /\ workerPc' = "report"
        /\ UNCHANGED answered
  /\ UNCHANGED <<durable, daemon, poller, workerTask, activeTask, backend, recovery, hold, budget, handed>>

\* Generated files are sent after the answer: one that fails makes the row failed.
FinishTask ==
  /\ Running
  /\ workerPc = "artifacts"
  /\ \E s \in Terminal : SetStatus(workerTask, s)
  /\ ReleaseTask
  /\ UNCHANGED <<offset, rollout, daemon, poller, backend, recovery, hold, budget, history>>

\* The catch block: the user is told, then the row is marked failed.  When telling
\* the user throws too, the row keeps its status and the finally block still runs.
ReportFailure ==
  /\ Running
  /\ workerPc = "report"
  /\ SetStatus(workerTask, "failed") \/ (TelegramFails /\ UNCHANGED status)
  /\ ReleaseTask
  /\ UNCHANGED <<offset, rollout, daemon, poller, backend, recovery, hold, budget, history>>

\* The row of a deferred task is pending already; it is written again when the task had no
\* placeholder and has one now.  A notice that throws changes nothing.
FinishDeferral ==
  /\ Running
  /\ workerPc = "defer"
  /\ SetStatus(workerTask, "pending") \/ UNCHANGED status
  /\ ReleaseTask
  /\ UNCHANGED <<offset, rollout, daemon, poller, backend, recovery, hold, budget, history>>

Work ==
  \/ SyncBackend \/ PickTask \/ PrepareFails \/ SelectLane \/ Requeue \/ InputsFail
  \/ RecordTask \/ RequestTurn \/ DeliverAnswer \/ FinishTask \/ ReportFailure \/ FinishDeferral

----------------------------------------------------------------------------
(* Codex, the app-server and what else uses or holds the session.          *)

\* A turn leaves traces in the rollout file, and may end there unobserved.
CodexWrites(u) ==
  /\ handed[u] > 0
  /\ \/ rollout[u] = "none" /\ rollout' = [rollout EXCEPT ![u] = "activity"]
     \/ rollout[u] = "activity" /\ turn # u /\ rollout' = [rollout EXCEPT ![u] = "result"]
  /\ UNCHANGED <<status, record, offset, daemon, poller, worker, backend, recovery, hold, budget, history>>

\* A turn/start that was not answered is rejected; a turn in progress is not: its
\* promise stays with the backend object that is about to be replaced.
BackendExit ==
  /\ BackendDies
  /\ Running /\ alive
  /\ faults < MaxFaults
  /\ faults' = faults + 1
  /\ alive' = FALSE
  /\ \/ /\ turn \in Updates /\ ~acked
        /\ turn' = NoTask
        /\ workerPc' = "report"
     \/ /\ ~(turn \in Updates /\ ~acked)
        /\ UNCHANGED <<turn, workerPc>>
  /\ \/ /\ reconPc = "none"
        /\ reconPc' = "sync"
        /\ recon' = record
     \/ /\ reconPc # "none"
        /\ UNCHANGED recovery
  /\ UNCHANGED <<durable, daemon, poller, workerTask, activeTask, acked, hold, holds, history>>

\* finalizeCall or flushPendingCallHandoffs found no task in flight and appends.
HandoffStarts ==
  /\ Running /\ alive
  /\ turn = NoTask /\ activeTask = NoTask /\ record = NoRecord
  /\ holds < MaxHolds
  /\ holds' = holds + 1
  /\ turn' = Handoff
  /\ acked' = TRUE
  /\ UNCHANGED <<durable, daemon, poller, worker, alive, recovery, hold, faults, history>>

HandoffEnds ==
  /\ Running /\ alive
  /\ turn = Handoff
  /\ turn' = NoTask
  /\ UNCHANGED <<durable, daemon, poller, worker, acked, alive, recovery, hold, budget, history>>

HoldBegins ==
  /\ ~hold
  /\ holds < MaxHolds
  /\ holds' = holds + 1
  /\ hold' = TRUE
  /\ UNCHANGED <<durable, daemon, poller, worker, backend, recovery, faults, history>>

HoldEnds ==
  /\ hold
  /\ hold' = FALSE
  /\ UNCHANGED <<durable, daemon, poller, worker, backend, recovery, budget, history>>

----------------------------------------------------------------------------
(* recoverBackendAfterUnavailable and reconcileInterruptedWork.            *)

\* A fresh backend replaces the old one; the interrupted record is reconciled.
RecoverySync ==
  /\ Running
  /\ reconPc = "sync"
  /\ alive' = TRUE
  /\ turn' = NoTask
  /\ reconPc' = IF recon = NoRecord THEN "none" ELSE "inspect"
  /\ UNCHANGED <<durable, daemon, poller, worker, acked, recon, hold, budget, history>>

Reconciling == daemon = "reconciling" \/ Running

\* The end of reconcileInterruptedWork, its finally block included.
EndReconcile(s) ==
  /\ SetStatus(recon.task, s)
  /\ record' = NoRecord
  /\ reconPc' = "none"
  /\ recon' = NoRecord
  /\ daemon' = "up"

\* inspectTurn sees what the rollout shows, or nothing: the record of an autonomous
\* thread has no rollout path, and an inspection may fail.
InspectRollout ==
  /\ Reconciling
  /\ reconPc = "inspect"
  /\ \E seen \in {rollout[recon.task], "none"} :
       \/ /\ seen = "result"
          /\ reconPc' = "answer"
          /\ UNCHANGED <<status, record, recon, daemon>>
       \/ /\ seen # "result"
          /\ recon.stage # "preparing" \/ seen = "activity"
          /\ reconPc' = "fail"
          /\ UNCHANGED <<status, record, recon, daemon>>
       \/ /\ seen = "none"
          /\ recon.stage = "preparing"
          /\ EndReconcile("pending")
  /\ UNCHANGED <<offset, rollout, poller, worker, backend, hold, budget, history>>

ReconcileAnswer ==
  /\ Reconciling
  /\ reconPc = "answer"
  /\ \/ /\ answered' = [answered EXCEPT ![recon.task] = TRUE]
        /\ reconPc' = "mark"
     \/ /\ TelegramFails
        /\ reconPc' = "fail"
        /\ UNCHANGED answered
  /\ UNCHANGED <<durable, daemon, poller, worker, backend, recon, hold, budget, handed>>

\* Generated files follow the answer; when one throws the row is failed.
ReconcileMark ==
  /\ Reconciling
  /\ reconPc = "mark"
  /\ \E s \in Terminal : EndReconcile(s)
  /\ UNCHANGED <<offset, rollout, poller, worker, backend, hold, budget, history>>

ReconcileFail ==
  /\ Reconciling
  /\ reconPc = "fail"
  /\ EndReconcile("failed")
  /\ UNCHANGED <<offset, rollout, poller, worker, backend, hold, budget, history>>

Reconcile == RecoverySync \/ InspectRollout \/ ReconcileAnswer \/ ReconcileMark \/ ReconcileFail

----------------------------------------------------------------------------
(* The process: its end, its start, and other processes on its database.   *)

Crash ==
  /\ daemon # "down"
  /\ faults < MaxFaults
  /\ faults' = faults + 1
  /\ daemon' = "down"
  /\ pollPc' = "fetch" /\ placing' = FALSE
  /\ workerPc' = "idle" /\ workerTask' = NoTask /\ activeTask' = NoTask
  /\ turn' = NoTask /\ acked' = FALSE /\ alive' = FALSE
  /\ reconPc' = "none" /\ recon' = NoRecord
  /\ UNCHANGED <<durable, hold, holds, history>>

\* recoverInterruptedWork at module load, then main() up to the poll loop.
Restart ==
  /\ daemon = "down"
  /\ RecoverInterruptedWork
  /\ alive' = TRUE
  /\ recon' = record'
  /\ \/ RecordStands /\ daemon' = "reconciling" /\ reconPc' = "inspect"
     \/ ~RecordStands /\ daemon' = "up" /\ reconPc' = "none"
  /\ UNCHANGED <<offset, rollout, poller, worker, turn, acked, hold, budget, history>>

\* bridgectl recover-queue while the daemon is stopped: the recorded task is put
\* back only when its record is still "preparing".
ControlRecoverQueue ==
  /\ daemon = "down"
  /\ record # NoRecord \/ \E u \in Updates : status[u] = "processing"
  /\ status' = [u \in Updates |->
       IF RecordStands /\ u = record.task
         THEN IF record.stage = "preparing" THEN "pending" ELSE "failed"
         ELSE RecoveredStatus[u]]
  /\ record' = NoRecord
  /\ UNCHANGED <<offset, rollout, daemon, poller, worker, backend, recovery, hold, budget, history>>

\* A second daemon, or bridgectl recover-queue with no task recorded, repairs the
\* queue of the running one.
RepairRunningQueue ==
  /\ OtherProcess
  /\ daemon # "down"
  /\ faults < MaxFaults
  /\ faults' = faults + 1
  /\ RecoverInterruptedWork
  /\ UNCHANGED <<offset, rollout, daemon, poller, worker, backend, recovery, hold, holds, history>>

----------------------------------------------------------------------------
\* Every update is acknowledged: the poll loop goes on asking for the next one.
AwaitUpdates ==
  /\ Running
  /\ pollPc = "fetch"
  /\ offset = NumUpdates
  /\ UNCHANGED vars

Next ==
  \/ Poll
  \/ Work
  \/ TurnAcked \/ PlaceholderStored \/ TurnRejected \/ TurnCompletes
  \/ \E u \in Updates : CodexWrites(u)
  \/ BackendExit
  \/ HandoffStarts \/ HandoffEnds \/ HoldBegins \/ HoldEnds
  \/ Reconcile
  \/ Crash \/ Restart \/ ControlRecoverQueue \/ RepairRunningQueue
  \/ AwaitUpdates

Spec == Init /\ [][Next]_vars

\* The event loop runs every continuation, Telegram and Codex answer, a hold is
\* released and a dead daemon is started again.
Fairness ==
  /\ WF_vars(Poll) /\ WF_vars(Work) /\ WF_vars(Reconcile)
  /\ WF_vars(TurnAcked \/ TurnRejected) /\ WF_vars(TurnCompletes)
  /\ WF_vars(HandoffEnds) /\ WF_vars(HoldEnds) /\ WF_vars(Restart)

FairSpec == Spec /\ Fairness

----------------------------------------------------------------------------
(* Properties.                                                             *)

\* What recovery promises ("It was not auto-replayed to avoid duplicate commands
\* or edits"): no message is handed to Codex twice, whatever crashes and restarts.
HandedAtMostOnce == \A u \in Updates : handed[u] <= 1

\* A row is completed only after the final text reached the chat, by the worker or
\* by a recovery that found the text in the rollout.
CompletedWasAnswered ==
  \A u \in Updates : status[u] = "completed" => answered[u]

\* An acknowledged update is never fetched again, so it must be in the queue: at no
\* crash point does an update fall between Telegram and the database.
NoUpdateLost == \A u \in Updates : u <= offset => status[u] # "absent"

\* A row in processing is somebody's: while the daemon is up, the worker or the
\* recovery has it in hand, and it cannot stay there until the next restart.
NoOrphanedRow ==
  daemon = "up" =>
    \A u \in Updates : status[u] = "processing" => u \in {workerTask, recon.task}

\* While Codex works on a task's turn, the durable record names that task at a stage
\* that recovery treats as handed over.
TurnIsRecorded ==
  turn \in Updates => record # NoRecord /\ record.task = turn /\ record.stage # "preparing"

\* Every message is eventually answered or reported as failed.
EveryUpdateSettles == \A u \in Updates : <>(status[u] \in Terminal)
============================================================================
