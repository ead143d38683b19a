-------------------------- MODULE TaskQueue_proofs --------------------------
(***************************************************************************)
(* Theorems about TaskQueue, for every number of updates, faults and holds.*)
(***************************************************************************)
EXTENDS TaskQueue, TLAPS

\* No Telegram outage, no late notice, no app-server exit, no second process.
Calm == ~SlowNotices /\ ~TelegramFails /\ ~BackendDies /\ ~OtherProcess

----------------------------------------------------------------------------
(* The parts of the inductive invariants.                                  *)

\* The worker holds a task from its pick to its release.
WorkerHasTask == workerPc \notin {"idle", "synced"} => workerTask \in Updates

\* The handler in the poll loop works on an update that exists and has a row.
PollerHasRow == pollPc # "fetch" => offset < NumUpdates /\ status[offset + 1] # "absent"

\* A recovery past its sync has a record to reconcile.
ReconHasTask == reconPc \notin {"none", "sync"} => recon \in Record

\* A task's turn in the current backend is the one the worker waits for.
TurnIsAwaited == turn \in Updates => workerPc = "turn" /\ workerTask = turn

TypeInv == TypeOK /\ WorkerHasTask /\ PollerHasRow /\ ReconHasTask /\ TurnIsAwaited

\* The answer went out before the step that may mark the row completed.
MarkAfterAnswer ==
  /\ workerPc = "artifacts" => answered[workerTask]
  /\ reconPc = "mark" => answered[recon.task]

AnswerInv == TypeInv /\ MarkAfterAnswer /\ CompletedWasAnswered

\* A task that was handed to Codex is settled, or its row is in processing and the
\* durable record names it at a stage that recovery does not replay.
HandedIsGuarded ==
  \A u \in Updates :
    /\ handed[u] <= 1
    /\ handed[u] = 1 =>
         \/ status[u] \in Terminal
         \/ /\ status[u] = "processing"
            /\ record.task = u
            /\ record.stage # "preparing"

\* Where the worker is tells what the row and the record say of its task.
WorkerAgrees ==
  /\ workerPc \in {"idle", "synced"} => workerTask = NoTask
  /\ workerPc \in {"idle", "synced", "prepare", "requeue", "inputs"} /\ daemon = "up" => record = NoRecord
  /\ workerPc \in {"prepare", "requeue", "defer"} => status[workerTask] = "pending"
  /\ workerPc \in {"inputs", "recorded", "turn", "deliver", "artifacts", "report"} =>
       status[workerTask] = "processing"
  /\ workerPc \in {"prepare", "requeue", "inputs", "recorded", "defer"} => handed[workerTask] = 0
  /\ workerPc = "recorded" => record = [task |-> workerTask, stage |-> "preparing"]
  /\ workerPc \in {"turn", "deliver", "artifacts"} =>
       record.task = workerTask /\ record.stage # "preparing"
  /\ workerPc = "defer" => record.task = workerTask
  /\ workerPc = "report" => record = NoRecord \/ record.task = workerTask

\* Only the start of the daemon reconciles, before the poll loop and the worker run.
OnlyStartReconciles ==
  /\ alive \/ daemon = "down"
  /\ daemon # "up" => workerPc = "idle" /\ pollPc = "fetch" /\ turn = NoTask
  /\ daemon # "reconciling" => reconPc = "none"
  /\ daemon = "reconciling" =>
       /\ reconPc \in {"inspect", "answer", "mark", "fail"}
       /\ recon = record /\ RecordStands

\* The row whose notice is on its way is still pending, and the worker has at most
\* picked it; the message of a submitted task was stored at once.
NoticeIsEarly ==
  /\ placing = FALSE
  /\ pollPc # "fetch" =>
       /\ status[offset + 1] = "pending"
       /\ workerTask = offset + 1 => workerPc = "prepare"

CalmInv ==
  TypeInv /\ HandedIsGuarded /\ WorkerAgrees /\ OnlyStartReconciles /\ NoticeIsEarly

----------------------------------------------------------------------------
(* Type correctness.                                                       *)

\* The fresh daemon satisfies the strengthened type invariant.
LEMMA TypeInit == Init => TypeInv
<1> SUFFICES ASSUME Init PROVE TypeInv
  OBVIOUS
<1>1. acked \in BOOLEAN /\ placing \in BOOLEAN /\ hold \in BOOLEAN /\ answered \in [Updates -> BOOLEAN]
  BY Zenon DEF Init
<1> QED
  BY <1>1, QueueAssumption
     DEF Init, TypeInv, TypeOK, WorkerHasTask, PollerHasRow, ReconHasTask, RowStatus,
         TurnIsAwaited, Updates, NoTask

\* Every step keeps the types, given who holds which task before it.
LEMMA TypeOKStep == TypeInv /\ [Next]_vars => TypeOK'
<1> SUFFICES ASSUME TypeInv, [Next]_vars
             PROVE  TypeOK'
  OBVIOUS
<1> USE QueueAssumption
        DEF TypeInv, TypeOK, durable, poller, worker, backend, recovery, history, budget
<1>1. CASE Enqueue
  <2>1. status' \in [Updates -> RowStatus]
    BY <1>1 DEF Enqueue, SetStatus, RowStatus
  <2>2. offset' \in 0..NumUpdates
    BY <1>1 DEF Enqueue, Acknowledge
  <2> QED
    BY <1>1, <2>1, <2>2 DEF Enqueue, Acknowledge
<1>2. CASE DecideNotice
  BY <1>2 DEF DecideNotice, Acknowledge, PollerHasRow
<1>3. CASE NoticeSent
  <2>1. status' \in [Updates -> RowStatus]
    BY <1>3 DEF NoticeSent, SetStatus, RowStatus
  <2>2. offset' \in 0..NumUpdates
    BY <1>3 DEF NoticeSent, Acknowledge, PollerHasRow
  <2> QED
    BY <1>3, <2>1, <2>2 DEF NoticeSent, Acknowledge
<1>4. CASE NoticeFails
  BY <1>4 DEF NoticeFails
<1>5. CASE SyncBackend
  <2>1. alive' \in BOOLEAN
    BY <1>5, Zenon DEF SyncBackend
  <2> QED
    BY <1>5, <2>1 DEF SyncBackend
<1>6. CASE PickTask
  BY <1>6 DEF PickTask
<1>7. CASE PrepareFails
  BY <1>7 DEF PrepareFails
<1>8. CASE SelectLane
  BY <1>8 DEF SelectLane, SetStatus, ReleaseTask, RowStatus
<1>37. CASE Requeue
  BY <1>37 DEF Requeue, SetStatus, ReleaseTask, RowStatus
<1>9. CASE InputsFail
  BY <1>9 DEF InputsFail
<1>10. CASE RecordTask
  BY <1>10 DEF RecordTask, WorkerHasTask, Record, Stages
<1>11. CASE RequestTurn
  <2>1. acked' \in BOOLEAN
    BY <1>11, Zenon DEF RequestTurn
  <2> QED
    BY <1>11, <2>1 DEF RequestTurn, SetStatus, MarkStage, Record, Stages, RowStatus
<1>12. CASE DeliverAnswer
  <2>1. answered' \in [Updates -> BOOLEAN]
    BY <1>12 DEF DeliverAnswer
  <2> QED
    BY <1>12, <2>1 DEF DeliverAnswer
<1>13. CASE FinishTask
  <2>1. status' \in [Updates -> RowStatus]
    BY <1>13 DEF FinishTask, SetStatus, RowStatus
  <2> QED
    BY <1>13, <2>1 DEF FinishTask, ReleaseTask
<1>14. CASE ReportFailure
  BY <1>14 DEF ReportFailure, SetStatus, ReleaseTask, RowStatus, Terminal
<1>15. CASE FinishDeferral
  BY <1>15 DEF FinishDeferral, ReleaseTask, SetStatus, RowStatus
<1>16. CASE TurnAcked
  BY <1>16 DEF TurnAcked, MarkStage, Record, Stages
<1>36. CASE PlaceholderStored
  <2>1. placing' \in BOOLEAN
    BY <1>36, Zenon DEF PlaceholderStored
  <2>2. status' \in [Updates -> RowStatus]
    BY <1>36 DEF PlaceholderStored, SetStatus, RowStatus
  <2> QED
    BY <1>36, <2>1, <2>2 DEF PlaceholderStored
<1>17. CASE TurnRejected
  BY <1>17 DEF TurnRejected
<1>18. CASE TurnCompletes
  BY <1>18 DEF TurnCompletes
<1>19. CASE \E v \in Updates : CodexWrites(v)
  BY <1>19 DEF CodexWrites
<1>20. CASE BackendExit
  <2>1. alive' \in BOOLEAN
    BY <1>20, Zenon DEF BackendExit
  <2> QED
    BY <1>20, <2>1 DEF BackendExit
<1>21. CASE HandoffStarts
  BY <1>21 DEF HandoffStarts
<1>22. CASE HandoffEnds
  BY <1>22 DEF HandoffEnds
<1>23. CASE HoldBegins
  <2>1. hold' \in BOOLEAN
    BY <1>23, Zenon DEF HoldBegins
  <2> QED
    BY <1>23, <2>1 DEF HoldBegins
<1>24. CASE HoldEnds
  <2>1. hold' \in BOOLEAN
    BY <1>24, Zenon DEF HoldEnds
  <2> QED
    BY <1>24, <2>1 DEF HoldEnds
<1>25. CASE RecoverySync
  BY <1>25 DEF RecoverySync
<1>26. CASE InspectRollout
  BY <1>26 DEF InspectRollout, EndReconcile, SetStatus, RowStatus
<1>27. CASE ReconcileAnswer
  <2>1. answered' \in [Updates -> BOOLEAN]
    BY <1>27 DEF ReconcileAnswer
  <2> QED
    BY <1>27, <2>1 DEF ReconcileAnswer
<1>28. CASE ReconcileMark
  <2>1. status' \in [Updates -> RowStatus]
    BY <1>28, ZenonT(40) DEF ReconcileMark, EndReconcile, SetStatus, RowStatus
  <2> QED
    BY <1>28, <2>1 DEF ReconcileMark, EndReconcile
<1>29. CASE ReconcileFail
  <2>1. status' \in [Updates -> RowStatus]
    BY <1>29 DEF ReconcileFail, EndReconcile, SetStatus, RowStatus, Terminal
  <2> QED
    BY <1>29, <2>1 DEF ReconcileFail, EndReconcile
<1>30. CASE Crash
  <2>1. acked' \in BOOLEAN
    BY <1>30, Zenon DEF Crash
  <2>2. alive' \in BOOLEAN
    BY <1>30, Zenon DEF Crash
  <2>3. placing' \in BOOLEAN
    BY <1>30, Zenon DEF Crash
  <2> QED
    BY <1>30, <2>1, <2>2, <2>3 DEF Crash
<1>31. CASE Restart
  BY <1>31 DEF Restart, RecoverInterruptedWork, RecoveredStatus, RecordStands, RowStatus
<1>32. CASE ControlRecoverQueue
  BY <1>32 DEF ControlRecoverQueue, RecoveredStatus, RecordStands, RowStatus, Terminal
<1>33. CASE RepairRunningQueue
  BY <1>33 DEF RepairRunningQueue, RecoverInterruptedWork, RecoveredStatus, RecordStands, RowStatus
<1>34. CASE AwaitUpdates
  BY <1>34 DEF AwaitUpdates, vars
<1>35. CASE UNCHANGED vars
  BY <1>35 DEF vars
<1> QED
  BY <1>1, <1>2, <1>3, <1>4, <1>5, <1>6, <1>7, <1>8, <1>9, <1>10, <1>11, <1>12,
     <1>13, <1>14, <1>15, <1>16, <1>17, <1>18, <1>19, <1>20, <1>21, <1>22, <1>23, <1>24,
     <1>25, <1>26, <1>27, <1>28, <1>29, <1>30, <1>31, <1>32, <1>33, <1>34, <1>35,
     <1>36, <1>37 DEF Next, Poll, Work, Reconcile


\* No action deletes a row of the queue.
LEMMA RowsStay ==
  TypeInv /\ [Next]_vars =>
    \A u \in Updates : status[u] # "absent" => status'[u] # "absent"
<1> SUFFICES ASSUME TypeInv, [Next]_vars, NEW u \in Updates, status[u] # "absent"
             PROVE  status'[u] # "absent"
  OBVIOUS
<1> USE DEF TypeInv, TypeOK, durable
<1>1. CASE Enqueue
  BY <1>1 DEF Enqueue, SetStatus, Acknowledge
<1>2. CASE DecideNotice
  BY <1>2 DEF DecideNotice
<1>3. CASE NoticeSent
  BY <1>3 DEF NoticeSent, SetStatus
<1>4. CASE NoticeFails
  BY <1>4 DEF NoticeFails
<1>5. CASE SyncBackend
  BY <1>5 DEF SyncBackend
<1>6. CASE PickTask
  BY <1>6 DEF PickTask
<1>7. CASE PrepareFails
  BY <1>7 DEF PrepareFails
<1>8. CASE SelectLane
  BY <1>8 DEF SelectLane, SetStatus
<1>37. CASE Requeue
  BY <1>37 DEF Requeue, SetStatus
<1>9. CASE InputsFail
  BY <1>9 DEF InputsFail
<1>10. CASE RecordTask
  BY <1>10 DEF RecordTask
<1>11. CASE RequestTurn
  BY <1>11 DEF RequestTurn, SetStatus
<1>12. CASE DeliverAnswer
  BY <1>12 DEF DeliverAnswer
<1>13. CASE FinishTask
  BY <1>13 DEF FinishTask, SetStatus, Terminal
<1>14. CASE ReportFailure
  BY <1>14 DEF ReportFailure, SetStatus
<1>15. CASE FinishDeferral
  BY <1>15 DEF FinishDeferral, SetStatus
<1>16. CASE TurnAcked
  BY <1>16 DEF TurnAcked
<1>36. CASE PlaceholderStored
  BY <1>36 DEF PlaceholderStored, SetStatus
<1>17. CASE TurnRejected
  BY <1>17 DEF TurnRejected
<1>18. CASE TurnCompletes
  BY <1>18 DEF TurnCompletes
<1>19. CASE \E v \in Updates : CodexWrites(v)
  BY <1>19 DEF CodexWrites
<1>20. CASE BackendExit
  BY <1>20 DEF BackendExit
<1>21. CASE HandoffStarts
  BY <1>21 DEF HandoffStarts
<1>22. CASE HandoffEnds
  BY <1>22 DEF HandoffEnds
<1>23. CASE HoldBegins
  BY <1>23 DEF HoldBegins
<1>24. CASE HoldEnds
  BY <1>24 DEF HoldEnds
<1>25. CASE RecoverySync
  BY <1>25 DEF RecoverySync
<1>26. CASE InspectRollout
  BY <1>26 DEF InspectRollout, EndReconcile, SetStatus
<1>27. CASE ReconcileAnswer
  BY <1>27 DEF ReconcileAnswer
<1>28. CASE ReconcileMark
  BY <1>28 DEF ReconcileMark, EndReconcile, SetStatus, Terminal
<1>29. CASE ReconcileFail
  BY <1>29 DEF ReconcileFail, EndReconcile, SetStatus
<1>30. CASE Crash
  BY <1>30 DEF Crash
<1>31. CASE Restart
  BY <1>31 DEF Restart, RecoverInterruptedWork, RecoveredStatus
<1>32. CASE ControlRecoverQueue
  BY <1>32 DEF ControlRecoverQueue, RecoveredStatus
<1>33. CASE RepairRunningQueue
  BY <1>33 DEF RepairRunningQueue, RecoverInterruptedWork, RecoveredStatus
<1>34. CASE AwaitUpdates
  BY <1>34 DEF AwaitUpdates, vars
<1>35. CASE UNCHANGED vars
  BY <1>35 DEF vars
<1> QED
  BY <1>1, <1>2, <1>3, <1>4, <1>5, <1>6, <1>7, <1>8, <1>9, <1>10, <1>11, <1>12,
     <1>13, <1>14, <1>15, <1>16, <1>17, <1>18, <1>19, <1>20, <1>21, <1>22, <1>23, <1>24,
     <1>25, <1>26, <1>27, <1>28, <1>29, <1>30, <1>31, <1>32, <1>33, <1>34, <1>35,
     <1>36, <1>37 DEF Next, Poll, Work, Reconcile

\* Every step that moves the worker gives it a task or takes it away, and a turn of a
\* task is only ever pending while the worker awaits it.
LEMMA WorkerStep == TypeInv /\ [Next]_vars => WorkerHasTask' /\ TurnIsAwaited'
<1> SUFFICES ASSUME TypeInv, [Next]_vars
             PROVE  WorkerHasTask' /\ TurnIsAwaited'
  OBVIOUS
<1> USE QueueAssumption
        DEF TypeInv, WorkerHasTask, TurnIsAwaited, worker, backend, Updates, NoTask, Handoff
<1>1. CASE Enqueue
  BY <1>1 DEF Enqueue
<1>2. CASE DecideNotice
  BY <1>2 DEF DecideNotice
<1>3. CASE NoticeSent
  BY <1>3 DEF NoticeSent
<1>4. CASE NoticeFails
  BY <1>4 DEF NoticeFails
<1>5. CASE SyncBackend
  BY <1>5 DEF SyncBackend
<1>6. CASE PickTask
  BY <1>6 DEF PickTask
<1>7. CASE PrepareFails
  BY <1>7 DEF PrepareFails
<1>8. CASE SelectLane
  BY <1>8 DEF SelectLane, ReleaseTask
<1>37. CASE Requeue
  BY <1>37 DEF Requeue, ReleaseTask
<1>9. CASE InputsFail
  BY <1>9 DEF InputsFail
<1>10. CASE RecordTask
  BY <1>10 DEF RecordTask
<1>11. CASE RequestTurn
  BY <1>11 DEF RequestTurn
<1>12. CASE DeliverAnswer
  BY <1>12 DEF DeliverAnswer
<1>13. CASE FinishTask
  BY <1>13 DEF FinishTask, ReleaseTask
<1>14. CASE ReportFailure
  BY <1>14 DEF ReportFailure, ReleaseTask
<1>15. CASE FinishDeferral
  BY <1>15 DEF FinishDeferral, ReleaseTask
<1>16. CASE TurnAcked
  BY <1>16 DEF TurnAcked
<1>36. CASE PlaceholderStored
  BY <1>36 DEF PlaceholderStored
<1>17. CASE TurnRejected
  BY <1>17 DEF TurnRejected
<1>18. CASE TurnCompletes
  BY <1>18 DEF TurnCompletes
<1>19. CASE \E v \in Updates : CodexWrites(v)
  BY <1>19 DEF CodexWrites
<1>20. CASE BackendExit
  BY <1>20 DEF BackendExit
<1>21. CASE HandoffStarts
  BY <1>21 DEF HandoffStarts
<1>22. CASE HandoffEnds
  BY <1>22 DEF HandoffEnds
<1>23. CASE HoldBegins
  BY <1>23 DEF HoldBegins
<1>24. CASE HoldEnds
  BY <1>24 DEF HoldEnds
<1>25. CASE RecoverySync
  BY <1>25 DEF RecoverySync
<1>26. CASE InspectRollout
  BY <1>26 DEF InspectRollout
<1>27. CASE ReconcileAnswer
  BY <1>27 DEF ReconcileAnswer
<1>28. CASE ReconcileMark
  BY <1>28 DEF ReconcileMark
<1>29. CASE ReconcileFail
  BY <1>29 DEF ReconcileFail
<1>30. CASE Crash
  BY <1>30 DEF Crash
<1>31. CASE Restart
  BY <1>31 DEF Restart
<1>32. CASE ControlRecoverQueue
  BY <1>32 DEF ControlRecoverQueue
<1>33. CASE RepairRunningQueue
  BY <1>33 DEF RepairRunningQueue
<1>34. CASE AwaitUpdates
  BY <1>34 DEF AwaitUpdates, vars
<1>35. CASE UNCHANGED vars
  BY <1>35 DEF vars
<1> QED
  BY <1>1, <1>2, <1>3, <1>4, <1>5, <1>6, <1>7, <1>8, <1>9, <1>10, <1>11, <1>12,
     <1>13, <1>14, <1>15, <1>16, <1>17, <1>18, <1>19, <1>20, <1>21, <1>22, <1>23, <1>24,
     <1>25, <1>26, <1>27, <1>28, <1>29, <1>30, <1>31, <1>32, <1>33, <1>34, <1>35,
     <1>36, <1>37 DEF Next, Poll, Work, Reconcile

\* The poll loop leaves "fetch" only with a row in the queue, and no step deletes it.
LEMMA PollerStep == TypeInv /\ [Next]_vars => PollerHasRow'
<1> SUFFICES ASSUME TypeInv, [Next]_vars
             PROVE  PollerHasRow'
  OBVIOUS
<1>a. offset' = offset /\ pollPc' # "fetch" /\ pollPc = pollPc' => PollerHasRow'
  BY RowsStay, QueueAssumption DEF TypeInv, TypeOK, PollerHasRow, Updates
<1> USE DEF TypeInv, PollerHasRow, durable, poller
<1>1. CASE Enqueue
  <2>1. offset + 1 \in Updates
    BY <1>1, QueueAssumption DEF Enqueue, TypeOK, Updates
  <2>2. CASE pollPc' = "decide" /\ offset' = offset /\ SetStatus(offset + 1, "pending")
    BY <1>1, <2>1, <2>2 DEF Enqueue, SetStatus, TypeOK
  <2>3. CASE Acknowledge
    BY <2>3 DEF Acknowledge
  <2> QED
    BY <1>1, <2>2, <2>3 DEF Enqueue
<1>2. CASE DecideNotice
  BY <1>2, <1>a DEF DecideNotice, Acknowledge
<1>3. CASE NoticeSent
  BY <1>3, <1>a DEF NoticeSent, Acknowledge
<1>4. CASE NoticeFails
  BY <1>4, <1>a DEF NoticeFails
<1>5. CASE SyncBackend
  BY <1>5, <1>a DEF SyncBackend
<1>6. CASE PickTask
  BY <1>6, <1>a DEF PickTask
<1>7. CASE PrepareFails
  BY <1>7, <1>a DEF PrepareFails
<1>8. CASE SelectLane
  BY <1>8, <1>a DEF SelectLane
<1>37. CASE Requeue
  BY <1>37, <1>a DEF Requeue
<1>9. CASE InputsFail
  BY <1>9, <1>a DEF InputsFail
<1>10. CASE RecordTask
  BY <1>10, <1>a DEF RecordTask
<1>11. CASE RequestTurn
  BY <1>11, <1>a DEF RequestTurn
<1>12. CASE DeliverAnswer
  BY <1>12, <1>a DEF DeliverAnswer
<1>13. CASE FinishTask
  BY <1>13, <1>a DEF FinishTask
<1>14. CASE ReportFailure
  BY <1>14, <1>a DEF ReportFailure
<1>15. CASE FinishDeferral
  BY <1>15, <1>a DEF FinishDeferral
<1>16. CASE TurnAcked
  BY <1>16, <1>a DEF TurnAcked
<1>36. CASE PlaceholderStored
  BY <1>36, <1>a DEF PlaceholderStored, SetStatus
<1>17. CASE TurnRejected
  BY <1>17, <1>a DEF TurnRejected
<1>18. CASE TurnCompletes
  BY <1>18, <1>a DEF TurnCompletes
<1>19. CASE \E v \in Updates : CodexWrites(v)
  BY <1>19, <1>a DEF CodexWrites
<1>20. CASE BackendExit
  BY <1>20, <1>a DEF BackendExit
<1>21. CASE HandoffStarts
  BY <1>21, <1>a DEF HandoffStarts
<1>22. CASE HandoffEnds
  BY <1>22, <1>a DEF HandoffEnds
<1>23. CASE HoldBegins
  BY <1>23, <1>a DEF HoldBegins
<1>24. CASE HoldEnds
  BY <1>24, <1>a DEF HoldEnds
<1>25. CASE RecoverySync
  BY <1>25, <1>a DEF RecoverySync
<1>26. CASE InspectRollout
  BY <1>26, <1>a DEF InspectRollout
<1>27. CASE ReconcileAnswer
  BY <1>27, <1>a DEF ReconcileAnswer
<1>28. CASE ReconcileMark
  BY <1>28, <1>a DEF ReconcileMark
<1>29. CASE ReconcileFail
  BY <1>29, <1>a DEF ReconcileFail
<1>30. CASE Crash
  BY <1>30, <1>a DEF Crash
<1>31. CASE Restart
  BY <1>31, <1>a DEF Restart
<1>32. CASE ControlRecoverQueue
  BY <1>32, <1>a DEF ControlRecoverQueue
<1>33. CASE RepairRunningQueue
  BY <1>33, <1>a DEF RepairRunningQueue
<1>34. CASE AwaitUpdates
  BY <1>34, <1>a DEF AwaitUpdates, vars
<1>35. CASE UNCHANGED vars
  BY <1>35, <1>a DEF vars
<1> QED
  BY <1>1, <1>2, <1>3, <1>4, <1>5, <1>6, <1>7, <1>8, <1>9, <1>10, <1>11, <1>12,
     <1>13, <1>14, <1>15, <1>16, <1>17, <1>18, <1>19, <1>20, <1>21, <1>22, <1>23, <1>24,
     <1>25, <1>26, <1>27, <1>28, <1>29, <1>30, <1>31, <1>32, <1>33, <1>34, <1>35,
     <1>36, <1>37 DEF Next, Poll, Work, Reconcile

\* A recovery goes on to the rollout only with a record.
LEMMA ReconStep == TypeInv /\ [Next]_vars => ReconHasTask'
<1> SUFFICES ASSUME TypeInv, [Next]_vars
             PROVE  ReconHasTask'
  OBVIOUS
<1> USE DEF TypeInv, ReconHasTask, recovery
<1>1. CASE Enqueue
  BY <1>1 DEF Enqueue
<1>2. CASE DecideNotice
  BY <1>2 DEF DecideNotice
<1>3. CASE NoticeSent
  BY <1>3 DEF NoticeSent
<1>4. CASE NoticeFails
  BY <1>4 DEF NoticeFails
<1>5. CASE SyncBackend
  BY <1>5 DEF SyncBackend
<1>6. CASE PickTask
  BY <1>6 DEF PickTask
<1>7. CASE PrepareFails
  BY <1>7 DEF PrepareFails
<1>8. CASE SelectLane
  BY <1>8 DEF SelectLane
<1>37. CASE Requeue
  BY <1>37 DEF Requeue
<1>9. CASE InputsFail
  BY <1>9 DEF InputsFail
<1>10. CASE RecordTask
  BY <1>10 DEF RecordTask
<1>11. CASE RequestTurn
  BY <1>11 DEF RequestTurn
<1>12. CASE DeliverAnswer
  BY <1>12 DEF DeliverAnswer
<1>13. CASE FinishTask
  BY <1>13 DEF FinishTask
<1>14. CASE ReportFailure
  BY <1>14 DEF ReportFailure
<1>15. CASE FinishDeferral
  BY <1>15 DEF FinishDeferral
<1>16. CASE TurnAcked
  BY <1>16 DEF TurnAcked
<1>36. CASE PlaceholderStored
  BY <1>36 DEF PlaceholderStored
<1>17. CASE TurnRejected
  BY <1>17 DEF TurnRejected
<1>18. CASE TurnCompletes
  BY <1>18 DEF TurnCompletes
<1>19. CASE \E v \in Updates : CodexWrites(v)
  BY <1>19 DEF CodexWrites
<1>20. CASE BackendExit
  BY <1>20 DEF BackendExit
<1>21. CASE HandoffStarts
  BY <1>21 DEF HandoffStarts
<1>22. CASE HandoffEnds
  BY <1>22 DEF HandoffEnds
<1>23. CASE HoldBegins
  BY <1>23 DEF HoldBegins
<1>24. CASE HoldEnds
  BY <1>24 DEF HoldEnds
<1>25. CASE RecoverySync
  BY <1>25 DEF RecoverySync, TypeOK
<1>26. CASE InspectRollout
  BY <1>26 DEF InspectRollout, EndReconcile
<1>27. CASE ReconcileAnswer
  BY <1>27 DEF ReconcileAnswer
<1>28. CASE ReconcileMark
  BY <1>28 DEF ReconcileMark, EndReconcile
<1>29. CASE ReconcileFail
  BY <1>29 DEF ReconcileFail, EndReconcile
<1>30. CASE Crash
  BY <1>30 DEF Crash
<1>31. CASE Restart
  BY <1>31 DEF Restart, RecoverInterruptedWork, RecordStands, TypeOK
<1>32. CASE ControlRecoverQueue
  BY <1>32 DEF ControlRecoverQueue
<1>33. CASE RepairRunningQueue
  BY <1>33 DEF RepairRunningQueue
<1>34. CASE AwaitUpdates
  BY <1>34 DEF AwaitUpdates, vars
<1>35. CASE UNCHANGED vars
  BY <1>35 DEF vars
<1> QED
  BY <1>1, <1>2, <1>3, <1>4, <1>5, <1>6, <1>7, <1>8, <1>9, <1>10, <1>11, <1>12,
     <1>13, <1>14, <1>15, <1>16, <1>17, <1>18, <1>19, <1>20, <1>21, <1>22, <1>23, <1>24,
     <1>25, <1>26, <1>27, <1>28, <1>29, <1>30, <1>31, <1>32, <1>33, <1>34, <1>35,
     <1>36, <1>37 DEF Next, Poll, Work, Reconcile

\* The strengthened type invariant is inductive.
LEMMA TypeStep == TypeInv /\ [Next]_vars => TypeInv'
BY TypeOKStep, WorkerStep, PollerStep, ReconStep DEF TypeInv


\* Every value of every variable has its type, in every reachable state.
THEOREM TypeCorrect == Spec => []TypeOK
<1>1. TypeInv => TypeOK
  BY DEF TypeInv
<1> QED
  BY <1>1, TypeInit, TypeStep, PTL DEF Spec

----------------------------------------------------------------------------
(* No update is lost.                                                      *)

\* Only Acknowledge moves the offset, and the update it passes has a row.
LEMMA LostStep == TypeInv /\ NoUpdateLost /\ [Next]_vars => NoUpdateLost'
<1> SUFFICES ASSUME TypeInv, NoUpdateLost, [Next]_vars
             PROVE  NoUpdateLost'
  OBVIOUS
<1>1. offset' = offset \/ (offset' = offset + 1 /\ status[offset + 1] # "absent")
  <2>1. CASE Enqueue
    BY <2>1 DEF Enqueue, Acknowledge
  <2>2. CASE DecideNotice \/ NoticeSent
    BY <2>2 DEF DecideNotice, NoticeSent, Acknowledge, TypeInv, PollerHasRow
  <2>3. CASE NoticeFails \/ Work \/ Reconcile
    BY <2>3 DEF NoticeFails, Work, Reconcile, durable, SyncBackend, PickTask, PrepareFails,
                SelectLane, Requeue, InputsFail, RecordTask, RequestTurn, DeliverAnswer, FinishTask,
                ReportFailure, FinishDeferral, RecoverySync, InspectRollout, ReconcileAnswer,
                ReconcileMark, ReconcileFail
  <2>4. CASE TurnAcked \/ PlaceholderStored \/ TurnRejected \/ TurnCompletes \/ (\E v \in Updates : CodexWrites(v))
             \/ BackendExit \/ HandoffStarts \/ HandoffEnds \/ HoldBegins \/ HoldEnds
    BY <2>4 DEF TurnAcked, PlaceholderStored, TurnRejected, TurnCompletes, CodexWrites, BackendExit,
                HandoffStarts, HandoffEnds, HoldBegins, HoldEnds, durable
  <2>5. CASE Crash \/ Restart \/ ControlRecoverQueue \/ RepairRunningQueue \/ AwaitUpdates
             \/ UNCHANGED vars
    BY <2>5 DEF Crash, Restart, ControlRecoverQueue, RepairRunningQueue, AwaitUpdates, vars, durable
  <2> QED
    BY <2>1, <2>2, <2>3, <2>4, <2>5 DEF Next, Poll
<1> QED
  BY <1>1, RowsStay, QueueAssumption DEF TypeInv, TypeOK, NoUpdateLost, Updates

\* An acknowledged update has a row in the queue, whatever fails, crashes or races.
THEOREM NoUpdateIsLost == Spec => []NoUpdateLost
<1>1. Init => NoUpdateLost
  BY DEF Init, NoUpdateLost, Updates
<1> QED
  BY <1>1, TypeInit, TypeStep, LostStep, PTL DEF Spec


----------------------------------------------------------------------------
(* A completed row was answered.                                           *)

\* A row becomes completed only in the two steps that follow a sent answer.
LEMMA CompletedStep ==
  TypeInv /\ [Next]_vars =>
    \A u \in Updates :
      status'[u] = "completed" =>
        \/ status[u] = "completed"
        \/ FinishTask /\ u = workerTask
        \/ ReconcileMark /\ u = recon.task
<1> SUFFICES ASSUME TypeInv, [Next]_vars, NEW u \in Updates,
                    status'[u] = "completed", status[u] # "completed"
             PROVE  \/ FinishTask /\ u = workerTask
                    \/ ReconcileMark /\ u = recon.task
  OBVIOUS
<1> USE DEF TypeInv, TypeOK, durable, SetStatus
<1>1. CASE Poll
  BY <1>1 DEF Poll, Enqueue, DecideNotice, NoticeSent, NoticeFails
<1>2. CASE SyncBackend \/ PickTask \/ PrepareFails \/ SelectLane \/ Requeue \/ InputsFail \/ RecordTask
  BY <1>2 DEF SyncBackend, PickTask, PrepareFails, SelectLane, Requeue, InputsFail, RecordTask
<1>3. CASE RequestTurn \/ DeliverAnswer \/ FinishTask \/ ReportFailure \/ FinishDeferral
  BY <1>3 DEF RequestTurn, DeliverAnswer, FinishTask, ReportFailure, FinishDeferral
<1>4. CASE TurnAcked \/ PlaceholderStored \/ TurnRejected \/ TurnCompletes \/ (\E v \in Updates : CodexWrites(v))
  BY <1>4 DEF TurnAcked, PlaceholderStored, TurnRejected, TurnCompletes, CodexWrites
<1>5. CASE BackendExit \/ HandoffStarts \/ HandoffEnds \/ HoldBegins \/ HoldEnds
  BY <1>5 DEF BackendExit, HandoffStarts, HandoffEnds, HoldBegins, HoldEnds
<1>6. CASE Reconcile
  BY <1>6 DEF Reconcile, RecoverySync, InspectRollout, ReconcileAnswer, ReconcileMark,
              ReconcileFail, EndReconcile
<1>7. CASE Crash \/ AwaitUpdates \/ UNCHANGED vars
  BY <1>7 DEF Crash, AwaitUpdates, vars
<1>8. CASE Restart \/ ControlRecoverQueue \/ RepairRunningQueue
  BY <1>8 DEF Restart, ControlRecoverQueue, RepairRunningQueue, RecoverInterruptedWork,
              RecoveredStatus
<1> QED
  BY <1>1, <1>2, <1>3, <1>4, <1>5, <1>6, <1>7, <1>8 DEF Next, Work

\* An answer that was sent stays sent.
LEMMA AnswersStay ==
  TypeInv /\ [Next]_vars => \A u \in Updates : answered[u] => answered'[u]
<1> SUFFICES ASSUME TypeInv, [Next]_vars, NEW u \in Updates, answered[u]
             PROVE  answered'[u]
  OBVIOUS
<1>1. answered' = answered \/ DeliverAnswer \/ ReconcileAnswer
  BY DEF Next, vars, history, Poll, Enqueue, DecideNotice, NoticeSent, NoticeFails, Work,
         SyncBackend, PickTask, PrepareFails, SelectLane, Requeue, InputsFail, RecordTask, RequestTurn,
         FinishTask, ReportFailure, FinishDeferral, TurnAcked, PlaceholderStored, TurnRejected, TurnCompletes,
         CodexWrites, BackendExit, HandoffStarts, HandoffEnds, HoldBegins, HoldEnds, Reconcile,
         RecoverySync, InspectRollout, ReconcileMark, ReconcileFail, Crash, Restart,
         ControlRecoverQueue, RepairRunningQueue, AwaitUpdates
<1>2. CASE DeliverAnswer
  BY <1>2 DEF DeliverAnswer, TypeInv, TypeOK
<1>3. CASE ReconcileAnswer
  BY <1>3 DEF ReconcileAnswer, TypeInv, TypeOK
<1> QED
  BY <1>1, <1>2, <1>3

\* No step reaches "artifacts" or "mark" without the answer of its task.
LEMMA MarkStep == AnswerInv /\ [Next]_vars => MarkAfterAnswer'
<1> SUFFICES ASSUME AnswerInv, [Next]_vars
             PROVE  MarkAfterAnswer'
  OBVIOUS
<1>1. ASSUME workerPc' = "artifacts"
      PROVE  answered'[workerTask']
  <2>1. DeliverAnswer \/ (workerPc = "artifacts" /\ workerTask' = workerTask)
    <3>1. CASE Poll
      BY <1>1, <3>1 DEF Poll, Enqueue, DecideNotice, NoticeSent, NoticeFails, worker, ReleaseTask
    <3>2. CASE SyncBackend \/ PickTask \/ PrepareFails \/ SelectLane \/ Requeue \/ InputsFail \/ RecordTask
      BY <1>1, <3>2 DEF SyncBackend, PickTask, PrepareFails, SelectLane, Requeue, InputsFail, RecordTask, worker, ReleaseTask
    <3>3. CASE RequestTurn \/ FinishTask \/ ReportFailure \/ FinishDeferral
      BY <1>1, <3>3 DEF RequestTurn, FinishTask, ReportFailure, FinishDeferral, ReleaseTask
    <3>4. CASE TurnAcked \/ PlaceholderStored \/ TurnRejected \/ TurnCompletes \/ (\E v \in Updates : CodexWrites(v))
      BY <1>1, <3>4 DEF TurnAcked, PlaceholderStored, TurnRejected, TurnCompletes, CodexWrites, worker, ReleaseTask
    <3>5. CASE BackendExit \/ HandoffStarts \/ HandoffEnds \/ HoldBegins \/ HoldEnds
      BY <1>1, <3>5 DEF BackendExit, HandoffStarts, HandoffEnds, HoldBegins, HoldEnds, worker, ReleaseTask
    <3>6. CASE Reconcile
      BY <1>1, <3>6 DEF Reconcile, RecoverySync, InspectRollout, ReconcileAnswer, ReconcileMark, ReconcileFail, EndReconcile, worker, ReleaseTask
    <3>7. CASE Crash \/ AwaitUpdates \/ UNCHANGED vars
      BY <1>1, <3>7 DEF Crash, AwaitUpdates, vars, worker, ReleaseTask
    <3>8. CASE Restart \/ ControlRecoverQueue \/ RepairRunningQueue
      BY <1>1, <3>8 DEF Restart, ControlRecoverQueue, RepairRunningQueue, worker, ReleaseTask
    <3>9. CASE DeliverAnswer
      BY <3>9, Zenon
    <3> QED
      BY <3>1, <3>2, <3>3, <3>4, <3>5, <3>6, <3>7, <3>8, <3>9, Zenon DEF Next, Work
  <2>2. CASE DeliverAnswer
    BY <1>1, <2>2 DEF DeliverAnswer, AnswerInv, TypeInv, TypeOK, WorkerHasTask
  <2>3. CASE workerPc = "artifacts" /\ workerTask' = workerTask
    BY <2>3, AnswersStay DEF AnswerInv, TypeInv, WorkerHasTask, MarkAfterAnswer
  <2> QED
    BY <2>1, <2>2, <2>3
<1>2. ASSUME reconPc' = "mark"
      PROVE  answered'[recon'.task]
  <2>1. ReconcileAnswer \/ (reconPc = "mark" /\ recon' = recon)
    <3>1. CASE Poll
      BY <1>2, <3>1 DEF Poll, Enqueue, DecideNotice, NoticeSent, NoticeFails, recovery
    <3>2. CASE SyncBackend \/ PickTask \/ PrepareFails \/ SelectLane \/ Requeue \/ InputsFail \/ RecordTask
      BY <1>2, <3>2 DEF SyncBackend, PickTask, PrepareFails, SelectLane, Requeue, InputsFail, RecordTask, recovery
    <3>3. CASE RequestTurn \/ DeliverAnswer \/ FinishTask \/ ReportFailure \/ FinishDeferral
      BY <1>2, <3>3 DEF RequestTurn, DeliverAnswer, FinishTask, ReportFailure, FinishDeferral, recovery
    <3>4. CASE TurnAcked \/ PlaceholderStored \/ TurnRejected \/ TurnCompletes \/ (\E v \in Updates : CodexWrites(v))
      BY <1>2, <3>4 DEF TurnAcked, PlaceholderStored, TurnRejected, TurnCompletes, CodexWrites, recovery
    <3>5. CASE BackendExit \/ HandoffStarts \/ HandoffEnds \/ HoldBegins \/ HoldEnds
      BY <1>2, <3>5 DEF BackendExit, HandoffStarts, HandoffEnds, HoldBegins, HoldEnds, recovery
    <3>6. CASE RecoverySync \/ InspectRollout \/ ReconcileMark \/ ReconcileFail
      BY <1>2, <3>6 DEF RecoverySync, InspectRollout, ReconcileMark, ReconcileFail, EndReconcile
    <3>7. CASE Crash \/ AwaitUpdates \/ UNCHANGED vars
      BY <1>2, <3>7 DEF Crash, AwaitUpdates, vars, recovery
    <3>8. CASE Restart \/ ControlRecoverQueue \/ RepairRunningQueue
      BY <1>2, <3>8 DEF Restart, ControlRecoverQueue, RepairRunningQueue, recovery
    <3>9. CASE ReconcileAnswer
      BY <3>9, Zenon
    <3> QED
      BY <3>1, <3>2, <3>3, <3>4, <3>5, <3>6, <3>7, <3>8, <3>9, Zenon DEF Next, Work, Reconcile
  <2>2. CASE ReconcileAnswer
    BY <1>2, <2>2 DEF ReconcileAnswer, AnswerInv, TypeInv, TypeOK, ReconHasTask, Record
  <2>3. CASE reconPc = "mark" /\ recon' = recon
    BY <2>3, AnswersStay DEF AnswerInv, TypeInv, ReconHasTask, MarkAfterAnswer, Record
  <2> QED
    BY <2>1, <2>2, <2>3
<1> QED
  BY <1>1, <1>2 DEF MarkAfterAnswer

\* A row is marked completed only when the final text of its task was sent, by the
\* worker or by a recovery: for every crash, race, outage and repair.
THEOREM CompletedIsAnswered == Spec => []CompletedWasAnswered
<1>1. Init => AnswerInv
  BY TypeInit DEF Init, AnswerInv, MarkAfterAnswer, CompletedWasAnswered
<1>2. AnswerInv /\ [Next]_vars => AnswerInv'
  <2> SUFFICES ASSUME AnswerInv, [Next]_vars
               PROVE  CompletedWasAnswered'
    BY TypeStep, MarkStep DEF AnswerInv
  <2> SUFFICES ASSUME NEW u \in Updates, status'[u] = "completed"
               PROVE  answered'[u]
    BY DEF CompletedWasAnswered
  <2>1. answered[u]
    BY CompletedStep DEF AnswerInv, CompletedWasAnswered, MarkAfterAnswer, FinishTask, ReconcileMark
  <2> QED
    BY <2>1, AnswersStay DEF AnswerInv
<1>3. AnswerInv => CompletedWasAnswered
  BY DEF AnswerInv
<1> QED
  BY <1>1, <1>2, <1>3, PTL DEF Spec


----------------------------------------------------------------------------
(* No message is handed to Codex twice.                                    *)

\* The guard of a handed task survives every step.
LEMMA HandedStep == Calm /\ CalmInv /\ [Next]_vars => HandedIsGuarded'
<1> SUFFICES ASSUME Calm, CalmInv, [Next]_vars
             PROVE  HandedIsGuarded'
  OBVIOUS
<1> USE QueueAssumption
        DEF CalmInv, TypeInv, TypeOK, WorkerHasTask, TurnIsAwaited, HandedIsGuarded, WorkerAgrees, OnlyStartReconciles, NoticeIsEarly, PollerHasRow,
            Terminal, NoRecord, Record, Updates, NoTask, durable, history, Running, Reconciling, RecordStands
<1>1. CASE Enqueue
  BY <1>1 DEF Enqueue, SetStatus, Acknowledge
<1>2. CASE DecideNotice
  BY <1>2 DEF DecideNotice, Acknowledge
<1>3. CASE NoticeSent
  BY <1>3 DEF NoticeSent, SetStatus, Acknowledge
<1>4. CASE NoticeFails
  BY <1>4 DEF NoticeFails, Calm
<1>5. CASE SyncBackend
  BY <1>5 DEF SyncBackend
<1>6. CASE PickTask
  BY <1>6 DEF PickTask, IsNextPending, Pending
<1>7. CASE PrepareFails
  BY <1>7 DEF PrepareFails, Calm
<1>8. CASE SelectLane
  BY <1>8 DEF SelectLane, SetStatus, ReleaseTask, NoticeSettled, NoticeOpen, Calm
<1>37. CASE Requeue
  BY <1>37 DEF Requeue, SetStatus, ReleaseTask, Calm
<1>9. CASE InputsFail
  BY <1>9 DEF InputsFail
<1>10. CASE RecordTask
  BY <1>10 DEF RecordTask
<1>11. CASE RequestTurn
  <2>1. record = [task |-> workerTask, stage |-> "preparing"] /\ workerTask \in Updates
    BY <1>11 DEF RequestTurn
  <2>2. record' = [task |-> workerTask, stage |-> "requesting"]
    BY <1>11, <2>1 DEF RequestTurn, MarkStage
  <2>3. \A u \in Updates : u # workerTask => status'[u] = status[u] /\ handed'[u] = handed[u]
    BY <1>11, <2>1 DEF RequestTurn, SetStatus
  <2>4. \A u \in Updates : u # workerTask =>
          /\ handed[u] <= 1
          /\ handed[u] = 1 => status[u] \in Terminal
    BY <2>1
  <2>5. handed'[workerTask] = 0 \/ (handed'[workerTask] = 1 /\ status'[workerTask] = "processing")
    BY <1>11, <2>1 DEF RequestTurn
  <2> QED
    BY <2>1, <2>2, <2>3, <2>4, <2>5
<1>12. CASE DeliverAnswer
  BY <1>12 DEF DeliverAnswer, Calm
<1>13. CASE FinishTask
  BY <1>13 DEF FinishTask, SetStatus, ReleaseTask
<1>14. CASE ReportFailure
  <2>1. workerTask \in Updates /\ status' = [status EXCEPT ![workerTask] = "failed"]
    BY <1>14 DEF ReportFailure, SetStatus, Calm
  <2>2. record = NoRecord \/ record.task = workerTask
    BY <1>14 DEF ReportFailure
  <2>3. \A u \in Updates : u # workerTask =>
          /\ handed[u] <= 1
          /\ handed[u] = 1 => status[u] \in Terminal
    BY <2>1, <2>2
  <2> QED
    BY <1>14, <2>1, <2>3 DEF ReportFailure
<1>15. CASE FinishDeferral
  BY <1>15 DEF FinishDeferral, ReleaseTask, SetStatus
<1>16. CASE TurnAcked
  BY <1>16 DEF TurnAcked, MarkStage
<1>36. CASE PlaceholderStored
  BY <1>36 DEF PlaceholderStored
<1>17. CASE TurnRejected
  BY <1>17 DEF TurnRejected
<1>18. CASE TurnCompletes
  BY <1>18 DEF TurnCompletes
<1>19. CASE \E v \in Updates : CodexWrites(v)
  BY <1>19 DEF CodexWrites
<1>20. CASE BackendExit
  BY <1>20 DEF BackendExit, Calm
<1>21. CASE HandoffStarts
  BY <1>21 DEF HandoffStarts
<1>22. CASE HandoffEnds
  BY <1>22 DEF HandoffEnds
<1>23. CASE HoldBegins
  BY <1>23 DEF HoldBegins
<1>24. CASE HoldEnds
  BY <1>24 DEF HoldEnds
<1>25. CASE RecoverySync
  BY <1>25 DEF RecoverySync
<1>26. CASE InspectRollout
  BY <1>26, SMTT(30) DEF InspectRollout, EndReconcile, SetStatus
<1>27. CASE ReconcileAnswer
  BY <1>27 DEF ReconcileAnswer, Calm
<1>28. CASE ReconcileMark
  BY <1>28 DEF ReconcileMark, EndReconcile, SetStatus
<1>29. CASE ReconcileFail
  BY <1>29 DEF ReconcileFail, EndReconcile, SetStatus
<1>30. CASE Crash
  BY <1>30 DEF Crash
<1>31. CASE Restart
  BY <1>31 DEF Restart, RecoverInterruptedWork, RecoveredStatus, RecordStands
<1>32. CASE ControlRecoverQueue
  BY <1>32 DEF ControlRecoverQueue, RecoveredStatus, RecordStands
<1>33. CASE RepairRunningQueue
  BY <1>33 DEF RepairRunningQueue, Calm
<1>34. CASE AwaitUpdates
  BY <1>34 DEF AwaitUpdates, vars
<1>35. CASE UNCHANGED vars
  BY <1>35 DEF vars
<1> QED
  BY <1>1, <1>2, <1>3, <1>4, <1>5, <1>6, <1>7, <1>8, <1>9, <1>10, <1>11, <1>12,
     <1>13, <1>14, <1>15, <1>16, <1>17, <1>18, <1>19, <1>20, <1>21, <1>22, <1>23, <1>24,
     <1>25, <1>26, <1>27, <1>28, <1>29, <1>30, <1>31, <1>32, <1>33, <1>34, <1>35,
     <1>36, <1>37 DEF Next, Poll, Work, Reconcile

\* Row and record follow the worker.
LEMMA WorkerAgreesStep == Calm /\ CalmInv /\ [Next]_vars => WorkerAgrees'
<1> SUFFICES ASSUME Calm, CalmInv, [Next]_vars
             PROVE  WorkerAgrees'
  OBVIOUS
<1> USE QueueAssumption
        DEF CalmInv, TypeInv, TypeOK, WorkerHasTask, TurnIsAwaited, HandedIsGuarded, WorkerAgrees, OnlyStartReconciles, NoticeIsEarly, PollerHasRow,
            Terminal, NoRecord, Record, Updates, NoTask, durable, worker, backend, history, Running, Reconciling, RecordStands
<1>1. CASE Enqueue
  BY <1>1 DEF Enqueue, SetStatus, Acknowledge
<1>2. CASE DecideNotice
  BY <1>2 DEF DecideNotice, Acknowledge
<1>3. CASE NoticeSent
  BY <1>3 DEF NoticeSent, SetStatus, Acknowledge
<1>4. CASE NoticeFails
  BY <1>4 DEF NoticeFails, Calm
<1>5. CASE SyncBackend
  BY <1>5 DEF SyncBackend
<1>6. CASE PickTask
  <2>1. CASE workerPc' = "idle"
    BY <1>6, <2>1 DEF PickTask
  <2>2. CASE workerPc' = "prepare"
    <3>1. workerTask' \in Updates /\ status[workerTask'] = "pending"
      BY <1>6, <2>2 DEF PickTask, IsNextPending, Pending
    <3>2. handed[workerTask'] \in Nat /\ handed[workerTask'] <= 1 /\ handed[workerTask'] # 1
      BY <3>1 DEF HandedIsGuarded
    <3> QED
      BY <1>6, <2>2, <3>1, <3>2 DEF PickTask
  <2> QED
    BY <1>6, <2>1, <2>2 DEF PickTask
<1>7. CASE PrepareFails
  BY <1>7 DEF PrepareFails, Calm
<1>8. CASE SelectLane
  BY <1>8 DEF SelectLane, SetStatus, ReleaseTask, NoticeSettled, NoticeOpen, Calm
<1>37. CASE Requeue
  BY <1>37 DEF Requeue, SetStatus, ReleaseTask, Calm
<1>9. CASE InputsFail
  BY <1>9 DEF InputsFail
<1>10. CASE RecordTask
  BY <1>10 DEF RecordTask
<1>11. CASE RequestTurn
  BY <1>11, SMTT(30) DEF RequestTurn, SetStatus, MarkStage
<1>12. CASE DeliverAnswer
  BY <1>12 DEF DeliverAnswer, Calm
<1>13. CASE FinishTask
  BY <1>13 DEF FinishTask, SetStatus, ReleaseTask
<1>14. CASE ReportFailure
  BY <1>14 DEF ReportFailure, SetStatus, ReleaseTask, Calm
<1>15. CASE FinishDeferral
  BY <1>15 DEF FinishDeferral, ReleaseTask
<1>16. CASE TurnAcked
  BY <1>16 DEF TurnAcked, MarkStage
<1>36. CASE PlaceholderStored
  BY <1>36 DEF PlaceholderStored
<1>17. CASE TurnRejected
  BY <1>17 DEF TurnRejected
<1>18. CASE TurnCompletes
  BY <1>18 DEF TurnCompletes
<1>19. CASE \E v \in Updates : CodexWrites(v)
  BY <1>19 DEF CodexWrites
<1>20. CASE BackendExit
  BY <1>20 DEF BackendExit, Calm
<1>21. CASE HandoffStarts
  BY <1>21 DEF HandoffStarts
<1>22. CASE HandoffEnds
  BY <1>22 DEF HandoffEnds
<1>23. CASE HoldBegins
  BY <1>23 DEF HoldBegins
<1>24. CASE HoldEnds
  BY <1>24 DEF HoldEnds
<1>25. CASE RecoverySync
  BY <1>25 DEF RecoverySync
<1>26. CASE InspectRollout
  BY <1>26 DEF InspectRollout, EndReconcile, SetStatus
<1>27. CASE ReconcileAnswer
  BY <1>27 DEF ReconcileAnswer, Calm
<1>28. CASE ReconcileMark
  BY <1>28 DEF ReconcileMark, EndReconcile, SetStatus
<1>29. CASE ReconcileFail
  BY <1>29 DEF ReconcileFail, EndReconcile, SetStatus
<1>30. CASE Crash
  BY <1>30 DEF Crash
<1>31. CASE Restart
  BY <1>31 DEF Restart, RecoverInterruptedWork, RecoveredStatus, RecordStands
<1>32. CASE ControlRecoverQueue
  BY <1>32 DEF ControlRecoverQueue, RecoveredStatus, RecordStands
<1>33. CASE RepairRunningQueue
  BY <1>33 DEF RepairRunningQueue, Calm
<1>34. CASE AwaitUpdates
  BY <1>34 DEF AwaitUpdates, vars
<1>35. CASE UNCHANGED vars
  BY <1>35 DEF vars
<1> QED
  BY <1>1, <1>2, <1>3, <1>4, <1>5, <1>6, <1>7, <1>8, <1>9, <1>10, <1>11, <1>12,
     <1>13, <1>14, <1>15, <1>16, <1>17, <1>18, <1>19, <1>20, <1>21, <1>22, <1>23, <1>24,
     <1>25, <1>26, <1>27, <1>28, <1>29, <1>30, <1>31, <1>32, <1>33, <1>34, <1>35,
     <1>36, <1>37 DEF Next, Poll, Work, Reconcile

\* Reconciliation stays confined to the start.
LEMMA StartStep == Calm /\ CalmInv /\ [Next]_vars => OnlyStartReconciles'
<1> SUFFICES ASSUME Calm, CalmInv, [Next]_vars
             PROVE  OnlyStartReconciles'
  OBVIOUS
<1> USE QueueAssumption
        DEF CalmInv, TypeInv, TypeOK, WorkerHasTask, TurnIsAwaited, OnlyStartReconciles, WorkerAgrees, NoRecord, Record, NoTask, durable, worker, backend, recovery, poller, Running, Reconciling, RecordStands
<1>1. CASE Enqueue
  BY <1>1 DEF Enqueue, SetStatus, Acknowledge
<1>2. CASE DecideNotice
  BY <1>2 DEF DecideNotice, Acknowledge
<1>3. CASE NoticeSent
  BY <1>3 DEF NoticeSent, SetStatus, Acknowledge
<1>4. CASE NoticeFails
  BY <1>4 DEF NoticeFails, Calm
<1>5. CASE SyncBackend
  <2>1. alive
    BY <1>5 DEF SyncBackend
  <2>2. alive'
    BY <1>5, <2>1, Zenon DEF SyncBackend
  <2> QED
    BY <1>5, <2>2 DEF SyncBackend
<1>6. CASE PickTask
  BY <1>6 DEF PickTask, IsNextPending, Pending
<1>7. CASE PrepareFails
  BY <1>7 DEF PrepareFails, Calm
<1>8. CASE SelectLane
  BY <1>8 DEF SelectLane, SetStatus, ReleaseTask, NoticeSettled, NoticeOpen, Calm
<1>37. CASE Requeue
  BY <1>37 DEF Requeue, SetStatus, ReleaseTask, Calm
<1>9. CASE InputsFail
  BY <1>9 DEF InputsFail
<1>10. CASE RecordTask
  BY <1>10 DEF RecordTask
<1>11. CASE RequestTurn
  BY <1>11 DEF RequestTurn, SetStatus, MarkStage
<1>12. CASE DeliverAnswer
  BY <1>12 DEF DeliverAnswer, Calm
<1>13. CASE FinishTask
  BY <1>13 DEF FinishTask, SetStatus, ReleaseTask
<1>14. CASE ReportFailure
  BY <1>14 DEF ReportFailure, SetStatus, ReleaseTask, Calm
<1>15. CASE FinishDeferral
  BY <1>15 DEF FinishDeferral, ReleaseTask
<1>16. CASE TurnAcked
  BY <1>16 DEF TurnAcked, MarkStage
<1>36. CASE PlaceholderStored
  BY <1>36 DEF PlaceholderStored
<1>17. CASE TurnRejected
  BY <1>17 DEF TurnRejected
<1>18. CASE TurnCompletes
  BY <1>18 DEF TurnCompletes
<1>19. CASE \E v \in Updates : CodexWrites(v)
  BY <1>19 DEF CodexWrites
<1>20. CASE BackendExit
  BY <1>20 DEF BackendExit, Calm
<1>21. CASE HandoffStarts
  BY <1>21 DEF HandoffStarts
<1>22. CASE HandoffEnds
  BY <1>22 DEF HandoffEnds
<1>23. CASE HoldBegins
  BY <1>23 DEF HoldBegins
<1>24. CASE HoldEnds
  BY <1>24 DEF HoldEnds
<1>25. CASE RecoverySync
  BY <1>25 DEF RecoverySync
<1>26. CASE InspectRollout
  BY <1>26 DEF InspectRollout, EndReconcile, SetStatus
<1>27. CASE ReconcileAnswer
  BY <1>27 DEF ReconcileAnswer, Calm
<1>28. CASE ReconcileMark
  BY <1>28 DEF ReconcileMark, EndReconcile, SetStatus
<1>29. CASE ReconcileFail
  BY <1>29 DEF ReconcileFail, EndReconcile, SetStatus
<1>30. CASE Crash
  BY <1>30 DEF Crash
<1>31. CASE Restart
  BY <1>31 DEF Restart, RecoverInterruptedWork, RecoveredStatus, RecordStands
<1>32. CASE ControlRecoverQueue
  BY <1>32 DEF ControlRecoverQueue, RecoveredStatus, RecordStands
<1>33. CASE RepairRunningQueue
  BY <1>33 DEF RepairRunningQueue, Calm
<1>34. CASE AwaitUpdates
  BY <1>34 DEF AwaitUpdates, vars
<1>35. CASE UNCHANGED vars
  BY <1>35 DEF vars
<1> QED
  BY <1>1, <1>2, <1>3, <1>4, <1>5, <1>6, <1>7, <1>8, <1>9, <1>10, <1>11, <1>12,
     <1>13, <1>14, <1>15, <1>16, <1>17, <1>18, <1>19, <1>20, <1>21, <1>22, <1>23, <1>24,
     <1>25, <1>26, <1>27, <1>28, <1>29, <1>30, <1>31, <1>32, <1>33, <1>34, <1>35,
     <1>36, <1>37 DEF Next, Poll, Work, Reconcile

\* The notice of a task finds its row as the handler left it.
LEMMA NoticeStep == Calm /\ CalmInv /\ [Next]_vars => NoticeIsEarly'
<1> SUFFICES ASSUME Calm, CalmInv, [Next]_vars
             PROVE  NoticeIsEarly'
  OBVIOUS
<1> USE QueueAssumption
        DEF CalmInv, TypeInv, TypeOK, WorkerHasTask, TurnIsAwaited, OnlyStartReconciles, WorkerAgrees, NoticeIsEarly, PollerHasRow, Updates, NoTask,
            durable, worker, poller, Running, Reconciling
<1>1. CASE Enqueue
  BY <1>1 DEF Enqueue, SetStatus, Acknowledge
<1>2. CASE DecideNotice
  BY <1>2 DEF DecideNotice, Acknowledge
<1>3. CASE NoticeSent
  BY <1>3 DEF NoticeSent, SetStatus, Acknowledge
<1>4. CASE NoticeFails
  BY <1>4 DEF NoticeFails, Calm
<1>5. CASE SyncBackend
  BY <1>5 DEF SyncBackend
<1>6. CASE PickTask
  BY <1>6 DEF PickTask, IsNextPending, Pending
<1>7. CASE PrepareFails
  BY <1>7 DEF PrepareFails, Calm
<1>8. CASE SelectLane
  BY <1>8 DEF SelectLane, SetStatus, ReleaseTask, NoticeSettled, NoticeOpen, Calm
<1>37. CASE Requeue
  BY <1>37 DEF Requeue, SetStatus, ReleaseTask, Calm
<1>9. CASE InputsFail
  BY <1>9 DEF InputsFail
<1>10. CASE RecordTask
  BY <1>10 DEF RecordTask
<1>11. CASE RequestTurn
  BY <1>11, SMTT(30) DEF RequestTurn, SetStatus, MarkStage
<1>12. CASE DeliverAnswer
  BY <1>12 DEF DeliverAnswer, Calm
<1>13. CASE FinishTask
  BY <1>13 DEF FinishTask, SetStatus, ReleaseTask
<1>14. CASE ReportFailure
  BY <1>14 DEF ReportFailure, SetStatus, ReleaseTask, Calm
<1>15. CASE FinishDeferral
  BY <1>15 DEF FinishDeferral, ReleaseTask, SetStatus
<1>16. CASE TurnAcked
  <2>1. placing' = FALSE
    BY <1>16, Zenon DEF Calm, TurnAcked, CalmInv, NoticeIsEarly
  <2> QED
    BY <1>16, <2>1 DEF TurnAcked, MarkStage
<1>36. CASE PlaceholderStored
  BY <1>36 DEF PlaceholderStored
<1>17. CASE TurnRejected
  BY <1>17 DEF TurnRejected
<1>18. CASE TurnCompletes
  BY <1>18 DEF TurnCompletes
<1>19. CASE \E v \in Updates : CodexWrites(v)
  BY <1>19 DEF CodexWrites
<1>20. CASE BackendExit
  BY <1>20 DEF BackendExit, Calm
<1>21. CASE HandoffStarts
  BY <1>21 DEF HandoffStarts
<1>22. CASE HandoffEnds
  BY <1>22 DEF HandoffEnds
<1>23. CASE HoldBegins
  BY <1>23 DEF HoldBegins
<1>24. CASE HoldEnds
  BY <1>24 DEF HoldEnds
<1>25. CASE RecoverySync
  BY <1>25 DEF RecoverySync
<1>26. CASE InspectRollout
  BY <1>26 DEF InspectRollout, EndReconcile, SetStatus
<1>27. CASE ReconcileAnswer
  BY <1>27 DEF ReconcileAnswer, Calm
<1>28. CASE ReconcileMark
  BY <1>28 DEF ReconcileMark, EndReconcile, SetStatus
<1>29. CASE ReconcileFail
  BY <1>29 DEF ReconcileFail, EndReconcile, SetStatus
<1>30. CASE Crash
  BY <1>30 DEF Crash
<1>31. CASE Restart
  BY <1>31 DEF Restart, RecoverInterruptedWork, RecoveredStatus, RecordStands
<1>32. CASE ControlRecoverQueue
  BY <1>32 DEF ControlRecoverQueue, RecoveredStatus, RecordStands
<1>33. CASE RepairRunningQueue
  BY <1>33 DEF RepairRunningQueue, Calm
<1>34. CASE AwaitUpdates
  BY <1>34 DEF AwaitUpdates, vars
<1>35. CASE UNCHANGED vars
  BY <1>35 DEF vars
<1> QED
  BY <1>1, <1>2, <1>3, <1>4, <1>5, <1>6, <1>7, <1>8, <1>9, <1>10, <1>11, <1>12,
     <1>13, <1>14, <1>15, <1>16, <1>17, <1>18, <1>19, <1>20, <1>21, <1>22, <1>23, <1>24,
     <1>25, <1>26, <1>27, <1>28, <1>29, <1>30, <1>31, <1>32, <1>33, <1>34, <1>35,
     <1>36, <1>37 DEF Next, Poll, Work, Reconcile

\* The fresh daemon satisfies the invariant of the calm queue.
LEMMA CalmInit == Init => CalmInv
BY TypeInit
   DEF Init, CalmInv, HandedIsGuarded, WorkerAgrees, OnlyStartReconciles, NoticeIsEarly, NoTask, Updates

\* The invariant of the calm queue is inductive.
LEMMA CalmStep == Calm /\ CalmInv /\ [Next]_vars => CalmInv'
BY TypeStep, HandedStep, WorkerAgreesStep, StartStep, NoticeStep DEF CalmInv

\* When Telegram answers, the app-server stays up and no other process repairs the
\* queue, no crash or restart makes the bridge hand a message to Codex twice.
THEOREM NoReplay == Calm => (Spec => []HandedAtMostOnce)
<1>1. CalmInv => HandedAtMostOnce
  BY DEF CalmInv, HandedIsGuarded, HandedAtMostOnce
<1>2. SUFFICES ASSUME Calm PROVE Spec => []HandedAtMostOnce
  OBVIOUS
<1>3. CalmInv /\ [Next]_vars => CalmInv'
  BY <1>2, CalmStep
<1> QED
  BY <1>1, <1>3, CalmInit, PTL DEF Spec

\* Theorem of the calm queue's invariant, for the results that rest on it.
LEMMA CalmIsInvariant == Calm => (Spec => []CalmInv)
<1> SUFFICES ASSUME Calm PROVE Spec => []CalmInv
  OBVIOUS
<1>1. CalmInv /\ [Next]_vars => CalmInv'
  BY CalmStep
<1> QED
  BY <1>1, CalmInit, PTL DEF Spec

\* While Telegram answers, the app-server stays up and no other process writes the
\* database, the record always names the task Codex works on, at a stage that recovery
\* does not replay.
THEOREM TurnsAreRecorded == Calm => (Spec => []TurnIsRecorded)
<1> SUFFICES ASSUME Calm PROVE Spec => []TurnIsRecorded
  OBVIOUS
<1>1. CalmInv => TurnIsRecorded
  BY DEF CalmInv, TypeInv, TurnIsAwaited, WorkerAgrees, TurnIsRecorded, NoRecord, Updates, NoTask
<1> QED
  BY <1>1, CalmIsInvariant, PTL

----------------------------------------------------------------------------
(* The rows of the calm queue.                                             *)

\* What a step may make of a row: a handler inserts the update it is at, the worker
\* takes the row it holds, and only a row in processing is put back or settled.
RowMoves(u) ==
  \/ status[u] = "absent" /\ status'[u] = "pending" /\ Enqueue /\ u = offset + 1
  \/ status[u] = "pending" /\ status'[u] = "processing" /\ SelectLane /\ u = workerTask
  \/ status[u] = "processing" /\ status'[u] \in {"pending"} \cup Terminal

\* No step of the calm queue makes anything else of a row.
LEMMA RowMovesStep ==
  Calm /\ CalmInv /\ [Next]_vars =>
    \A u \in Updates : status'[u] = status[u] \/ RowMoves(u)
<1> SUFFICES ASSUME Calm, CalmInv, [Next]_vars, NEW u \in Updates
             PROVE  status'[u] = status[u] \/ RowMoves(u)
  OBVIOUS
<1> USE QueueAssumption
        DEF CalmInv, TypeInv, TypeOK, RowMoves, WorkerAgrees, OnlyStartReconciles,
            NoticeIsEarly, WorkerHasTask, PollerHasRow, RecordStands, Terminal, Updates, durable, Running,
            Reconciling, SetStatus
<1>1. CASE Enqueue
  BY <1>1 DEF Enqueue, Acknowledge
<1>2. CASE DecideNotice \/ NoticeFails \/ SyncBackend \/ PickTask \/ PrepareFails
           \/ InputsFail \/ RecordTask \/ DeliverAnswer
  BY <1>2 DEF DecideNotice, NoticeFails, SyncBackend, PickTask, PrepareFails, InputsFail,
              RecordTask, DeliverAnswer
<1>3. CASE NoticeSent
  BY <1>3 DEF NoticeSent
<1>4. CASE SelectLane
  BY <1>4 DEF SelectLane
<1>5. CASE Requeue
  BY <1>5 DEF Requeue, Calm
<1>6. CASE RequestTurn
  BY <1>6 DEF RequestTurn
<1>7. CASE FinishTask
  BY <1>7 DEF FinishTask
<1>8. CASE ReportFailure
  BY <1>8 DEF ReportFailure
<1>9. CASE FinishDeferral
  BY <1>9 DEF FinishDeferral
<1>10. CASE TurnAcked \/ TurnRejected \/ TurnCompletes \/ (\E v \in Updates : CodexWrites(v))
            \/ BackendExit \/ HandoffStarts \/ HandoffEnds \/ HoldBegins \/ HoldEnds
  BY <1>10 DEF TurnAcked, TurnRejected, TurnCompletes, CodexWrites, BackendExit,
               HandoffStarts, HandoffEnds, HoldBegins, HoldEnds
<1>11. CASE PlaceholderStored
  BY <1>11 DEF PlaceholderStored
<1>12. CASE RecoverySync \/ ReconcileAnswer
  BY <1>12 DEF RecoverySync, ReconcileAnswer
<1>13. CASE InspectRollout \/ ReconcileMark \/ ReconcileFail
  <2>1. recon.task \in Updates /\ status[recon.task] = "processing"
    BY <1>13 DEF InspectRollout, ReconcileMark, ReconcileFail, Record, NoRecord
  <2>2. status' = status \/ \E s \in {"pending"} \cup Terminal : status' = [status EXCEPT ![recon.task] = s]
    BY <1>13 DEF InspectRollout, ReconcileMark, ReconcileFail, EndReconcile
  <2> QED
    BY <2>1, <2>2
<1>14. CASE Crash \/ AwaitUpdates \/ UNCHANGED vars
  BY <1>14 DEF Crash, AwaitUpdates, vars
<1>15. CASE Restart
  BY <1>15 DEF Restart, RecoverInterruptedWork, RecoveredStatus
<1>16. CASE ControlRecoverQueue
  BY <1>16 DEF ControlRecoverQueue, RecoveredStatus
<1>17. CASE RepairRunningQueue
  BY <1>17 DEF RepairRunningQueue, Calm
<1> QED
  BY <1>1, <1>2, <1>3, <1>4, <1>5, <1>6, <1>7, <1>8, <1>9, <1>10, <1>11, <1>12, <1>13,
     <1>14, <1>15, <1>16, <1>17 DEF Next, Poll, Work, Reconcile

\* The worker or the start-up recovery has every row in processing in hand.
RowsAreHeld ==
  daemon # "down" =>
    \A u \in Updates : status[u] = "processing" => u \in {workerTask, recon.task}

\* Who lets go of a task has settled its row or put it back.
LEMMA RowsAreHeldStep == Calm /\ CalmInv /\ RowsAreHeld /\ [Next]_vars => RowsAreHeld'
<1> SUFFICES ASSUME Calm, CalmInv, RowsAreHeld, [Next]_vars,
                    daemon' # "down", NEW u \in Updates, status'[u] = "processing"
             PROVE  u \in {workerTask', recon'.task}
  BY DEF RowsAreHeld
<1>1. status[u] = "processing" \/ (SelectLane /\ u = workerTask)
  BY RowMovesStep DEF RowMoves, Terminal
<1> USE QueueAssumption
        DEF CalmInv, TypeInv, TypeOK, WorkerAgrees, OnlyStartReconciles, NoticeIsEarly,
            WorkerHasTask, RecordStands, Terminal, Updates, NoTask, durable, worker, recovery,
            Running, Reconciling, SetStatus, RowsAreHeld
<1>2. CASE SelectLane
  BY <1>1, <1>2 DEF SelectLane
<1>3. CASE Poll \/ SyncBackend \/ PrepareFails \/ InputsFail \/ RecordTask \/ RequestTurn \/ DeliverAnswer
  BY <1>1, <1>3 DEF Poll, Enqueue, DecideNotice, NoticeSent, NoticeFails, SelectLane, SyncBackend,
                    PrepareFails, InputsFail, RecordTask, RequestTurn, DeliverAnswer
<1>4. CASE PickTask
  BY <1>1, <1>4 DEF PickTask, SelectLane
<1>5. CASE Requeue
  BY <1>1, <1>5 DEF Requeue, SelectLane, ReleaseTask, Calm
<1>6. CASE FinishTask
  BY <1>1, <1>6 DEF FinishTask, SelectLane, ReleaseTask
<1>7. CASE ReportFailure
  BY <1>1, <1>7 DEF ReportFailure, SelectLane, ReleaseTask, Calm
<1>8. CASE FinishDeferral
  <2>1. daemon = "up" /\ status[workerTask] = "pending" /\ workerTask \in Updates
    BY <1>8 DEF FinishDeferral
  <2> QED
    BY <1>1, <1>8, <2>1 DEF FinishDeferral, SelectLane, ReleaseTask
<1>9. CASE TurnAcked \/ TurnRejected \/ TurnCompletes \/ (\E v \in Updates : CodexWrites(v))
            \/ BackendExit \/ HandoffStarts \/ HandoffEnds \/ HoldBegins \/ HoldEnds \/ PlaceholderStored
  BY <1>1, <1>9 DEF TurnAcked, TurnRejected, TurnCompletes, CodexWrites, BackendExit, SelectLane,
                    HandoffStarts, HandoffEnds, HoldBegins, HoldEnds, PlaceholderStored, Calm
<1>10. CASE RecoverySync \/ ReconcileAnswer
  BY <1>1, <1>10 DEF RecoverySync, ReconcileAnswer, SelectLane
<1>11. CASE InspectRollout \/ ReconcileMark \/ ReconcileFail
  <2>1. CASE UNCHANGED <<status, recon, daemon, workerTask>>
    BY <1>1, <1>11, <2>1 DEF InspectRollout, ReconcileMark, ReconcileFail, SelectLane
  <2>2. CASE \E s \in {"pending"} \cup Terminal : EndReconcile(s)
    <3>1. status'[recon.task] # "processing"
      BY <2>2, <1>11 DEF EndReconcile, Record, NoRecord, InspectRollout, ReconcileMark, ReconcileFail
    <3> QED
      BY <1>1, <1>11, <3>1 DEF InspectRollout, ReconcileMark, ReconcileFail, SelectLane
  <2> QED
    BY <1>11, <2>1, <2>2 DEF InspectRollout, ReconcileMark, ReconcileFail
<1>12. CASE Crash \/ ControlRecoverQueue \/ AwaitUpdates \/ UNCHANGED vars
  BY <1>1, <1>12 DEF Crash, ControlRecoverQueue, AwaitUpdates, SelectLane, vars
<1>13. CASE Restart
  <2>1. u = record.task /\ status[u] = "processing"
    BY <1>1, <1>13 DEF Restart, RecoverInterruptedWork, RecoveredStatus
  <2>2. RecordStands
    BY <2>1 DEF NoRecord
  <2> QED
    BY <1>13, <2>1, <2>2 DEF Restart, RecoverInterruptedWork
<1>14. CASE RepairRunningQueue
  BY <1>14 DEF RepairRunningQueue, Calm
<1> QED
  BY <1>2, <1>3, <1>4, <1>5, <1>6, <1>7, <1>8, <1>9, <1>10, <1>11, <1>12,
     <1>13, <1>14 DEF Next, Work, Reconcile

\* No row of the calm queue stays in processing with nobody at it: what a crash leaves
\* there is taken up by the next start, and no step of the worker forgets one.
THEOREM NoRowIsOrphaned == Calm => (Spec => []NoOrphanedRow)
<1> SUFFICES ASSUME Calm PROVE Spec => []NoOrphanedRow
  OBVIOUS
<1>1. Init => RowsAreHeld
  BY DEF Init, RowsAreHeld
<1>2. CalmInv /\ RowsAreHeld /\ [Next]_vars => RowsAreHeld'
  BY RowsAreHeldStep
<1>3. RowsAreHeld => NoOrphanedRow
  BY DEF RowsAreHeld, NoOrphanedRow
<1> QED
  BY <1>1, <1>2, <1>3, CalmIsInvariant, PTL DEF Spec

=============================================================================
