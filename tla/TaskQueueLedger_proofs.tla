----------------------- MODULE TaskQueueLedger_proofs -----------------------
(***************************************************************************)
(* The calm task queue implements TaskLedger, for every number of updates  *)
(* and of crashes, holds and restarts.  Each step of the queue is a step   *)
(* of the ledger or leaves it as it is; that a task is handed in order     *)
(* needs to be known of the rows older than the one the worker holds.      *)
(***************************************************************************)
EXTENDS TaskQueueLedger, TaskQueue_proofs

\* Rows are inserted in the order of the updates, none is left out, and an update that
\* is not acknowledged may have its row already.
RowsInOrder ==
  \A u \in Updates : /\ status[u] # "absent" => u <= offset + 1
                     /\ u <= offset => status[u] # "absent"

\* Every row older than the one the worker holds is settled.
OlderAreSettled ==
  workerPc \notin {"idle", "synced"} =>
    \A u \in Updates : u < workerTask => status[u] \in Terminal

\* A recovery that does not run has no record in hand.
ReconIdle == reconPc = "none" => recon = NoRecord

LedgerInv == CalmInv /\ RowsAreHeld /\ ReconIdle /\ RowsInOrder /\ OlderAreSettled

----------------------------------------------------------------------------
\* The ledger's entry of u is as it was.
Unmoved(u) ==
  /\ handed'[u] = handed[u]
  /\ status'[u] = "absent" <=> status[u] = "absent"
  /\ status'[u] \in Terminal <=> status[u] \in Terminal

\* An entry, by the row and by whether the task was handed; and the same of the entry
\* after a step.
LEMMA EntryOfRow ==
  ASSUME NEW u
  PROVE  /\ status[u] = "absent" => LedgerEntry(u) = "unseen"
         /\ status[u] \in Terminal => LedgerEntry(u) = "settled"
         /\ status[u] \notin Terminal \cup {"absent"} =>
              LedgerEntry(u) = IF handed[u] > 0 THEN "handed" ELSE "waiting"
BY Zenon DEF LedgerEntry, Terminal

LEMMA EntryOfRowAfter ==
  ASSUME NEW u
  PROVE  /\ status'[u] = "absent" => LedgerEntry(u)' = "unseen"
         /\ status'[u] \in Terminal => LedgerEntry(u)' = "settled"
         /\ status'[u] \notin Terminal \cup {"absent"} =>
              LedgerEntry(u)' = IF handed'[u] > 0 THEN "handed" ELSE "waiting"
BY Zenon DEF LedgerEntry, Terminal

\* An entry depends on the row only as far as it is absent or settled.
LEMMA UnmovedEntry ==
  ASSUME NEW u \in Updates, Unmoved(u)
  PROVE  LedgerEntry(u)' = LedgerEntry(u)
BY EntryOfRow, EntryOfRowAfter DEF Unmoved, Terminal

\* Rows and offset keep their order.
LEMMA RowsInOrderStep == Calm /\ LedgerInv /\ [Next]_vars => RowsInOrder'
<1> SUFFICES ASSUME Calm, LedgerInv, [Next]_vars
             PROVE  RowsInOrder'
  OBVIOUS
<1>1. CalmInv /\ TypeInv /\ RowsInOrder
  BY DEF LedgerInv, CalmInv
<1>2. offset \in Nat /\ \A u \in Updates : u \in Nat
  BY <1>1, QueueAssumption DEF TypeInv, TypeOK, Updates
<1>3. CASE Enqueue
  BY <1>1, <1>3, QueueAssumption
     DEF Enqueue, SetStatus, Acknowledge, RowsInOrder, RowStatus, TypeInv, TypeOK, Updates
<1>4. CASE DecideNotice \/ NoticeSent
  <2>1. offset' \in {offset, offset + 1} /\ pollPc # "fetch"
    BY <1>4 DEF DecideNotice, NoticeSent, Acknowledge, durable
  <2>2. status[offset + 1] # "absent" /\ offset + 1 \in Updates
    BY <1>1, <2>1, QueueAssumption DEF PollerHasRow, TypeInv, TypeOK, Updates
  <2>3. \A u \in Updates : status'[u] = "absent" <=> status[u] = "absent"
    BY <1>1, <1>4, <2>2 DEF DecideNotice, NoticeSent, SetStatus, TypeInv, TypeOK
  <2>4. CASE offset' = offset
    BY <1>1, <2>3, <2>4 DEF RowsInOrder
  <2>5. CASE offset' = offset + 1
    <3>1. \A u \in Updates : u <= offset + 1 => status[u] # "absent"
      BY <1>1, <1>2, <2>2 DEF RowsInOrder
    <3>2. \A u \in Updates : status[u] # "absent" => u <= (offset + 1) + 1
      BY <1>1, <1>2 DEF RowsInOrder
    <3> QED
      BY <2>3, <2>5, <3>1, <3>2 DEF RowsInOrder
  <2> QED
    BY <2>1, <2>4, <2>5
<1>5. CASE ~Enqueue /\ offset' = offset
  <2>1. \A u \in Updates : status'[u] # "absent" => status[u] # "absent"
    BY <1>1, <1>5, RowMovesStep DEF RowMoves
  <2>2. \A u \in Updates : status[u] # "absent" => status'[u] # "absent"
    BY <1>1, RowsStay
  <2> QED
    BY <1>1, <1>5, <2>1, <2>2 DEF RowsInOrder
<1>6. Enqueue \/ DecideNotice \/ NoticeSent \/ offset' = offset
  BY DEF Next, Poll, Work, Reconcile, NoticeFails, SyncBackend, PickTask, PrepareFails, SelectLane,
         Requeue, InputsFail, RecordTask, RequestTurn, DeliverAnswer, FinishTask, ReportFailure,
         FinishDeferral, TurnAcked, PlaceholderStored, TurnRejected, TurnCompletes, CodexWrites,
         BackendExit, HandoffStarts, HandoffEnds, HoldBegins, HoldEnds, RecoverySync,
         InspectRollout, ReconcileAnswer, ReconcileMark, ReconcileFail, Crash, Restart,
         ControlRecoverQueue, RepairRunningQueue, AwaitUpdates, vars, durable
<1> QED
  BY <1>3, <1>4, <1>5, <1>6

\* The record is dropped where the recovery ends.
LEMMA ReconIdleStep == CalmInv /\ ReconIdle /\ [Next]_vars => ReconIdle'
BY DEF ReconIdle, CalmInv, OnlyStartReconciles, RecordStands, Next, Poll, Work, Reconcile, Enqueue, DecideNotice, NoticeSent,
       NoticeFails, SyncBackend, PickTask, PrepareFails, SelectLane, Requeue, InputsFail, RecordTask,
       RequestTurn, DeliverAnswer, FinishTask, ReportFailure, FinishDeferral, TurnAcked,
       PlaceholderStored, TurnRejected, TurnCompletes, CodexWrites, BackendExit, HandoffStarts,
       HandoffEnds, HoldBegins, HoldEnds, RecoverySync, InspectRollout, ReconcileAnswer,
       ReconcileMark, ReconcileFail, EndReconcile, Crash, Restart, RecoverInterruptedWork,
       ControlRecoverQueue, RepairRunningQueue, AwaitUpdates, vars, recovery

\* A settled row of the calm queue stays settled.
LEMMA SettledStays ==
  Calm /\ CalmInv /\ [Next]_vars =>
    \A u \in Updates : status[u] \in Terminal => status'[u] = status[u]
BY RowMovesStep DEF RowMoves, Terminal

\* The worker picks the oldest pending row when no row is in processing.
LEMMA OlderAreSettledStep == Calm /\ LedgerInv /\ [Next]_vars => OlderAreSettled'
<1> SUFFICES ASSUME Calm, LedgerInv, [Next]_vars
             PROVE  OlderAreSettled'
  OBVIOUS
<1> USE QueueAssumption DEF LedgerInv, CalmInv, TypeInv, TypeOK, Updates
<1>1. CASE PickTask
  <2> SUFFICES ASSUME workerPc' = "prepare", NEW u \in Updates, u < workerTask'
               PROVE  status'[u] \in Terminal
    BY <1>1 DEF PickTask, OlderAreSettled
  <2>1. workerTask' \in Updates /\ workerTask' \in Pending /\ \A v \in Pending : workerTask' <= v
    BY <1>1 DEF PickTask, IsNextPending
  <2>2. status[u] # "pending"
    BY <2>1 DEF Pending
  <2>3. status[u] # "processing"
    <3>1. daemon = "up" /\ workerPc = "synced"
      BY <1>1 DEF PickTask, Running
    <3>2. workerTask = NoTask /\ recon.task = NoTask
      <4>1. workerTask = NoTask /\ reconPc = "none"
        BY <3>1 DEF WorkerAgrees, OnlyStartReconciles
      <4>2. recon = NoRecord
        BY <4>1, <3>1 DEF ReconIdle
      <4> QED
        BY <4>1, <4>2 DEF NoRecord
    <3> QED
      BY <3>1, <3>2 DEF RowsAreHeld, NoTask
  <2>4. status[u] # "absent"
    BY <2>1 DEF RowsInOrder, Pending
  <2> QED
    BY <1>1, <2>2, <2>3, <2>4 DEF PickTask, durable, RowStatus
<1>2. CASE workerPc' \in {"idle", "synced"}
  BY <1>2 DEF OlderAreSettled
<1>3. CASE workerPc \notin {"idle", "synced"} /\ workerTask' = workerTask
  BY <1>3, SettledStays DEF OlderAreSettled
<1>4. PickTask \/ workerPc' \in {"idle", "synced"} \/ (workerPc \notin {"idle", "synced"} /\ workerTask' = workerTask)
  BY DEF Next, Poll, Work, Reconcile, Enqueue, DecideNotice, NoticeSent, NoticeFails, SyncBackend,
         PrepareFails, SelectLane, Requeue, InputsFail, RecordTask, RequestTurn, DeliverAnswer,
         FinishTask, ReportFailure, FinishDeferral, TurnAcked, PlaceholderStored, TurnRejected,
         TurnCompletes, CodexWrites, BackendExit, HandoffStarts, HandoffEnds, HoldBegins,
         HoldEnds, RecoverySync, InspectRollout, ReconcileAnswer, ReconcileMark, ReconcileFail,
         Crash, Restart, ControlRecoverQueue, RepairRunningQueue, AwaitUpdates, ReleaseTask,
         TurnIsAwaited, vars, worker
<1> QED
  BY <1>1, <1>2, <1>3, <1>4

\* The invariant of the refinement is inductive.
LEMMA LedgerInvStep == Calm /\ LedgerInv /\ [Next]_vars => LedgerInv'
BY CalmStep, RowsAreHeldStep, ReconIdleStep, RowsInOrderStep, OlderAreSettledStep DEF LedgerInv

LEMMA LedgerInvInit == Init => LedgerInv
<1> SUFFICES ASSUME Init PROVE LedgerInv
  OBVIOUS
<1>1. CalmInv
  BY CalmInit
<1>2. RowsAreHeld /\ ReconIdle /\ RowsInOrder /\ OlderAreSettled
  BY QueueAssumption DEF Init, RowsAreHeld, ReconIdle, RowsInOrder, OlderAreSettled, Updates
<1> QED
  BY <1>1, <1>2 DEF LedgerInv

----------------------------------------------------------------------------
\* The fresh queue is the empty ledger.
LEMMA LedgerInit == Init => Ledger!Init
BY DEF Init, LedgerEntry, Terminal, Ledger!Init, Ledger!Updates, Updates

\* A step that moves no entry leaves the ledger as it is.
LEMMA LedgerStays ==
  ASSUME TypeInv, TypeInv', \A u \in Updates : Unmoved(u)
  PROVE  UNCHANGED <<[u \in Updates |-> LedgerEntry(u)], handed>>
<1>1. \A u \in Updates : LedgerEntry(u)' = LedgerEntry(u)
  BY UnmovedEntry
<1>2. [u \in Updates |-> LedgerEntry(u)]' = [u \in Updates |-> LedgerEntry(u)]
  BY <1>1
<1>3. handed' = handed
  BY DEF Unmoved, TypeInv, TypeOK
<1> QED
  BY <1>2, <1>3

\* A step that settles one row and moves no other is a Settle of the ledger.
LEMMA LedgerSettles ==
  ASSUME TypeInv, TypeInv', NEW t \in Updates,
         status[t] \notin Terminal, status[t] # "absent", status'[t] \in Terminal, handed'[t] = handed[t],
         \A u \in Updates \ {t} : Unmoved(u)
  PROVE  Ledger!Settle(t)
<1>1. \A u \in Updates \ {t} : LedgerEntry(u)' = LedgerEntry(u)
  BY UnmovedEntry
<1>2. LedgerEntry(t)' = "settled" /\ LedgerEntry(t) \in {"waiting", "handed"}
  BY EntryOfRow, EntryOfRowAfter DEF Terminal
<1>3. handed' = handed
  BY DEF Unmoved, TypeInv, TypeOK
<1> QED
  BY <1>1, <1>2, <1>3 DEF Ledger!Settle

\* A row that is inserted is an Accept: the older updates have theirs.
LEMMA LedgerAccepts ==
  ASSUME Calm, LedgerInv, LedgerInv', Enqueue, NEW t \in Updates, t = offset + 1,
         status[t] = "absent"
  PROVE  Ledger!Accept(t)
<1>1. TypeInv /\ HandedIsGuarded /\ RowsInOrder /\ TypeInv'
  BY DEF LedgerInv, CalmInv
<1>2. status' = [status EXCEPT ![t] = "pending"] /\ handed' = handed
  BY DEF Enqueue, SetStatus, history
<1>3. handed[t] = 0
  BY <1>1 DEF HandedIsGuarded, Terminal, TypeInv, TypeOK
<1>4. ASSUME NEW u \in Updates \ {t} PROVE LedgerEntry(u)' = LedgerEntry(u)
  <2>1. status'[u] = status[u] /\ handed'[u] = handed[u]
    BY <1>1, <1>2 DEF TypeInv, TypeOK
  <2> QED
    BY <2>1, UnmovedEntry DEF Unmoved
<1>5. LedgerEntry(t) = "unseen" /\ LedgerEntry(t)' = "waiting"
  <2>1. status'[t] = "pending" /\ handed'[t] = 0
    BY <1>1, <1>2, <1>3 DEF TypeInv, TypeOK
  <2> QED
    BY <2>1, EntryOfRow, EntryOfRowAfter DEF Terminal
<1>6. \A u \in Updates : u < t => LedgerEntry(u) # "unseen"
  <2>1. \A u \in Updates : u < t => status[u] # "absent"
    BY <1>1 DEF RowsInOrder, TypeInv, TypeOK, Updates
  <2> QED
    BY <1>1, <2>1, EntryOfRow DEF TypeInv, TypeOK, RowStatus, Terminal
<1> QED
  BY <1>2, <1>4, <1>5, <1>6 DEF Ledger!Accept, Ledger!Updates, Updates

\* A turn/start that is sent is a Hand: the task was not handed, the older are settled.
LEMMA LedgerHands ==
  ASSUME Calm, LedgerInv, LedgerInv', RequestTurn, handed' # handed, NEW t \in Updates, t = workerTask
  PROVE  Ledger!Hand(t)
<1>1. TypeInv /\ WorkerAgrees /\ OlderAreSettled
  BY DEF LedgerInv, CalmInv
<1>2. t \in Updates /\ workerPc = "recorded"
  BY <1>1 DEF RequestTurn, TypeInv, WorkerHasTask
<1>3. handed[t] = 0 /\ status[t] = "processing"
  BY <1>1, <1>2 DEF WorkerAgrees
<1>4. status' = status /\ handed' = [handed EXCEPT ![t] = 1]
  BY <1>2, <1>3 DEF RequestTurn, history
<1>5. status'[t] = "processing" /\ handed'[t] = 1
        /\ \A u \in Updates \ {t} : status'[u] = status[u] /\ handed'[u] = handed[u]
  BY <1>1, <1>2, <1>3, <1>4 DEF TypeInv, TypeOK
<1>6. ASSUME NEW u \in Updates \ {t} PROVE LedgerEntry(u)' = LedgerEntry(u)
  BY <1>5, UnmovedEntry DEF Unmoved
<1>7. LedgerEntry(t) = "waiting" /\ LedgerEntry(t)' = "handed"
  BY <1>3, <1>5, EntryOfRow, EntryOfRowAfter DEF Terminal
<1>8. \A u \in Updates : u < t => LedgerEntry(u) = "settled"
  BY <1>1, <1>2, EntryOfRow DEF OlderAreSettled
<1> QED
  BY <1>2, <1>3, <1>4, <1>6, <1>7, <1>8 DEF Ledger!Hand, Ledger!Updates, Updates

\* Every step of the calm queue is a step of the ledger or none.
LEMMA LedgerStep ==
  Calm /\ LedgerInv /\ LedgerInv' /\ [Next]_vars
    => [Ledger!Next]_<<[u \in Updates |-> LedgerEntry(u)], handed>>
<1> SUFFICES ASSUME Calm, LedgerInv, LedgerInv', [Next]_vars
             PROVE  Ledger!Next \/ UNCHANGED <<[u \in Updates |-> LedgerEntry(u)], handed>>
  OBVIOUS
<1> USE QueueAssumption DEF LedgerInv, CalmInv, TypeInv, TypeOK, Updates
<1>1. CASE RequestTurn /\ handed' # handed
  <2>1. workerTask \in Updates
    BY <1>1 DEF RequestTurn, WorkerHasTask
  <2> QED
    BY <1>1, <2>1, LedgerHands DEF Ledger!Next, Ledger!Updates
<1>2. CASE Enqueue /\ status[offset + 1] = "absent"
  <2>1. offset + 1 \in Updates
    BY <1>2 DEF Enqueue
  <2> QED
    BY <1>2, <2>1, LedgerAccepts DEF Ledger!Next, Ledger!Updates
<1>3. ASSUME NEW t \in Updates, status[t] = "processing", status'[t] \in Terminal, handed' = handed,
             \A u \in Updates \ {t} : status'[u] \in Terminal => status[u] \in Terminal,
             \A u \in Updates \ {t} : status'[u] # "absent" => status[u] # "absent"
      PROVE  Ledger!Next
  <2>1. \A u \in Updates \ {t} : Unmoved(u)
    BY <1>3, RowMovesStep DEF RowMoves, Terminal, Unmoved
  <2>2. Ledger!Settle(t)
    BY <1>3, <2>1, LedgerSettles DEF Terminal
  <2> QED
    BY <2>2 DEF Ledger!Next, Ledger!Updates
<1>4. ASSUME handed' = handed, \A u \in Updates : status'[u] \in Terminal => status[u] \in Terminal,
             \A u \in Updates : status'[u] # "absent" => status[u] # "absent"
      PROVE  UNCHANGED <<[u \in Updates |-> LedgerEntry(u)], handed>>
  <2>1. \A u \in Updates : Unmoved(u)
    BY <1>4, RowMovesStep DEF RowMoves, Terminal, Unmoved
  <2> QED
    BY <2>1, LedgerStays
<1>5. CASE FinishTask \/ ReportFailure
  <2>1. workerTask \in Updates /\ status[workerTask] = "processing"
    BY <1>5 DEF FinishTask, ReportFailure, WorkerHasTask, WorkerAgrees
  <2>2. handed' = handed /\ \E s \in Terminal : status' = [status EXCEPT ![workerTask] = s]
    BY <1>5 DEF FinishTask, ReportFailure, SetStatus, Calm, Terminal, history
  <2> QED
    BY <1>3, <2>1, <2>2
<1>6. CASE (ReconcileMark \/ ReconcileFail \/ InspectRollout) /\ status' # status
  <2>1. recon.task \in Updates /\ status[recon.task] = "processing" /\ handed' = handed
    BY <1>6 DEF ReconcileMark, ReconcileFail, InspectRollout, OnlyStartReconciles, RecordStands, Record,
                NoRecord, Reconciling, Running, history
  <2>2. PICK s \in {"pending"} \cup Terminal : status' = [status EXCEPT ![recon.task] = s]
    BY <1>6 DEF ReconcileMark, ReconcileFail, InspectRollout, EndReconcile, SetStatus, Terminal
  <2>3. CASE s \in Terminal
    BY <1>3, <2>1, <2>2, <2>3
  <2>4. CASE s = "pending"
    BY <1>4, <2>1, <2>2, <2>4 DEF Terminal
  <2> QED
    BY <2>3, <2>4
<1>7. CASE ControlRecoverQueue
  <2>1. CASE RecordStands /\ record.stage # "preparing"
    <3>1. record.task \in Updates /\ status[record.task] = "processing" /\ handed' = handed
      BY <1>7, <2>1 DEF ControlRecoverQueue, RecordStands, Record, NoRecord, history
    <3> QED
      BY <1>3, <1>7, <2>1, <3>1 DEF ControlRecoverQueue, RecoveredStatus, Terminal
  <2>2. CASE ~(RecordStands /\ record.stage # "preparing")
    <3>1. \A u \in Updates : status'[u] = status[u] \/ (status[u] # "absent" /\ status'[u] = "pending")
      BY <1>7, <2>2 DEF ControlRecoverQueue, RecoveredStatus, RecordStands
    <3> QED
      BY <1>4, <1>7, <3>1 DEF ControlRecoverQueue, Terminal, history
  <2> QED
    BY <2>1, <2>2
<1>8. CASE handed' = handed /\ status' = status
  BY <1>4, <1>8
<1>9. CASE Enqueue /\ status[offset + 1] # "absent"
  BY <1>4, <1>9 DEF Enqueue, history
<1>10. CASE RequestTurn /\ handed' = handed
  <2>1. workerTask \in Updates /\ status[workerTask] = "processing"
    BY <1>10 DEF RequestTurn, WorkerHasTask, WorkerAgrees
  <2> QED
    BY <1>4, <1>10, <2>1 DEF RequestTurn, SetStatus, Terminal
<1>11. CASE SelectLane \/ Requeue \/ FinishDeferral
  <2>1. workerTask \in Updates /\ status[workerTask] = "pending" /\ handed' = handed
    BY <1>11 DEF SelectLane, Requeue, FinishDeferral, WorkerHasTask, WorkerAgrees, history
  <2>2. status' = status \/ \E s \in {"pending", "processing"} : status' = [status EXCEPT ![workerTask] = s]
    BY <1>11 DEF SelectLane, Requeue, FinishDeferral, SetStatus, Calm
  <2> QED
    BY <1>4, <2>1, <2>2 DEF Terminal
<1>12. CASE NoticeSent
  <2>1. offset + 1 \in Updates /\ status[offset + 1] = "pending"
    <3>1. pollPc # "fetch"
      BY <1>12 DEF NoticeSent
    <3>2. status[offset + 1] = "pending"
      BY <3>1, Zenon DEF NoticeIsEarly
    <3>3. offset + 1 \in Updates
      BY <3>1 DEF PollerHasRow
    <3> QED
      BY <3>2, <3>3
  <2>2. handed' = handed /\ \A u \in Updates : status'[u] = status[u]
    BY <1>12, <2>1 DEF NoticeSent, SetStatus, history
  <2> QED
    BY <1>4, <2>2
<1>13. CASE Restart
  BY <1>4, <1>13 DEF Restart, RecoverInterruptedWork, RecoveredStatus, Terminal, history
<1>14. \/ Enqueue \/ NoticeSent \/ SelectLane \/ Requeue \/ RequestTurn \/ FinishTask \/ ReportFailure
       \/ FinishDeferral \/ ControlRecoverQueue \/ Restart
       \/ (ReconcileMark \/ ReconcileFail \/ InspectRollout) /\ status' # status
       \/ handed' = handed /\ status' = status
  BY DEF Next, Poll, Work, Reconcile, DecideNotice, NoticeFails, SyncBackend, PickTask, PrepareFails,
         InputsFail, RecordTask, DeliverAnswer, TurnAcked, PlaceholderStored, NoticeIsEarly, TurnRejected, TurnCompletes,
         CodexWrites, BackendExit, HandoffStarts, HandoffEnds, HoldBegins, HoldEnds, RecoverySync,
         InspectRollout, ReconcileAnswer, ReconcileMark, ReconcileFail, EndReconcile, Crash,
         RepairRunningQueue, Calm, AwaitUpdates, vars, durable, history
<1> QED
  BY <1>1, <1>2, <1>5, <1>6, <1>7, <1>8, <1>9, <1>10, <1>11, <1>12, <1>13, <1>14

\* While Telegram answers, the app-server stays up and no other process writes the
\* database, the queue implements the ledger: whatever crashes and restarts there are,
\* messages are accepted in order, handed to Codex oldest first and at most once, and
\* what is settled stays so.
THEOREM QueueImplementsLedger == Calm => (Spec => LedgerSpec)
<1> SUFFICES ASSUME Calm PROVE Spec => LedgerSpec
  OBVIOUS
<1>1. LedgerInv /\ [Next]_vars => LedgerInv'
  BY LedgerInvStep
<1>2. LedgerInv /\ LedgerInv' /\ [Next]_vars
        => [Ledger!Next]_<<[u \in Updates |-> LedgerEntry(u)], handed>>
  BY LedgerStep
<1> QED
  BY <1>1, <1>2, LedgerInvInit, LedgerInit, PTL DEF Spec, LedgerSpec, Ledger!Spec
=============================================================================
