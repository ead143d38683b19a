# A formal model of telegram-codex-bridge

The bridge is a daemon that turns Telegram messages into turns of a Codex session on the
user's machine, brings the answers and the files Codex makes back to the chat, and adds live
voice calls: a public realtime gateway serves a Mini App, and what was said and sent during a
call is handed to the Codex thread afterwards. One Node.js process does most of it, on one
SQLite database; the gateway, `bridgectl`, the app-server, `cloudflared` and the terminal
sessions are others. Inside the daemon nothing runs in parallel, and yet nearly everything
interleaves: each `await` lets the poll loop, the queue worker, the gateway's messages, the
Codex notifications and timers run, and the process may end at any of them and start again on
the rows it left behind.

This directory holds TLA+ modules of the parts where that matters, the TLC configurations that
check them, and machine-checked proofs about the queue, the backend, the requests, the live
call, the call surface, the lanes and the artifacts. `PROJECT.json` maps every definition to source lines.

## 1. The system

| Component | State | Operations | Module |
| --- | --- | --- | --- |
| Poll loop and queue (`telegram-daemon.ts` `pollLoop`, `handleMessage`, `ensureWorker`, `processQueuedTask`; `state.ts`) | `message_queue`, active-task record, offset | enqueue, notice, acknowledge, pick, prepare, record, start turn, deliver, fail, defer | `TaskQueue` |
| Recovery (`recoverInterruptedWork`, `reconcileInterruptedWork`, `recoverBackendAfterUnavailable`, `bridgectl recover-queue`) | the same rows and record | requeue, inspect the rollout, answer or fail | `TaskQueue`, `CodexBackend` |
| Codex backend (`manager.ts`, `session.ts`, `client.ts`), teleport | mode, binding, owner, loaded backend, lifecycle chain, pending turn | sync, set mode, bind, attach with rollback, start turn, lose, recover | `CodexBackend` |
| Requests and updates (`handleServerRequest`, `resolveApproval`, `handleUpdate`) | `pending_approvals`, the maps of open requests, `processed_telegram_updates` | ask, answer, refuse, expire, claim, retry | `ChatRequests` |
| Live call, daemon side (`prepareGatewayCall`, `finalizeCall`, `calls.ts`) | call record, its files, `call_inbox`, `call_handoff_appends`, pending handoffs, usage | prepare, event, hangup, stage, finalize, append, flush, recover | `CallLifecycle` |
| Live call, gateway (`realtime-gateway.ts`), control channel (`gateway-client.ts`) | sessions, kept events, log, timers, the socket | bootstrap, sockets, events, finalize, hangup | `GatewayCall`, `CallChannel` |
| Call surface (`surface.ts`, `tunnel*.ts`, `bridgectl call`) | `bridge:call_surface`, pid file, `cloudflared`, launch token | arm, invite, probe, recover, disarm, reserve, consume | `CallSurface` |
| Terminal and fallback lanes (`codex-terminal.ts`, `tmux-codex.ts`, `iterm-codex.ts`) | identity lock, active terminal task, sessions, second backend | route, lock, start, stop, ask, ping, interrupt, clear | `TaskLanes` |
| Artifacts (`artifacts.ts`, `generated-files.ts`, `*-delivery.ts`) | `artifacts`, `artifact_delivery_state` | stage, list, send, mark, fail, give up | `Artifacts` |

**What is hard.**
*Concurrency at awaits*: a handler reads a row, a record or a list, awaits Telegram, a probe or
a terminal, and writes back; four activities may finalize one call, four writers hold copies of
the surface record, and five senders list the same backlog of files. *Failure*: the daemon is
killed between writing a record and sending a request, between two database writes, or between
sending something and saying so; a Telegram call fails inside the handler that reports a
failure; the app-server exits with a turn pending; undoing a step fails as well. *Ordering*: an
acknowledged update against its row; a `call.ended` read before the record was cleared; a tap
for a request that was replaced; a message of an older turn. *Time*: a wait of 15 seconds
against a turn, a claim that goes stale after five minutes, a token that lapses.

**What makes each part correct.** Queue: an acknowledged message is in the queue, is handed
to Codex at most once and in order, is completed only after its answer was sent, and settles.
Backend: one app-server at a time, the configured one; each turn gets its own result; an attach
is all or nothing; a lost backend is repaired. Requests: an update takes effect once; a request
is given the answer to its own prompt, and does not stay open. Call: the record, which holds the
queue, is cleared; what was captured reaches the handoff; the handoff is appended once or stays
queued; the call is counted once. Surface: a token starts one call; the latest button works; a
disarmed surface has no tunnel and stays disarmed. Lanes: sessions of the user are left alone; a
row in processing is somebody's; the worker never hangs. Artifacts: a completed message's files
are in the chat or their failure was reported, fresh, and once.

## 2. The modules

| Module | Built from | Checked as |
| --- | --- | --- |
| `TaskQueue` | – | itself, and against `TaskLedger` by the refinement mapping of `TaskQueueLedger` |
| `TaskQueue_proofs`, `TaskQueueLedger_proofs` | `TaskQueue`; the former and `TaskQueueLedger` | TLAPS |
| `CodexBackend_proofs`, `ChatRequests_proofs`, `LiveCall_proofs`, `CallSurface_proofs`, `TaskLanes_proofs`, `Artifacts_proofs` | the module each is named after | TLAPS |
| `LiveCall` | `GatewayCall` and `CallLifecycle`, which both extend `CallChannel` | the composition |
| `CodexBackend`, `ChatRequests`, `CallSurface`, `TaskLanes`, `Artifacts` | – | each by itself |

In every module an action is the code between two awaits, durable state is what a database row,
a settings key or a file holds, and a crash resets the rest. A definition
marked as a variant (`InputsFailUncaught`) is a plausible slip of the code next to it, used to
see that a property notices it; no specification contains one.

### TaskQueue
Durable state is `status` (one row per update, numbered by `update_id`), `record` (the
active-task record with its stage), `offset` and `rollout` (what Codex's file shows of a turn:
nothing, activity, a result). Volatile: `pollPc`, `placing`, `workerPc`, `workerTask`,
`activeTask`, `turn`, `acked`, `alive`, `reconPc`, `recon`. `hold` is every reason of
`queueHoldReason` other than a pending turn. Histories: `handed` counts the turn/start requests
of a task, `answered` says that its final text was sent.

| Code | Actions |
| --- | --- |
| `handleMessage`, `pollLoop` | `Enqueue`, `DecideNotice`, `NoticeSent`, `NoticeFails`, `Acknowledge` |
| `ensureWorker` | `SyncBackend`, `PickTask` |
| `processQueuedTask` | `PrepareFails`, `SelectLane`, `Requeue`, `InputsFail`, `RecordTask`, `RequestTurn`, `DeliverAnswer`, `FinishTask`, `ReportFailure`, `FinishDeferral` (`ReleaseTask` is its finally block) |
| backend and `turnStarted` | `TurnAcked`, `PlaceholderStored`, `TurnRejected`, `TurnCompletes`, `BackendExit`, `HandoffStarts`, `HandoffEnds` |
| recovery | `Restart`, `RecoverySync`, `InspectRollout`, `ReconcileAnswer`, `ReconcileMark`, `ReconcileFail`, `ControlRecoverQueue`, `RepairRunningQueue` |

Four switches name the faults: `SlowNotices` (a notice may answer after its task has moved
on), `TelegramFails`, `BackendDies`, `OtherProcess` (a second daemon, or `bridgectl
recover-queue`, repairs the rows of a running daemon). A **calm** instance has none of them;
crashes are always there. The direct image path is in `Artifacts`, the other lanes are in
`TaskLanes`. A shutdown on a signal, and the one after a backend could not be recovered, are a
`Crash`: what they write for the queue is nothing more.

### GatewayCall, CallChannel, CallLifecycle, LiveCall
One call, from `POST /api/call/bootstrap` to `clearCallSession`. On the gateway `session` tells
where it is; `ending` is `endingReason`, `forced` says that the browser was sent
`call.force_end`. Timers are `RequestShutdown` and `FinalizeDeadline`; a hangup over HTTP is
`RequestShutdown` too. Each direction of the socket is a sequence. Events for a daemon that is
away wait there; those on the socket when the daemon dies are lost, and `gatewayLog` still has
them.

On the daemon there are four activities: the handler chain of the gateway's messages
(`chainPc`), the poll loop (`pollPc`), `finalizeCall` (`finPc`, run by whoever `finBy` names),
and the append (`append`). `call` is the record in the settings table; `chainCall` and `finCall`
are the copies their owners read before an await and store after it. `Locked` is
`withCallMutation`, which serializes the mutations of a call.

| Code | Actions |
| --- | --- |
| `prepareGatewayCall` | `TakePrepare`, `RefuseCall`, `CreateCall`, `ContextBuilt`, `ContextMissing`, `ContextStored` |
| `handleGatewayCallEvent`, `onHangupRequest` | `TakeEvent`, `AppendEvent`, `TakeGatewayHangup` |
| `/hangup`, `stageCallInboxItem` | `HangUp`, `StageItem`, `StageInserts`, `StageFails`, `AttachItem` |
| `finalizeCall`, `CallStore.finalize` | `Finalize`, `StagesSettle`, `StagesTimeOut`, `StoreEnds`, `StoreLists`, `StoreReturns`, `SkipAppend`, `AttemptAppend`, `ClearCall` |
| `attemptCallArtifactAppend`, `flushPendingCallHandoffs` | `AppendStarts`, `AppendFails`, `AppendCompletes`, `WaitTimesOut`, `FlushPending`, `ClaimAges` |
| process | `CrashBridge`, `RestartBridge` (`recoverInterruptedCall`) |

Simplifications: there is one call (a later call has another id and shares only the pending
queue); the recap's record and the clearing of the call are one step; the transcript is a
Boolean, the summarizer drops nothing; the app-server does not die during an append; a
claim does not age while its append still waits for the backend's sync; the attempts of a
pending handoff are counted for display only and left out.
`callArtifactAlreadyAppended` reads the rollout for a text that never occurs there (section 4),
so its answer is the record's flag. `SessionTaken` stands for tasks, approvals and desktop turns
that keep the session busy; as it is always enabled, TLC's deadlock check says little about
`LiveCall`, and `CallClears` is what shows progress.

### CodexBackend
The manager serializes lifecycle steps in a promise chain: `chain` holds those that wait, `step`
the one under way (close the previous backend, wait for its port, spawn the candidate, connect
and get its thread), `outcome` what its caller will be told. `backend` is the loaded one, with
the single `pendingTurn` its users share; `procs`, `link`, `server` and `wire` are the
app-server's side. Users of a turn are the worker and the handoff; the control operations
(/mode, /attach, /teleport, /detach, /owner, /reset) run in `ctl`; `recovery` is the retry loop
of `recoverBackendAfterUnavailable`. The attach is modelled with its verification and with the
three restorations (binding, mode, owner) it does when a step fails.

Left out: how a thread is found to attach to (desktop I/O); the mode and bind commands of
`bridgectl`, which need a stopped daemon and only write settings.

### ChatRequests
`asked` is every request of the app-servers, `open` those they still wait for, `asks` the maps
of the daemon, `row` the database rows, `shown` the prompts in the chat. `inbox` is what Telegram
holds, `offset` where the loop is, `saved` what a restart starts from, `claim` the rows of
`processed_telegram_updates`. Commands and taps are claimed before they run (`CanClaim`,
`EndClaim`); texts are recognized by their queue row. A failed call ends the batch, leaves a
claim failed, or brings an apology, as in `handleMessage`; the update then comes again. Turns
appear only so far as they decide whether a request is there to be answered. `EarlyAnswers`
(an answer before `sendMessage` has returned) and `IdsRestart` are off in the runs. `got` notes for every answer which prompt it was meant for: a
tap and a reply for their prompt, settled or not, a text that replies to nothing for the latest
question, which is the one the code takes.

### CallSurface
`rec` is the surface record, reduced to what its readers decide by. `job` says what each of the
four writers does (the daemon's timer, the chat's commands, bridgectl, the gateway) and which
**copy** of the record it holds; it writes the whole copy back, as the code does. `alive` are
the `cloudflared` processes, `pidFile` what is known of the latest. A probe, a warm-up and an
idle time are choices. `Overlap` FALSE lets one job at a time hold a copy; TRUE lets them
overlap, which is what `CallRearmed` is about. Not modelled: two tunnel starts at the same time,
a bridgectl killed midway, a gateway that is killed without running its exit handler (apart from
the loss of the link).

### TaskLanes
`pane` is the session behind each backend, with the nonce the bridge put there, the prompts it
was given and those whose answers show; `lock` is the locked identity, `active` and `saved` the
active terminal task in memory and in the database, `external` bridgectl's mark. Processes are
the worker, the chat's commands, bridgectl, and one run per prompt, which outlives the command
that began it. The user may open, take over and close sessions. The fallback lane appears as the
choice to go there, the turn, and `/fallback disable`. Left out: the Terminal.app backend; what
is on a screen beyond "ready", "this prompt's marker is there" and "its answer is there".

### Artifacts
`file` holds the version of each file in the working directory, `arts` the rows of `artifacts`
with their delivery state, `answer` what the answer of a message shows and names, `job` each
sender's place: what it wants staged (`want`), what it holds for the text (`held`), and what it
is sending (`todo`). `Rounds` gives the lists each sender goes through; `Undelivered` is the
shared backlog. `got`, `known`, `dropped` and `shared` are histories of an artifact.

Simplifications: a file is written only while a turn runs; path roots, the limit of three files
per kind, captions and the retention clean-up are left out; a reconciliation that follows a lost
backend, beside the worker, is in `TaskQueue` only. That a file is *eventually* sent is not
claimed: it waits for a later answer, which need not come.

## 3. The runs

| Run | Bounds | Shows |
| --- | --- | --- |
| `TaskQueueCalm` | 3 updates, 2 crashes, 2 holds, calm, `FairSpec` | `HandedAtMostOnce`, `NoOrphanedRow`, `TurnIsRecorded`, the refinement `LedgerSpec`, `EveryUpdateSettles` |
| `TaskQueueStormy` | 2 updates, 2 faults, 1 hold, every switch on | `TypeOK`, `CompletedWasAnswered`, `NoUpdateLost` |
| `LiveCallFair` | 1 item, no crash, slow appends, early hangup, failing bootstrap, `FairSpec` | `HandedOffOnce`, `CountedOnce`, `CallClears` |
| `LiveCallStormy` | 1 item, 1 crash, everything may fail | `TypeOK`, `HandoffIsKept`, `CapturedItemsReachHandoff`, `AppendedIsFinal` |
| `CodexBackend` | 2 threads, bound or not, 1 control operation, 1 task and 1 handoff, 1 failed start, 1 loss, 2 attempts, `FairSpec` | `OneServer`, `LoadedAsConfigured`, `ResultIsOwn`, `AttachIsAllOrNothing`, `LossIsRepaired` |
| `ChatRequests` | 2 lanes, 2 requests, 2 turns, 1 failed call, 1 crash | `AnswerIsItsOwn`, `RowIsResolvable` |
| `ChatRequestsFair` | 1 lane, 1 request, 2 turns, 1 update beside its answer, 1 failed call, 1 loss, 1 crash, `FairSpec` | `ActsOnce`, `AskIsAnswered`, `PollMovesOn` |
| `CallSurface` | managed or static, 3 tokens, 2 tunnels, 2 commands, 1 fault, 1 opening, no overlap | `TokenSpentOnce`, `InviteIsLive`, `NoTunnelWhenDisarmed`, `DisarmSticks` |
| `TaskLanes` | 1 ping, 1 chat message, 2 prompts, 1 command of any kind, 2 sessions, 1 fault, `FairSpec` | `LeavesOthersAlone`, `ProcessingIsWork`, `ToldIsFinal`, `WorkerMovesOn` |
| `Artifacts` | 1 message, an image and a document, 1 write, 1 command, run or tool call, 2 faults of which 1 a crash | `CompletedIsDelivered`, `DuplicatesHaveACause` |
| `CallRearmed` | overlap, 2 tokens, 1 tunnel, 2 commands | finds `ManualDisarmSticks` violated |
| `StaleCopySent` | 2 messages, 1 document, 2 writes, 1 fault | finds `CopyIsFresh` violated |

Each passing run that is not split also checks its module's `TypeOK`. The runs of the five
later modules do not look for deadlocks: there the daemon may rightly come to rest with its
bounded inputs used up.

**Why these bounds are enough.** The queue has one worker and one poll loop: two updates give
every pair of "in hand" and "waiting", a third makes the order of two waiting rows visible.
Two faults allow a crash during the recovery from a crash. A live call has one record, so one
item shows every race of staging against finalizing. One crash reaches every start-up state;
what is durable then is what a second crash would find. The manager's chain has four callers
with one request each, so every order of them occurs. An answer can go astray between two
questions of one turn, between a question from before a crash and one from after it, and between
two lanes whose requests have the same ids, which takes a handoff on the one and a task on the
other: two requests and two turns on two lanes have all three. What an update does when it comes
twice needs one request, and one more update that taps again, replies again or is a command
(`ChatRequestsFair`). Three tokens allow one spent, one in the chat and one newer. Two prompts and two sessions allow a prompt, a lock or a name that
belongs to the other. In `Artifacts` the number of failures before a file is given up is 2
instead of 3, so that two faults reach it; one operation beside the answer can be of any kind.
Histories that count (`handed`, `appends`, `got`) are bounded by the faults.

**Fairness.** `FairSpec` of the queue: continuations of the event loop run (`Poll`, `Work`,
`Reconcile`), Codex answers and completes what it accepted, a hold and a handoff turn end, and
launchd restarts the daemon. Of the call: the daemon's continuations run, an append turn ends, a
daemon is restarted, the gateway handles its messages and its timers fire. Of the backend:
lifecycle steps, those who await them and recovery attempts go on, since close, connect and the
wait for the port have time limits; nothing is assumed of turns. Of the requests: the update
under way is handled, prompts come back from Telegram, and **the operator answers a prompt that
is shown** (`AnswerPrompt`): without that `AskIsAnswered` would not hold, and should not. Of the
lanes: each process goes on, because every wait there has a deadline. Nobody is assumed to hang
up, to send anything or to fail, and nothing is assumed of the faults.

## 4. Disagreements

Two runs keep a disagreement between the code and what its documents say.

| Run | The trace |
| --- | --- |
| `CallRearmed` | The daemon's reconciliation reads the record; bridgectl disarms it and stops the tunnel; the daemon writes its copy back: armed, with a token that works. |
| `StaleCopySent` | The document of message 1 fails to send and waits; message 2 writes it again; `stageExistingFile` finds the waiting copy and takes it; the old version goes out with the new answer, the new one never does. |

More are known, each shown by changing the constants of a run and checking the property named
(all found while modelling; the runs above keep them out by their switches):

| Where | Constants, property | What happens |
| --- | --- | --- |
| `telegram-daemon.ts:6569` | `TaskQueue`, `SlowNotices`; `HandedAtMostOnce` | The notice of a task answers after the worker took it; the row goes back to pending and the task runs twice. |
| `telegram-daemon.ts:4633` | `TaskQueue`, `TelegramFails`; `HandedAtMostOnce` | The failure report throws, the finally block drops the record, the row is left in processing, the next start replays it. |
| `telegram-daemon.ts:2184` | `TaskQueue`, `BackendDies`; `HandedAtMostOnce` | A reconciliation that runs beside the worker clears the record of the task the worker has started meanwhile; after a crash that task runs twice. |
| `telegram-daemon.ts:214` | `TaskQueue`, `OtherProcess`; `HandedAtMostOnce` | A second daemon, or `bridgectl recover-queue`, resets the row of the task in hand; after a crash it runs twice. |
| `session.ts:159` | `TaskQueue`, `BackendDies`; `EveryUpdateSettles` | The promise of an acknowledged turn is never settled when the app-server exits; the worker waits for ever. |
| `telegram-daemon.ts:3938` | `LiveCall`, `ContextFails`, `FairSpec`; `CallClears` | A call whose context pack fails needs finalization, so its record is not cleared. |
| `telegram-daemon.ts:3951` | `LiveCall`; `ClearedStaysCleared` | `appendEvent` returns a record for a call that was cleared; `finalizeCall` stores it and runs again. |
| `realtime-gateway.ts:1112` | `LiveCall`, `EarlyHangup`; `ClearedCallIsHungUp` | `call.hangup` is dropped while no browser is connected, and the browser connects then. |
| `telegram-daemon.ts:3411` | `LiveCall`, `MaxCrashes = 1`; `HandedOffOnce` | The daemon dies during an append turn; the claim ages, the rollout check looks for unescaped text in a JSON string and never matches, the handoff is appended again. `CountedOnce` fails with a crash as well (`state.ts:1252`). |
| `telegram-daemon.ts:2447` | `ChatRequests`, `EarlyAnswers`; `RowIsResolvable` | A tap that arrives before `sendMessage` returned settles the request, which is then registered: a row nobody can resolve any more, while line 5166 asks to "Resolve pending approvals before changing mode or binding." |
| `telegram-daemon.ts:2586` | `ChatRequests`; `ReplyStaysWithItsPrompt` | Two questions are pending and one is answered. A further reply to its prompt, which says "Reply to this message with your answer." (2332), finds no such question, so `findPendingUserInputRequest` takes the latest pending one and Codex gets the text as the answer to that. A failed confirmation invites it: "Failed to send the reply back to Codex. Please try again." (2619) when the request is gone from the map. A late reply to a prompt from before a crash, or to one whose `sendMessage` failed after it was shown, answers another question as well. |
| `manager.ts:206` | `CodexBackend`, `MaxLosses = 0`; `TurnSurvivesControl` | The worker starts a turn between the idle check of a control operation and its step, and loses it, although line 5155 of the daemon says "Wait for the current task to finish before changing mode or binding." |
| `session.ts:189` | `TaskLanes`, `CloseMidTurn`, `ChatRows = {1, 2}`, `Asks = {a1}`, `Commands = {"disable"}`; `WorkerMovesOn` | Disabling the fallback lane closes its backend under a turn whose promise is never settled. |

Seen while reading, and part of the models or of their simplifications:
- An image that an answer both shows and names is staged by two branches side by side and sent
  twice (`telegram-daemon.ts:1886`). Files of a terminal run that fail are logged only and its
  row is completed (5487). The final message of a direct image failing reports the delivered
  image as failed (4126). A recovered answer takes the present as the start of its turn, so
  images it only names are not staged (1885). `bridgectl send` may take the waiting copy of
  another message, and gives it up when it fails.
- `shouldDisarm` is computed after the probe overwrote what it reads, so an unreachable managed
  surface is not disarmed (1140); recoveries mint tokens faster than they lapse, so an idle
  surface is not either; a refused bootstrap leaves its reservation until it lapses.
- After `/terminal unlock` or `use` of a session the bridge owns, the next task is refused
  although 5996 says it will lock it; a cancelled row is overwritten by the run's end (5498); a
  prompt typed just before a crash is typed again.
- A failed confirmation after a delivered answer is reported as a failed answer (2613); an answer
  by text that is redelivered after a crash is queued as a task (6413).

## 5. The proofs

Each `_proofs` module holds the theorems of one component, for every value of its constants:
any number of updates, faults, crashes, tokens, prompts, sessions. Each goes the same way. An
invariant that is true of `Init` and kept by every step is stated as a conjunction of named
parts; lemmas named after what they say give, for each variable or group of them, the actions
that change it (`RowMoves`, `LockMoves`) or the few things a step can do to it (`Shape`,
`Becomes`); from these each part is proved once per kind of change. TLC checked every part on
the bounds of section 3 before it was proved. The assumptions are the named ones of the
modules, which TLC evaluates: types of the constants, and that names of processes, prompts and
messages do not collide.

### The task queue
- `TypeCorrect`: `Spec => []TypeOK`. The types alone are not inductive (`status'[offset + 1]`
  needs an update that exists; `EndReconcile` needs a record). `TypeInv` adds who holds what:
  a worker past its pick has a task, a poll loop past its fetch has a row, a recovery past its
  sync has a record, and a task's pending turn is the one the worker awaits.
- `NoUpdateIsLost`: from `TypeInv`, the fact that no step deletes a row (`RowsStay`), and that
  the offset only moves past an update with a row. No assumption on the faults.
- `CompletedIsAnswered`: `AnswerInv` adds that the steps which may complete a row come after
  the answer (`MarkAfterAnswer`). No assumption on the faults.
- `NoReplay`: `Calm => (Spec => []HandedAtMostOnce)`. `CalmInv` says that a handed task is
  settled or guarded by a row in processing and a record past "preparing", that row and record
  agree with where the worker is, that only a start reconciles, and that a notice on its way
  finds its row pending. Each replay of section 4 breaks one of these parts, which is why `Calm`
  is needed: a late notice breaks the last, an outage the agreement of row and record, a second
  reconciler the third. Crashes, restarts, holds, deferrals, handoff turns and
  `bridgectl recover-queue` on a stopped daemon are all covered.
- `TurnsAreRecorded` follows from `CalmInv`. `NoRowIsOrphaned` adds `RowsAreHeld`: a row in
  processing is the worker's, the recovery's, or, while the daemon is down, the record's.
- `QueueImplementsLedger`: `Calm => (Spec => LedgerSpec)`, the refinement. `LedgerInv` adds to
  `CalmInv` that the rows up to the offset are there and none is ahead of it by more than the
  update in hand, and that every row older than the one the worker holds is settled: without it
  the ledger's `Hand`, which wants the oldest, could not be shown. A step then moves one entry
  and leaves the others, or is a stutter.

### The backend
- `BackendIsTyped`: `TypeInv` adds to `TypeOK` what each step knows of its candidate and each
  place of `ctl` of what it saved, and that a reset runs on an autonomous session.
- `OneServerAlive`: `ServersAreOwned` says whose processes can be alive (those of the loaded
  backend and of the candidate, if their modes have one), and that a candidate with an
  app-server is spawned only when nothing with one is loaded.
- `ResultsAreOwn`: notifications carry no turn, so `WireIsOfPending` is needed: what is on the
  wire is about the pending turn, and the message that ends it is the last one.
- `AttachMovesAllOrNothing`, an action property: `AttachAgrees` ties each place of the attach to
  what mode, binding and owner are there, as long as no undo has failed.
- `LoadedIsConfigured`: `startFails <= 1 => LoadedAsConfigured`, always. `StaleIsKnown` says that
  what is loaded differs from what is stored only while a step will load it or a control
  operation was just told that its start failed. To keep it one needs that a control operation
  has one request or step at a time (`ControlIsOne`) and that nobody else's step carries its
  change unless its own is still to come (`StepIsCurrent`, `ChangeIsControls`): a window whose
  undo fails could otherwise stay loaded unnoticed. With a second failed start it can, when the
  sync of another party has meanwhile loaded what is being undone; hence the condition.

### Requests and updates
- `RequestsAreTyped`; `UpdatesActOnce`: an effect comes after the row that bars a second one
  (`EffectsAreClaimed`). Both without any assumption on the faults.
- `RowsAreResolvable`: `~EarlyAnswers => ...`. `SentIsRemembered` says that the request of a
  prompt on its way is in the map and that nothing in the inbox is about it yet, which is what
  `EarlyAnswers` takes away.
- `AnswersAreOwn`: `~IdsRestart => ...`, an action property: whatever a step gives to a request
  was meant for it, unless it is a text replying to a question that is not pending and the
  request is a question that is, as `ReplyStaysWithItsPrompt` finds. `IdsAreUnique` is all
  it needs, so answers that overtake their prompts are included.

### The live call
`CallIsTyped`, and the theorems about the composition of gateway and daemon. None has an
assumption on what fails, is late or is hung up; two are about one life of the daemon.
- `AppendedStaysAppended`, an action property, from `ClaimIsHeld`: an append that is about to
  start its turn holds the claim, one whose turn runs holds it or is said to have held it for
  too long. `AppendsAreCounted` charges each accepted turn to a crash, to the turn under way or
  to the one that was recorded, which gives `OneAppendPerLife` (at most one turn more than there
  were crashes) and, for `MaxCrashes = 0`, `HandoffIsAppendedOnce`. With a crash it does not
  hold (section 4, `telegram-daemon.ts:3411`).
- `CallIsCountedOnce`, for `MaxCrashes = 0` again: `CallIsCounted` says that a count is marked,
  or the daemon died before it was, and that who is past the store has seen to it.
- `HandoffIsNeverLost`: `NobodyForgets` carries the property back to the step before the record
  is cleared. A finalization must not skip the append of a handoff nobody appended, so
  `MarksAgree` compares every copy of the record, those read before an await included, with the
  database; and a record must not vanish under a finalization, so `CallIsFiled` says that a copy
  is of a record that was there, `AskedOnce` that a call is created once, before its files, and
  `FinalizerIsBusy` that its finalizer occupies the handler it runs in.
- `CapturedIsHandedOver`: `CaptureIsKept` adds that nobody stages an item from the listing of
  the attachments on. That an item begun before holds the finalization up is the code's own
  wait; that none begins later follows from `FinalizerIsBusy` and the status of the record.

### The call surface
`SurfaceIsTyped` holds with overlapping writers. The other four are under `~Overlap` and share
`ArmInv`: at most one job holds a copy (`Alone`), and a copy is armed only if the record is or
the job is arming it. `CallRearmed` shows that each needs it.
- `TokensStartOneCall`: neither the record nor a copy has a token that started a call.
- `OnlyRequestsArm`, the action property `DisarmSticks`, from `ArmInv` step by step.
- `InvitesStayLive`: `InviteKept` carries the property over the copies as well.
- `DisarmedIsClosed`: `SurfaceInv` says that a tunnel beside a disarmed surface is the latest
  known one, and that the one job under way will stop it or is arming the surface for it; for
  this one needs to know that no call begins meanwhile and which pid each job has seen.

### The lanes
- `LanesAreTyped`: `TypeInv` adds who does what (`Roles`), and that a process that is about to
  begin a prompt finds one that is unused (`Room`, a cardinality argument).
- `WorkIsAnsweredFor`: the work is that of a run, or of the worker itself while it waits; a
  worker that has given the message to a run does not count, or the step would not be inductive.
- `ToldStaysTold`, an action property: no job, no active task and no saved record has the row of
  a prompt that was told to be given up.
- `OthersAreLeftAlone`: `~NameTaken => ...`. Every lock, and every lock in a process's hand,
  names a session of the bridge or one it was told to take; who waits for its session to come up
  finds none of the user's in its place.

### The artifacts
None has an assumption on faults, crashes or the number of senders.
- `StoreIsTyped`: `Typed` adds that what a sender holds or lists are artifacts that exist. Lists
  are sets in the order of their numbers; that the order is a sequence of exactly the set, each
  member once, is proved by counting ranks (`RankBound`, `RanksAreHit`), since the library's
  induction theorems cannot be used. Every later part builds on `Sound`: which sender does what
  at which place and for which message (`Role`), and that it lists nothing outside sending and
  holds nothing outside staging (`Quiet`). One lemma per action (`...Effect`) says what the
  action leaves of the artifacts and of the sender.
- `CompletedAnswersAreOut`: `Kept`. While the worker is on a message, each artifact made for it
  is settled, in the worker's hand, among the failures it keeps for its notice, or on a list
  still to come (`ToCome`): the lists of later rounds are read from the database when their
  turn comes, so that what another sender marks, fails or gives up meanwhile must be allowed
  for. `ChatsOwn` is needed since `/image` sends beside the worker: its list holds only what it
  made itself.
- `NoFileComesTwice`: `Clear`, about every artifact that is not `shared` (no answer to it was
  lost, no crash cut in before its mark, no two senders held it at once). It is in at most one
  hand (`Alone`) and there once (`Once`), has arrived at most once, is in no hand
  once it is marked delivered, and from its arrival on is marked or about to be marked
  (`Marking`).

### Not proved
Liveness (`EveryUpdateSettles`, `CallClears`, `LossIsRepaired`, `AskIsAnswered`, `PollMovesOn`,
`WorkerMovesOn`): fairness and `ENABLED` are out of the prover's reach. Every invariant and
every action property that a passing run checks is stated by a theorem, some under the
condition named above.

## 6. Not modelled

- **Media providers**, **task building** (downloads, transcription, prompts), the **Mini App
  page**, **configuration, logging, redaction, path policy, storage clean-up**, desktop
  notifications and thread listing: sequential parsing or calls to services, without state that
  others share. Where they can fail, the module that calls them has the failure.
- The incremental **rollout parser**: `TaskQueue` has what an inspection may find.
- **bridgectl** start, stop, install and status: process control.
- Rate limits, health endpoints and the cap of 512 kept events of the gateway, far beyond what a
  checked instance reaches.
- Hazards that no property covers say why in `PROJECT.json`: the replays and the unsettled
  promise of section 4, which the checked runs of the queue exclude by their switches, a
  finalization abandoned when staging times out, a surface that stays armed, a direct image that
  is generated again after a crash.

## 7. What is left

The rollout parser as pure functions against a reference definition; the supervision commands
of bridgectl against the pid checks of the daemon.
