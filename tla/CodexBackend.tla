---------------------------- MODULE CodexBackend ----------------------------
(***************************************************************************)
(* The backend manager of the daemon's primary Codex lane and the sessions *)
(* it loads: the serialized lifecycle steps that close one backend and     *)
(* start another, the settings (mode, bound thread, owner) they follow,    *)
(* and the parties that use them at the same time: the control operations  *)
(* of the chat (/mode, /attach, /teleport, /detach, /reset, /owner), users  *)
(* of a turn (the queue worker and the call handoff), and the recovery     *)
(* that runs when the app-server goes away.                                *)
(*                                                                         *)
(* A backend has a number while anything of it is left; its app-server     *)
(* process has the same number.  An action is the code between two awaits. *)
(* The behaviours start when BridgeBackendManager.start has succeeded.     *)
(***************************************************************************)
EXTENDS Integers, Sequences, FiniteSets

CONSTANTS
  Threads,         \* desktop threads that can be bound
  BoundAtStart,    \* what bridge:bound_thread may hold when the daemon starts
  MaxControls,     \* bound on control operations
  MaxTurns,        \* bound on queued tasks, and on call handoffs
  MaxStartFails,   \* bound on backends whose start fails
  MaxLosses,       \* bound on app-servers that exit or drop the socket
  MaxFresh,        \* bound on threads started for the autonomous mode
  RecoveryAttempts \* BACKEND_RECOVERY_ATTEMPTS

None == "none"
AppModes == {"autonomous-thread", "shared-thread-resume"}
Modes    == AppModes \cup {"shadow-window"}

ASSUME BackendAssumption ==
  /\ Threads # {} /\ None \notin Threads
  /\ BoundAtStart \subseteq Threads \cup {None}
  /\ {MaxControls, MaxTurns, MaxStartFails, MaxLosses, MaxFresh} \subseteq Nat
  /\ RecoveryAttempts \in Nat \ {0}

Bindings  == Threads \cup {None}
Users     == {"worker", "handoff"}               \* callers of startTurn
Callers   == Users \cup {"control", "recovery"}  \* callers of sync
Ids       == 1..4
NoThread  == 0
OwnThreads == 1..(MaxFresh + 1)
Config    == [mode : Modes, binding : Bindings]
NoConfig  == [mode |-> None, binding |-> None]
NoBackend == [id |-> 0, mode |-> None, thread |-> NoThread, pending |-> None, acked |-> FALSE]

VARIABLES
  mode, binding, owner,  \* durable: bridge:mode, bridge:bound_thread, bridge:owner
  previous,   \* durable: the binding that /teleport back returns to
  ownThread,  \* durable: codex:thread_id
  backend,    \* the manager's loaded backend, with its pendingTurn
  sig,        \* the configuration it was loaded for
  chain,      \* lifecycle steps that wait for their turn
  step,       \* the lifecycle step under way
  cand,       \* the candidate it is starting
  outcome,    \* what the step each caller awaits came to
  procs,      \* app-server processes alive
  link,       \* backends whose websocket is open
  server,     \* where the loaded backend's server is with each user's turn
  wire,       \* its messages that are not handled yet
  queued,     \* pending rows of the queue
  user,       \* where each user of a turn is
  result,     \* history: whose turn's result each user was last given
  ctl,        \* the control operation under way
  recovery,   \* attempts of recoverBackendAfterUnavailable so far; 0: it does not run
  shutdown,   \* requestShutdown was called
  fresh,      \* the last autonomous thread started
  controls, turns, startFails, losses  \* bounded by the constants

settings == <<mode, binding, owner, previous>>
servers  == <<procs, link, server, wire>>
users    == <<queued, user, result>>
lifecycle == <<sig, step, cand>>
budget   == <<controls, turns, startFails, losses>>
vars == <<settings, ownThread, backend, lifecycle, chain, outcome, servers, users, ctl,
          recovery, shutdown, fresh, budget>>

NoStep == [pc |-> None, by |-> None, force |-> FALSE, throws |-> FALSE, closed |-> FALSE,
           want |-> NoConfig]
NoCtl  == [pc |-> None, kind |-> None, mode |-> None, target |-> None, undo |-> None,
           old |-> NoConfig, oldOwner |-> None, broken |-> FALSE, on |-> 0]
Idle(u) == user[u] = "idle"

TypeOK ==
  /\ mode \in Modes /\ {binding, previous} \subseteq Bindings
  /\ owner \in {"telegram", "desktop"}
  /\ {ownThread, fresh} \subseteq OwnThreads
  /\ {backend.id, cand.id} \subseteq Ids \cup {0}
  /\ \A b \in {backend, cand} :
       \/ b = NoBackend
       \/ /\ b.mode \in Modes /\ b.pending \in Users \cup {None} /\ b.acked \in BOOLEAN
          /\ \/ b.mode = "autonomous-thread" /\ b.thread \in OwnThreads \cup {NoThread}
             \/ b.mode # "autonomous-thread" /\ b.thread \in Threads
  /\ sig \in Config \cup {NoConfig}
  /\ chain \in Seq([by : Callers, force : BOOLEAN, throws : BOOLEAN])
  /\ step.pc \in {None, "closing", "port", "spawn", "starting"}
  /\ outcome \in [Callers -> {"none", "ok", "error"}]
  /\ procs \subseteq Ids /\ link \subseteq Ids
  /\ server \in [Users -> {"none", "asked", "running"}]
  /\ wire \in Seq([kind : {"ack", "reject", "done"}, of : Users])
  /\ queued \in 0..MaxTurns
  /\ user \in [Users -> {"idle", "checked", "syncing", "synced", "cleared", "ready",
                         "waiting", "adrift", "outside"}]
  /\ result \in [Users -> Users]
  /\ ctl.pc \in {None, "checked", "verify", "bind", "unbind", "mode", "unmode", "status",
                 "rebind", "unrebind", "remode", "unremode", "reset"}
  /\ recovery \in 0..RecoveryAttempts /\ shutdown \in BOOLEAN

\* codex.start() has loaded a backend for the stored mode and binding.
Init ==
  /\ mode \in Modes /\ binding \in BoundAtStart
  /\ mode # "autonomous-thread" => binding # None
  /\ owner \in {"telegram", "desktop"} /\ previous = None
  /\ ownThread = 1 /\ fresh = 1
  /\ sig = [mode |-> mode, binding |-> binding]
  /\ backend = [NoBackend EXCEPT !.id = 1, !.mode = mode,
                                 !.thread = IF mode = "autonomous-thread" THEN ownThread ELSE binding]
  /\ chain = <<>> /\ step = NoStep /\ cand = NoBackend
  /\ outcome = [c \in Callers |-> "none"]
  /\ procs = (IF mode \in AppModes THEN {1} ELSE {}) /\ link = procs
  /\ server = [u \in Users |-> "none"] /\ wire = <<>>
  /\ queued = 0 /\ user = [u \in Users |-> "idle"] /\ result = [u \in Users |-> u]
  /\ ctl = NoCtl /\ recovery = 0 /\ shutdown = FALSE
  /\ controls = 0 /\ turns = [u \in Users |-> 0] /\ startFails = 0 /\ losses = 0

----------------------------------------------------------------------------
(* Helpers of BridgeBackendManager and of the sessions.                    *)

UsesAppServer(m) == m \in AppModes

\* isAvailable: the app-server's process runs and its socket is open.
IsAvailable(b) == b.id # 0 /\ (UsesAppServer(b.mode) => b.id \in procs \cap link)

HasActiveTurn == backend.pending # None

\* The daemon's activeTask: the worker is past the choice of a task.
ActiveTask == user["worker"] \in {"ready", "waiting", "adrift", "outside"}

\* runLifecycleStep: a step runs when the ones requested before it are over,
\* whether they failed or not.
Sync(c, force, throws) ==
  /\ chain' = Append(chain, [by |-> c, force |-> force, throws |-> throws])
  /\ outcome' = [outcome EXCEPT ![c] = "none"]

\* Variant: a step that fails blocks the steps behind it.
FinishOrBlock(res) ==
  /\ outcome' = [outcome EXCEPT ![step.by] = res]
  /\ step' = IF res = "ok" THEN NoStep ELSE [step EXCEPT !.pc = "blocked"]

\* The end of the step under way: its caller's promise is settled.
Finish(res) ==
  /\ outcome' = [outcome EXCEPT ![step.by] = res]
  /\ step' = NoStep

\* close of a session: a turn/start that was not answered is rejected, a turn
\* that was acknowledged is never settled; a shadow-window session has nothing
\* to close and its turn goes on.
CloseTurns(b) ==
  IF b.pending = None THEN user
  ELSE [user EXCEPT ![b.pending] =
          IF b.mode = "shadow-window" THEN "outside"
          ELSE IF b.acked THEN "adrift" ELSE "idle"]

NoServerTurn == [u \in Users |-> "none"]

----------------------------------------------------------------------------
(* The lifecycle steps: performSync.                                       *)

\* Variant: only a change between app-server and window modes is exclusive.
ExclusiveWhenKindChanges ==
  backend.id # 0 /\ UsesAppServer(mode) # UsesAppServer(backend.mode)

\* requiresExclusiveAppServer: the previous backend goes before the next starts.
Exclusive == backend.id # 0 /\ (UsesAppServer(mode) \/ UsesAppServer(backend.mode))

\* performSync up to its first await, with the settings it reads.
BeginStep ==
  /\ step.pc = None /\ chain # <<>>
  /\ LET r == Head(chain)
         want == [mode |-> mode, binding |-> binding]
         begun == [NoStep EXCEPT !.by = r.by, !.force = r.force, !.throws = r.throws,
                                 !.want = want]
         upToDate == ~r.force /\ sig = want /\ IsAvailable(backend)
         deferred == ~r.force /\ HasActiveTurn
         unbound  == mode # "autonomous-thread" /\ binding = None
     IN /\ chain' = Tail(chain)
        /\ \/ /\ upToDate \/ deferred
              /\ outcome' = [outcome EXCEPT ![r.by] = "ok"]
              /\ UNCHANGED <<step, sig, link>>
           \/ /\ ~upToDate /\ ~deferred /\ unbound /\ backend.id = 0
              /\ sig' = want
              /\ outcome' = [outcome EXCEPT ![r.by] = "ok"]
              /\ UNCHANGED <<step, link>>
           \/ /\ ~upToDate /\ ~deferred
              /\ \/ unbound /\ backend.id # 0
                 \/ ~unbound /\ Exclusive
              /\ step' = [begun EXCEPT !.pc = "closing", !.closed = ~unbound]
              /\ link' = link \ {backend.id}
              /\ UNCHANGED <<sig, outcome>>
           \/ /\ ~upToDate /\ ~deferred /\ ~unbound /\ ~Exclusive
              /\ step' = [begun EXCEPT !.pc = "spawn"]
              /\ UNCHANGED <<sig, outcome, link>>
  /\ UNCHANGED <<settings, ownThread, backend, cand, procs, server, wire, users, ctl,
                 recovery, shutdown, fresh, budget>>

\* The loaded session is closed and its app-server has exited.
ClosePrevious ==
  /\ step.pc = "closing"
  /\ user' = CloseTurns(backend)
  /\ procs' = procs \ {backend.id}
  /\ server' = NoServerTurn /\ wire' = <<>>
  /\ backend' = NoBackend
  /\ IF step.closed
     THEN /\ sig' = NoConfig
          /\ step' = [step EXCEPT !.pc = IF UsesAppServer(step.want.mode) THEN "port" ELSE "spawn"]
          /\ UNCHANGED outcome
     ELSE sig' = step.want /\ Finish("ok")
  /\ UNCHANGED <<settings, ownThread, cand, chain, link, queued, result, ctl, recovery,
                 shutdown, fresh, budget>>

\* waitForPortClosed
PortClosed ==
  /\ step.pc = "port"
  /\ IF procs = {} THEN step' = [step EXCEPT !.pc = "spawn"] /\ UNCHANGED outcome
     ELSE Finish("error")
  /\ UNCHANGED <<settings, ownThread, backend, sig, cand, chain, servers, users, ctl,
                 recovery, shutdown, fresh, budget>>

\* createBackend and the spawn of its app-server.
SpawnCandidate ==
  /\ step.pc = "spawn"
  /\ LET id == CHOOSE i \in Ids : i \notin procs \cup {backend.id, ctl.on}
         m == step.want.mode
     IN /\ cand' = [NoBackend EXCEPT !.id = id, !.mode = m,
                      !.thread = IF m = "autonomous-thread" THEN NoThread ELSE step.want.binding]
        /\ procs' = IF UsesAppServer(m) THEN procs \cup {id} ELSE procs
  /\ step' = [step EXCEPT !.pc = "starting"]
  /\ UNCHANGED <<settings, ownThread, backend, sig, chain, outcome, link, server, wire,
                 users, ctl, recovery, shutdown, fresh, budget>>

\* initializeThread of the autonomous session: resume the saved thread, or
\* start one and save it.
InitializeThread ==
  IF cand.mode # "autonomous-thread" THEN cand' = NoBackend /\ UNCHANGED <<ownThread, fresh>>
  ELSE /\ cand' = NoBackend
       /\ \/ UNCHANGED <<ownThread, fresh>>
          \/ fresh <= MaxFresh /\ fresh' = fresh + 1 /\ ownThread' = fresh'

\* The candidate has connected and has its thread: it is the loaded backend.
CandidateStarts ==
  /\ step.pc = "starting"
  /\ UsesAppServer(cand.mode) => cand.id \in procs
  /\ InitializeThread
  /\ backend' = [cand EXCEPT !.thread =
                   IF cand.mode = "autonomous-thread" THEN ownThread' ELSE @]
  /\ link' = IF UsesAppServer(cand.mode) THEN link \cup {cand.id} ELSE link
  /\ user' = CloseTurns(backend)
  /\ server' = NoServerTurn /\ wire' = <<>>
  /\ sig' = step.want
  /\ Finish("ok")
  /\ UNCHANGED <<settings, chain, procs, queued, result, ctl, recovery,
                 shutdown, budget>>

\* The start of the candidate throws; the candidate is closed.
CandidateFails ==
  /\ step.pc = "starting"
  /\ \/ startFails < MaxStartFails /\ startFails' = startFails + 1
     \/ UsesAppServer(cand.mode) /\ cand.id \notin procs /\ UNCHANGED startFails
  /\ procs' = procs \ {cand.id}
  /\ cand' = NoBackend
  /\ Finish(IF backend.id = 0 \/ step.throws THEN "error" ELSE "ok")
  /\ UNCHANGED <<settings, ownThread, backend, sig, chain, link, server, wire, users, ctl,
                 recovery, shutdown, fresh, controls, turns, losses>>

----------------------------------------------------------------------------
(* Turns: startTurn, the app-server, and the messages of its socket.       *)

\* The poll loop stores a message; it is inside handleCommand while a control
\* operation runs.
Enqueue ==
  /\ ctl.pc = None /\ turns["worker"] < MaxTurns /\ ~shutdown
  /\ turns' = [turns EXCEPT !["worker"] = @ + 1] /\ queued' = queued + 1
  /\ UNCHANGED <<settings, ownThread, backend, lifecycle, chain, outcome, servers, user,
                 result, ctl, recovery, shutdown, fresh, controls, startFails, losses>>

\* The part before an await of the worker's hold check, and of
\* canAttemptCallHandoffAppend: the await reads the rollout of the bound thread.
CheckFree(u) ==
  /\ Idle(u) /\ ~shutdown /\ ~HasActiveTurn /\ owner = "telegram"
  /\ IF u = "worker" THEN queued > 0 ELSE ~ActiveTask /\ turns[u] < MaxTurns
  /\ turns' = IF u = "handoff" THEN [turns EXCEPT ![u] = @ + 1] ELSE turns
  /\ user' = [user EXCEPT ![u] = "checked"]
  /\ UNCHANGED <<settings, ownThread, backend, lifecycle, chain, outcome, servers, queued,
                 result, ctl, recovery, shutdown, fresh, controls, startFails, losses>>

\* The rollout shows no foreign turn: codex.sync() is requested.  Otherwise
\* the worker waits and the handoff is deferred.
RequestSync(u) ==
  /\ user[u] = "checked"
  /\ \/ user' = [user EXCEPT ![u] = "idle"] /\ UNCHANGED <<chain, outcome>>
     \/ user' = [user EXCEPT ![u] = "syncing"] /\ Sync(u, FALSE, FALSE)
  /\ UNCHANGED <<settings, ownThread, backend, lifecycle, servers, queued, result, ctl,
                 recovery, shutdown, fresh, budget>>

\* The worker only logs a failed sync; the handoff fails with it.
Synced(u) ==
  /\ user[u] = "syncing" /\ outcome[u] # "none"
  /\ user' = [user EXCEPT ![u] =
                IF u = "worker" THEN "synced" ELSE IF outcome[u] = "ok" THEN "ready" ELSE "idle"]
  /\ outcome' = [outcome EXCEPT ![u] = "none"]
  /\ UNCHANGED <<settings, ownThread, backend, lifecycle, chain, servers, queued, result, ctl,
                 recovery, shutdown, fresh, budget>>

\* The late hold check of ensureWorker, up to its await.
LateCheck ==
  /\ user["worker"] = "synced"
  /\ user' = [user EXCEPT !["worker"] =
                IF HasActiveTurn \/ owner # "telegram" THEN "idle" ELSE "cleared"]
  /\ UNCHANGED <<settings, ownThread, backend, lifecycle, chain, outcome, servers, queued,
                 result, ctl, recovery, shutdown, fresh, budget>>

\* processQueuedTask sets activeTask and claims the row.
PickTask ==
  /\ user["worker"] = "cleared"
  /\ IF queued = 0 THEN user' = [user EXCEPT !["worker"] = "idle"] /\ UNCHANGED queued
     ELSE user' = [user EXCEPT !["worker"] = "ready"] /\ queued' = queued - 1
  /\ UNCHANGED <<settings, ownThread, backend, lifecycle, chain, outcome, servers, result,
                 ctl, recovery, shutdown, fresh, budget>>

\* Variant: a pending turn is overwritten.
AnyBackendStarts == backend.id # 0

\* startTurn refuses when no backend is loaded or one has a pending turn.
CanStartTurn == backend.id # 0 /\ ~HasActiveTurn

\* startTurn: pendingTurn is set and turn/start sent; over a socket that is
\* gone or being closed the request throws, and the turn is rejected.
StartTurn(u) ==
  /\ user[u] = "ready"
  /\ IF CanStartTurn /\ (UsesAppServer(backend.mode) => backend.id \in link)
     THEN /\ backend' = [backend EXCEPT !.pending = u, !.acked = FALSE]
          /\ server' = [server EXCEPT ![u] = "asked"]
          /\ user' = [user EXCEPT ![u] = "waiting"]
     ELSE user' = [user EXCEPT ![u] = "idle"] /\ UNCHANGED <<backend, server>>
  /\ UNCHANGED <<settings, ownThread, lifecycle, chain, outcome, procs, link, wire, queued,
                 result, ctl, recovery, shutdown, fresh, budget>>

\* The app-server answers turn/start, runs the turn and reports its end.  A
\* shadow-window turn has its prompt typed and its answer read from the rollout.
ServerStep(u) ==
  /\ \/ /\ server[u] = "asked"
        /\ \/ server' = [server EXCEPT ![u] = "running"]
              /\ wire' = Append(wire, [kind |-> "ack", of |-> u])
           \/ server' = [server EXCEPT ![u] = "none"]
              /\ wire' = Append(wire, [kind |-> "reject", of |-> u])
     \/ /\ server[u] = "running"
        /\ server' = [server EXCEPT ![u] = "none"]
        /\ wire' = Append(wire, [kind |-> "done", of |-> u])
  /\ UNCHANGED <<settings, ownThread, backend, lifecycle, chain, outcome, procs, link, users,
                 ctl, recovery, shutdown, fresh, budget>>

\* handleMessage and handleNotification: the answer and the end of a turn go
\* to whatever turn is pending.
HandleMessage ==
  /\ wire # <<>> /\ wire' = Tail(wire)
  /\ LET msg == Head(wire)
         u == backend.pending
     IN \/ u = None /\ UNCHANGED <<backend, user, result>>
        \/ /\ u # None /\ msg.kind = "ack"
           /\ backend' = [backend EXCEPT !.acked = TRUE] /\ UNCHANGED <<user, result>>
        \/ /\ u # None /\ msg.kind # "ack"
           /\ backend' = [backend EXCEPT !.pending = None, !.acked = FALSE]
           /\ user' = [user EXCEPT ![u] = "idle"]
           /\ result' = IF msg.kind = "done" THEN [result EXCEPT ![u] = msg.of] ELSE result
  /\ UNCHANGED <<settings, ownThread, lifecycle, chain, outcome, procs, link, server, queued,
                 ctl, recovery, shutdown, fresh, budget>>

\* The rollout shows the end of a turn whose shadow-window session was replaced.
OutsideTurnEnds(u) ==
  /\ user[u] = "outside"
  /\ user' = [user EXCEPT ![u] = "idle"]
  /\ UNCHANGED <<settings, ownThread, backend, lifecycle, chain, outcome, servers, queued,
                 result, ctl, recovery, shutdown, fresh, budget>>

----------------------------------------------------------------------------
(* The loss of the app-server, and recoverBackendAfterUnavailable.         *)

\* Variant: nobody listens for the event.
NobodyRecovers == UNCHANGED <<recovery, chain, outcome>>

\* onBackendUnavailable: a recovery that runs already is joined.
BackendUnavailable ==
  IF recovery = 0 /\ ~shutdown
  THEN recovery' = 1 /\ Sync("recovery", TRUE, TRUE)
  ELSE UNCHANGED <<recovery, chain, outcome>>

\* The app-server of the loaded backend exits, or drops the socket: requests
\* without an answer are rejected, and "unavailable" is emitted unless the
\* session is being closed.
LoseBackend ==
  /\ losses < MaxLosses /\ losses' = losses + 1
  /\ UsesAppServer(backend.mode) /\ IsAvailable(backend)
  /\ procs' \in {procs, procs \ {backend.id}}
  /\ link' = link \ {backend.id}
  /\ server' = NoServerTurn /\ wire' = <<>>
  /\ IF HasActiveTurn /\ ~backend.acked
     THEN /\ backend' = [backend EXCEPT !.pending = None]
          /\ user' = [user EXCEPT ![backend.pending] = "idle"]
     ELSE UNCHANGED <<backend, user>>
  /\ BackendUnavailable
  /\ UNCHANGED <<settings, ownThread, lifecycle, queued, result, ctl, shutdown, fresh,
                 controls, turns, startFails>>

\* The app-server of the candidate exits: its start fails, and the event the
\* manager forwards starts a recovery.
LoseCandidate ==
  /\ losses < MaxLosses /\ losses' = losses + 1
  /\ step.pc = "starting" /\ UsesAppServer(cand.mode) /\ cand.id \in procs
  /\ procs' = procs \ {cand.id}
  /\ BackendUnavailable
  /\ UNCHANGED <<settings, ownThread, backend, lifecycle, link, server, wire, users, ctl,
                 shutdown, fresh, controls, turns, startFails>>

LastAttempt == recovery = RecoveryAttempts

\* A failed attempt is repeated after a pause; after the last the daemon stops.
RecoveryAttemptEnds ==
  /\ recovery > 0 /\ outcome["recovery"] # "none"
  /\ \/ /\ outcome["recovery"] = "ok" \/ LastAttempt
        /\ recovery' = 0
        /\ shutdown' = (shutdown \/ outcome["recovery"] = "error")
        /\ outcome' = [outcome EXCEPT !["recovery"] = "none"]
        /\ UNCHANGED chain
     \/ /\ outcome["recovery"] = "error" /\ ~LastAttempt
        /\ recovery' = recovery + 1
        /\ Sync("recovery", TRUE, TRUE)
        /\ UNCHANGED shutdown
  /\ UNCHANGED <<settings, ownThread, backend, lifecycle, servers, users, ctl, fresh, budget>>

----------------------------------------------------------------------------
(* Control operations of the chat.                                         *)

unchangedByControl == <<sig, step, cand, servers, users, recovery, shutdown>>

\* requireIdleControlOperation up to its await, for an operation of the kind.
BeginControl ==
  /\ ctl.pc = None /\ controls < MaxControls /\ ~shutdown
  /\ ~ActiveTask /\ ~HasActiveTurn /\ Idle("handoff")
  /\ \/ \E m \in Modes : ctl' = [NoCtl EXCEPT !.pc = "checked", !.kind = "mode", !.mode = m]
     \/ \E t \in Threads :
          ctl' = [NoCtl EXCEPT !.pc = "checked", !.kind = "attach", !.target = t]
     \/ \E k \in {"detach", "owner"} : ctl' = [NoCtl EXCEPT !.pc = "checked", !.kind = k]
     \/ /\ backend.mode = "autonomous-thread"
        /\ ctl' = [NoCtl EXCEPT !.pc = "checked", !.kind = "reset"]
  /\ controls' = controls + 1
  /\ UNCHANGED <<settings, ownThread, backend, chain, outcome, fresh, turns, startFails,
                 losses, unchangedByControl>>

\* BridgeBackendManager.setMode and setBoundThread up to the forced sync.
SetMode(m, c) ==
  /\ mode' = m /\ UNCHANGED binding
  /\ ctl' = [c EXCEPT !.undo = mode]
  /\ Sync("control", TRUE, TRUE)

SetBoundThread(t, c) ==
  /\ binding' = t /\ UNCHANGED mode
  /\ ctl' = [c EXCEPT !.undo = binding]
  /\ Sync("control", TRUE, TRUE)

\* Their catch: the previous value is written back and the backend reloaded.
UndoMode(c) ==
  /\ mode' = ctl.undo /\ UNCHANGED binding
  /\ ctl' = c /\ Sync("control", TRUE, FALSE)

\* Variant: nothing is written back and nothing reloaded.
LeaveFailedBinding(c) == UNCHANGED <<mode, binding, chain, outcome>> /\ ctl' = c

UndoBinding(c) ==
  /\ binding' = ctl.undo /\ UNCHANGED mode
  /\ ctl' = c /\ Sync("control", TRUE, FALSE)

AwaitNothing == UNCHANGED <<mode, binding, chain>> /\ outcome' = [outcome EXCEPT !["control"] = "none"]
EndControl   == AwaitNothing /\ ctl' = NoCtl

\* The rest of requireIdleControlOperation, and the operation up to its first await.
ConfirmControl ==
  /\ ctl.pc = "checked"
  /\ \/ EndControl /\ UNCHANGED owner
     \* refused: a queued task, an approval, a turn of the desktop, a pending handoff
     \/ /\ queued = 0 /\ Idle("handoff")
        /\ owner' \in IF ctl.kind = "owner" THEN {"telegram", "desktop"} ELSE {owner}
        /\ \/ /\ ctl.kind = "owner" \/ (ctl.kind = "mode" /\ ctl.mode = mode)
              /\ EndControl
           \/ /\ ctl.kind = "mode" /\ ctl.mode # mode
              /\ SetMode(ctl.mode, [ctl EXCEPT !.pc = "mode"])
           \/ /\ ctl.kind = "detach"
              /\ SetBoundThread(None, [ctl EXCEPT !.pc = "bind"])
           \/ /\ ctl.kind = "attach"
              /\ AwaitNothing
              /\ ctl' = [ctl EXCEPT !.pc = "verify", !.oldOwner = owner,
                                    !.old = [mode |-> mode, binding |-> binding]]
           \/ /\ ctl.kind = "reset"
              /\ AwaitNothing
              /\ ctl' = IF backend.mode = "autonomous-thread" /\ backend.id \in link
                        THEN [ctl EXCEPT !.pc = "reset", !.on = backend.id] ELSE NoCtl
  /\ UNCHANGED <<previous, ownThread, backend, fresh, budget, unchangedByControl>>

\* assertTeleportTargetReady, then the owner and applyBinding.
VerifyTarget ==
  /\ ctl.pc = "verify"
  /\ \/ EndControl /\ UNCHANGED owner
     \/ owner' = "telegram" /\ SetBoundThread(ctl.target, [ctl EXCEPT !.pc = "bind"])
  /\ UNCHANGED <<previous, ownThread, backend, fresh, budget, unchangedByControl>>

\* Variant: the owner is not put back.
RestoreBindingOnly ==
  UNCHANGED owner /\ SetBoundThread(ctl.old.binding, [ctl EXCEPT !.pc = "rebind"])

\* The catch of teleportToBinding: first the owner and the binding ...
RestoreBinding ==
  /\ owner' = ctl.oldOwner
  /\ SetBoundThread(ctl.old.binding, [ctl EXCEPT !.pc = "rebind"])

\* ... then the mode, which setMode leaves alone when it is the old one.
RestoreMode(c) ==
  IF mode = ctl.old.mode THEN EndControl
  ELSE SetMode(ctl.old.mode, [c EXCEPT !.pc = "remode"])

\* What a control operation does when the step it awaits is over.
ControlContinues ==
  /\ outcome["control"] # "none"
  /\ LET ok == outcome["control"] = "ok"
         attaching == ctl.kind = "attach"
     IN \/ /\ ctl.pc = "bind" /\ ok /\ attaching /\ mode # "shared-thread-resume"
           /\ SetMode("shared-thread-resume", [ctl EXCEPT !.pc = "mode"]) /\ UNCHANGED owner
        \/ /\ \/ ctl.pc = "bind" /\ mode = "shared-thread-resume"
              \/ ctl.pc = "mode"
           /\ ok /\ attaching
           /\ AwaitNothing /\ ctl' = [ctl EXCEPT !.pc = "status"] /\ UNCHANGED owner
        \/ /\ \/ ctl.pc \in {"bind", "mode"} /\ ok /\ ~attaching
              \/ ctl.pc \in {"unbind", "unmode"} /\ ~attaching
              \/ ctl.pc = "remode" /\ ok
              \/ ctl.pc = "unremode"
           /\ EndControl /\ UNCHANGED owner
        \/ /\ ctl.pc = "bind" /\ ~ok
           /\ UndoBinding([ctl EXCEPT !.pc = "unbind"]) /\ UNCHANGED owner
        \/ /\ ctl.pc = "mode" /\ ~ok
           /\ UndoMode([ctl EXCEPT !.pc = "unmode"]) /\ UNCHANGED owner
        \/ ctl.pc \in {"unbind", "unmode"} /\ attaching /\ RestoreBinding
        \/ /\ \/ ctl.pc = "rebind" /\ ok
              \/ ctl.pc = "unrebind"
           /\ RestoreMode(ctl) /\ UNCHANGED owner
        \/ /\ ctl.pc = "rebind" /\ ~ok
           /\ UndoBinding([ctl EXCEPT !.pc = "unrebind", !.broken = TRUE]) /\ UNCHANGED owner
        \/ /\ ctl.pc = "remode" /\ ~ok
           /\ UndoMode([ctl EXCEPT !.pc = "unremode", !.broken = TRUE]) /\ UNCHANGED owner
  /\ UNCHANGED <<previous, ownThread, backend, fresh, budget, unchangedByControl>>

\* The checks of teleportToBinding after the switch, against getStatus.
CheckAttached ==
  /\ ctl.pc = "status"
  /\ LET attached == /\ (IF backend.id # 0 THEN backend.mode ELSE mode) = "shared-thread-resume"
                     /\ owner = "telegram"
                     /\ (IF backend.id # 0 THEN backend.thread ELSE binding) = ctl.target
     IN IF attached
        THEN /\ previous' = IF ctl.old.binding \notin {None, ctl.target} THEN ctl.old.binding
                            ELSE previous
             /\ EndControl /\ UNCHANGED owner
        ELSE RestoreBinding /\ UNCHANGED previous
  /\ UNCHANGED <<ownThread, backend, fresh, budget, unchangedByControl>>

\* resetThread: thread/start is answered by the session it was sent over, or
\* rejected when that session's socket closes.
ResetThread ==
  /\ ctl.pc = "reset"
  /\ ctl' = NoCtl
  /\ \/ /\ backend.id = ctl.on /\ (backend.id \in link \/ step.pc = "closing")
        /\ fresh <= MaxFresh /\ fresh' = fresh + 1
        /\ ownThread' = fresh' /\ backend' = [backend EXCEPT !.thread = fresh']
     \/ UNCHANGED <<fresh, ownThread, backend>>
  /\ UNCHANGED <<settings, chain, outcome, budget, unchangedByControl>>

LifecycleStep ==
  BeginStep \/ ClosePrevious \/ PortClosed \/ SpawnCandidate \/ CandidateStarts \/ CandidateFails
ControlStep ==
  ConfirmControl \/ VerifyTarget \/ ControlContinues \/ CheckAttached \/ ResetThread

Next ==
  \/ LifecycleStep \/ BeginControl \/ ControlStep
  \/ Enqueue \/ LateCheck \/ PickTask \/ HandleMessage
  \/ \E u \in Users : \/ CheckFree(u) \/ RequestSync(u) \/ Synced(u) \/ StartTurn(u)
                      \/ ServerStep(u) \/ OutsideTurnEnds(u)
  \/ LoseBackend \/ LoseCandidate \/ RecoveryAttemptEnds

Spec == Init /\ [][Next]_vars

\* What the daemon goes on to do by itself: its lifecycle steps, one at a time,
\* and those who await them; a close, a connect and a wait for the port end,
\* because each has a time limit.
Fairness == WF_vars(LifecycleStep) /\ WF_vars(ControlStep) /\ WF_vars(RecoveryAttemptEnds)

FairSpec == Spec /\ Fairness

----------------------------------------------------------------------------
(* Properties.                                                             *)

\* The lane never has two app-servers alive: a replacement starts only when the
\* previous one has exited, whoever asked for it and whatever failed before.
OneServer == Cardinality(procs) <= 1

\* When nothing is being changed, a loaded backend is the one the stored mode
\* and binding ask for, also after an operation that failed and was undone.
\* (One failed start; if the start that undoes an operation fails too, a
\* shadow-window session stays loaded until the next sync.)
LoadedAsConfigured ==
  (chain = <<>> /\ step.pc = None /\ ctl.pc = None /\ backend.id # 0) =>
     /\ sig = [mode |-> mode, binding |-> binding]
     /\ backend.mode = mode
     /\ mode # "autonomous-thread" => backend.thread = binding

\* A user of startTurn is given the result of its own turn, although worker and
\* handoff share one pendingTurn and messages are not matched with it.
ResultIsOwn == \A u \in Users : result[u] = u

\* An attach either moves mode, binding and owner to the target, or leaves all
\* three as they were, unless a step of the restoration fails as well.
AttachIsAllOrNothing ==
  [][(ctl.kind = "attach" /\ ctl'.pc = None /\ ~ctl.broken) =>
       \/ mode' = "shared-thread-resume" /\ binding' = ctl.target /\ owner' = "telegram"
       \/ ctl.pc \in {"checked", "verify"} /\ UNCHANGED <<mode, binding, owner>>
       \/ /\ [mode |-> mode', binding |-> binding'] = ctl.old
          /\ owner' = ctl.oldOwner]_vars

\* A backend whose app-server is lost does not stay loaded: it is replaced,
\* unloaded, or the daemon stops.
LossIsRepaired == (backend.id # 0 /\ ~IsAvailable(backend)) ~> (IsAvailable(backend) \/ backend.id = 0 \/ shutdown)

\* An operation that waits for the current task to end does not take its
\* backend away: without a loss no turn is left adrift.
TurnSurvivesControl == losses = 0 => \A u \in Users : user[u] # "adrift"
=============================================================================
