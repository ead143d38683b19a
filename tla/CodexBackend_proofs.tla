------------------------ MODULE CodexBackend_proofs ------------------------
(***************************************************************************)
(* Theorems about CodexBackend, for every set of threads and every number  *)
(* of controls, turns, losses and failed starts.                           *)
(***************************************************************************)
EXTENDS CodexBackend, FiniteSetTheorems, TLAPS

Owners  == {"telegram", "desktop"}
Request == [by : Callers, force : BOOLEAN, throws : BOOLEAN]
StepPcs == {"closing", "port", "spawn", "starting"}
StepRecord ==
  [pc : StepPcs, by : Callers, force : BOOLEAN,
   throws : BOOLEAN, closed : BOOLEAN, want : Config]
BackendRecord ==
  [id : Ids, mode : Modes, thread : OwnThreads \cup {NoThread} \cup Threads,
   pending : Users \cup {None}, acked : BOOLEAN]
Message == [kind : {"ack", "reject", "done"}, of : Users]
CtlPcs ==
  {None, "checked", "verify", "bind", "unbind", "mode", "unmode", "status", "rebind",
   "unrebind", "remode", "unremode", "reset"}
CtlRecord ==
  [pc : CtlPcs,
   kind : {None, "mode", "attach", "detach", "owner", "reset"},
   mode : Modes \cup {None}, target : Bindings, undo : Modes \cup Bindings,
   old : Config \cup {NoConfig}, oldOwner : Owners \cup {None}, broken : BOOLEAN,
   on : Ids \cup {0}]

----------------------------------------------------------------------------
(* The parts of the type invariant.                                        *)

SettingsTyped ==
  mode \in Modes /\ binding \in Bindings /\ previous \in Bindings /\ owner \in Owners

ThreadsTyped == ownThread \in OwnThreads /\ fresh \in OwnThreads

\* A loaded backend has the thread of its mode.
BackendTyped ==
  \/ backend = NoBackend
  \/ /\ backend \in BackendRecord
     /\ backend.mode = "autonomous-thread" => backend.thread \in OwnThreads \cup {NoThread}
     /\ backend.mode # "autonomous-thread" => backend.thread \in Threads

\* A step that goes on to a start has a thread to start it on.
StepTyped ==
  /\ step = NoStep \/ step \in StepRecord
  /\ (step.closed \/ step.pc \in {"port", "spawn", "starting"}) =>
       \/ step.want.mode = "autonomous-thread" \/ step.want.binding \in Threads

\* There is a candidate while a step starts it: the one the step wants.
CandTyped ==
  /\ step.pc # "starting" => cand = NoBackend
  /\ step.pc = "starting" =>
       /\ cand \in BackendRecord /\ cand.mode = step.want.mode /\ cand.pending = None
       /\ cand.mode = "autonomous-thread" => cand.thread = NoThread
       /\ cand.mode # "autonomous-thread" => cand.thread = step.want.binding
       /\ cand.id # backend.id

RequestsTyped ==
  /\ sig \in Config \cup {NoConfig} /\ chain \in Seq(Request)
  /\ outcome \in [Callers -> {"none", "ok", "error"}]

ServersTyped ==
  /\ procs \in SUBSET Ids /\ link \in SUBSET Ids
  /\ server \in [Users -> {"none", "asked", "running"}]
  /\ wire \in Seq(Message)

UsersTyped ==
  /\ turns \in [Users -> Nat] /\ turns["worker"] <= MaxTurns
  /\ queued \in Nat /\ queued <= turns["worker"]
  /\ user \in [Users -> {"idle", "checked", "syncing", "synced", "cleared", "ready",
                         "waiting", "adrift", "outside"}]
  /\ result \in [Users -> Users]

\* What a control operation holds, by where it is.
CtlTyped ==
  /\ ctl \in CtlRecord /\ (ctl.pc = None => ctl.kind = None)
  /\ ctl.pc = "checked" =>
       /\ ctl.kind # None /\ ~ctl.broken
       /\ ctl.kind = "mode" => ctl.mode \in Modes
       /\ ctl.kind = "attach" => ctl.target \in Threads
  /\ ctl.pc \in {"verify", "status", "rebind", "unrebind", "remode", "unremode"} => ctl.kind = "attach"
  /\ ctl.pc = "reset" => ctl.kind = "reset"
  /\ ctl.pc \in {"bind", "unbind"} => ctl.kind \in {"attach", "detach"}
  /\ ctl.pc \in {"mode", "unmode"} => ctl.kind \in {"attach", "mode"}
  /\ (ctl.kind = "attach" /\ ctl.pc # "checked") =>
       ctl.target \in Threads /\ ctl.old \in Config /\ ctl.oldOwner \in Owners
  /\ ctl.pc \in {"bind", "unbind", "rebind", "unrebind"} => ctl.undo \in Bindings
  /\ ctl.pc \in {"mode", "unmode", "remode", "unremode"} => ctl.undo \in Modes

\* thread/start is under way on an autonomous session, if that is loaded still, and
\* no other backend is given its number.
ResetIsOfSession ==
  ctl.pc = "reset" =>
    /\ ctl.on \in Ids /\ cand.id # ctl.on
    /\ backend.id = ctl.on => backend.mode = "autonomous-thread"

RecoveryTyped == recovery \in 0..RecoveryAttempts /\ shutdown \in BOOLEAN

TypeInv ==
  /\ SettingsTyped /\ ThreadsTyped /\ BackendTyped /\ StepTyped /\ CandTyped
  /\ RequestsTyped /\ ServersTyped /\ UsersTyped /\ CtlTyped /\ ResetIsOfSession
  /\ RecoveryTyped

----------------------------------------------------------------------------
(* The parts of the other invariants.                                      *)

\* Whose app-servers are alive; and a candidate with an app-server is started only
\* when nothing is loaded, any candidate only when no app-server is.
ServersAreOwned ==
  /\ procs \subseteq {backend.id, cand.id}
  /\ backend.id \in procs => UsesAppServer(backend.mode)
  /\ cand.id \in procs => UsesAppServer(cand.mode)
  /\ step.pc = "port" => backend.id = 0
  /\ step.pc \in {"spawn", "starting"} =>
       \/ backend.id = 0
       \/ ~UsesAppServer(backend.mode) /\ ~UsesAppServer(step.want.mode)

\* The server works on the pending turn, and what it said is about that turn; the
\* message that ends the turn is the last one.
WireIsOfPending ==
  /\ \A i \in DOMAIN wire : wire[i].of = backend.pending
  /\ \A u \in Users : server[u] # "none" => backend.pending = u
  /\ \A i \in DOMAIN wire : wire[i].kind # "ack" =>
       i = Len(wire) /\ \A u \in Users : server[u] = "none"

\* Where an attach is tells what it made of mode, binding and owner.
AttachAgrees ==
  (ctl.kind = "attach" /\ ~ctl.broken) =>
    /\ ctl.pc \in {"verify", "bind", "unbind", "unmode", "remode"} => mode = ctl.old.mode
    /\ ctl.pc \in {"mode", "status"} => mode = "shared-thread-resume"
    /\ ctl.pc \in {"verify", "unbind", "rebind", "remode"} => binding = ctl.old.binding
    /\ ctl.pc \in {"bind", "mode", "unmode", "status"} => binding = ctl.target
    /\ ctl.pc \in {"verify", "rebind", "remode"} => owner = ctl.oldOwner
    /\ ctl.pc \in {"bind", "mode", "status"} => owner = "telegram"
    /\ ctl.pc = "bind" => ctl.undo = ctl.old.binding
    /\ ctl.pc = "mode" => ctl.undo = ctl.old.mode
    /\ ctl.pc \notin {"unrebind", "unremode"}

----------------------------------------------------------------------------
(* Which actions change what.                                              *)

LEMMA SettingsMove ==
  ASSUME [Next]_vars
  PROVE  \/ UNCHANGED settings
         \/ ConfirmControl \/ VerifyTarget \/ ControlContinues \/ CheckAttached
BY DEF Next, vars, LifecycleStep, ControlStep, settings, BeginStep, ClosePrevious,
       PortClosed, SpawnCandidate, CandidateStarts, CandidateFails, BeginControl,
       ResetThread, Enqueue, LateCheck, PickTask, HandleMessage, CheckFree, RequestSync,
       Synced, StartTurn, ServerStep, OutsideTurnEnds, LoseBackend, LoseCandidate,
       RecoveryAttemptEnds

LEMMA ThreadsMove ==
  ASSUME [Next]_vars
  PROVE  \/ UNCHANGED <<ownThread, fresh>>
         \/ CandidateStarts \/ ResetThread
BY DEF Next, vars, LifecycleStep, ControlStep, BeginStep, ClosePrevious, PortClosed,
       SpawnCandidate, CandidateFails, BeginControl, ConfirmControl, VerifyTarget,
       ControlContinues, CheckAttached, Enqueue, LateCheck, PickTask, HandleMessage,
       CheckFree, RequestSync, Synced, StartTurn, ServerStep, OutsideTurnEnds, LoseBackend,
       LoseCandidate, RecoveryAttemptEnds

LEMMA BackendMoves ==
  ASSUME [Next]_vars
  PROVE  \/ UNCHANGED backend
         \/ ClosePrevious \/ CandidateStarts \/ HandleMessage \/ LoseBackend \/ ResetThread
         \/ \E u \in Users : StartTurn(u)
BY DEF Next, vars, LifecycleStep, ControlStep, BeginStep, PortClosed, SpawnCandidate,
       CandidateFails, BeginControl, ConfirmControl, VerifyTarget, ControlContinues,
       CheckAttached, Enqueue, LateCheck, PickTask, CheckFree, RequestSync, Synced,
       ServerStep, OutsideTurnEnds, LoseCandidate, RecoveryAttemptEnds

LEMMA StepMoves ==
  ASSUME [Next]_vars
  PROVE  \/ UNCHANGED step
         \/ BeginStep \/ ClosePrevious \/ PortClosed \/ SpawnCandidate \/ CandidateStarts
         \/ CandidateFails
BY DEF Next, vars, LifecycleStep, ControlStep, lifecycle, unchangedByControl, BeginControl,
       ConfirmControl, VerifyTarget, ControlContinues, CheckAttached, ResetThread, Enqueue,
       LateCheck, PickTask, HandleMessage, CheckFree, RequestSync, Synced, StartTurn,
       ServerStep, OutsideTurnEnds, LoseBackend, LoseCandidate, RecoveryAttemptEnds

LEMMA CandMoves ==
  ASSUME [Next]_vars
  PROVE  \/ UNCHANGED cand
         \/ SpawnCandidate \/ CandidateStarts \/ CandidateFails
BY DEF Next, vars, LifecycleStep, ControlStep, lifecycle, unchangedByControl, BeginStep,
       ClosePrevious, PortClosed, BeginControl, ConfirmControl, VerifyTarget,
       ControlContinues, CheckAttached, ResetThread, Enqueue, LateCheck, PickTask,
       HandleMessage, CheckFree, RequestSync, Synced, StartTurn, ServerStep, OutsideTurnEnds,
       LoseBackend, LoseCandidate, RecoveryAttemptEnds

LEMMA SigMoves ==
  ASSUME [Next]_vars
  PROVE  \/ UNCHANGED sig
         \/ BeginStep \/ ClosePrevious \/ CandidateStarts
BY DEF Next, vars, LifecycleStep, ControlStep, lifecycle, unchangedByControl, PortClosed,
       SpawnCandidate, CandidateFails, BeginControl, ConfirmControl, VerifyTarget,
       ControlContinues, CheckAttached, ResetThread, Enqueue, LateCheck, PickTask,
       HandleMessage, CheckFree, RequestSync, Synced, StartTurn, ServerStep, OutsideTurnEnds,
       LoseBackend, LoseCandidate, RecoveryAttemptEnds

LEMMA RequestsMove ==
  ASSUME [Next]_vars
  PROVE  \/ UNCHANGED <<chain, outcome>>
         \/ BeginStep \/ ClosePrevious \/ PortClosed \/ CandidateStarts \/ CandidateFails
         \/ LoseBackend \/ LoseCandidate \/ RecoveryAttemptEnds \/ ConfirmControl
         \/ VerifyTarget \/ ControlContinues \/ CheckAttached
         \/ \E u \in Users : RequestSync(u) \/ Synced(u)
BY DEF Next, vars, LifecycleStep, ControlStep, SpawnCandidate, BeginControl, ResetThread,
       Enqueue, LateCheck, PickTask, HandleMessage, CheckFree, StartTurn, ServerStep,
       OutsideTurnEnds

LEMMA ServersMove ==
  ASSUME [Next]_vars
  PROVE  \/ UNCHANGED servers
         \/ BeginStep \/ ClosePrevious \/ SpawnCandidate \/ CandidateStarts
         \/ CandidateFails \/ HandleMessage \/ LoseBackend \/ LoseCandidate
         \/ \E u \in Users : StartTurn(u) \/ ServerStep(u)
BY DEF Next, vars, LifecycleStep, ControlStep, servers, unchangedByControl, PortClosed,
       BeginControl, ConfirmControl, VerifyTarget, ControlContinues, CheckAttached,
       ResetThread, Enqueue, LateCheck, PickTask, CheckFree, RequestSync, Synced,
       OutsideTurnEnds, RecoveryAttemptEnds

LEMMA UsersMove ==
  ASSUME [Next]_vars
  PROVE  \/ UNCHANGED <<turns, users>>
         \/ ClosePrevious \/ CandidateStarts \/ Enqueue \/ LateCheck \/ PickTask
         \/ HandleMessage \/ LoseBackend
         \/ \E u \in Users : CheckFree(u) \/ RequestSync(u) \/ Synced(u) \/ StartTurn(u) \/ OutsideTurnEnds(u)
BY DEF Next, vars, LifecycleStep, ControlStep, users, unchangedByControl, budget, BeginStep,
       PortClosed, SpawnCandidate, CandidateFails, BeginControl, ConfirmControl,
       VerifyTarget, ControlContinues, CheckAttached, ResetThread, ServerStep, LoseCandidate,
       RecoveryAttemptEnds

LEMMA CtlMoves ==
  ASSUME [Next]_vars
  PROVE  \/ UNCHANGED ctl
         \/ BeginControl \/ ConfirmControl \/ VerifyTarget \/ ControlContinues
         \/ CheckAttached \/ ResetThread
BY DEF Next, vars, LifecycleStep, ControlStep, BeginStep, ClosePrevious, PortClosed,
       SpawnCandidate, CandidateStarts, CandidateFails, Enqueue, LateCheck, PickTask,
       HandleMessage, CheckFree, RequestSync, Synced, StartTurn, ServerStep, OutsideTurnEnds,
       LoseBackend, LoseCandidate, RecoveryAttemptEnds

LEMMA RecoveryMoves ==
  ASSUME [Next]_vars
  PROVE  \/ UNCHANGED <<recovery, shutdown>>
         \/ LoseBackend \/ LoseCandidate \/ RecoveryAttemptEnds
BY DEF Next, vars, LifecycleStep, ControlStep, unchangedByControl, BeginStep, ClosePrevious,
       PortClosed, SpawnCandidate, CandidateStarts, CandidateFails, BeginControl,
       ConfirmControl, VerifyTarget, ControlContinues, CheckAttached, ResetThread, Enqueue,
       LateCheck, PickTask, HandleMessage, CheckFree, RequestSync, Synced, StartTurn,
       ServerStep, OutsideTurnEnds

----------------------------------------------------------------------------
(* Type correctness.                                                       *)

\* The record of a control operation that has ended.
LEMMA NoCtlTyped == ASSUME NEW c, c = NoCtl PROVE c \in CtlRecord /\ c.pc = None /\ c.kind = None
BY Zenon DEF NoCtl, CtlRecord, CtlPcs, Bindings, Owners

LEMMA InitTyped == Init => TypeInv
<1> SUFFICES ASSUME Init PROVE TypeInv
  OBVIOUS
<1> USE BackendAssumption
<1>1. SettingsTyped /\ ThreadsTyped
  BY DEF Init, SettingsTyped, ThreadsTyped, OwnThreads, Bindings, Owners
<1>2. BackendTyped
  <2> DEFINE t == IF mode = "autonomous-thread" THEN ownThread ELSE binding
  <2>1. 1 \in Ids /\ mode \in Modes /\ t \in OwnThreads \cup {NoThread} \cup Threads
    BY DEF Init, Ids, OwnThreads
  <2>2. [NoBackend EXCEPT !.id = 1, !.mode = mode, !.thread = t] \in BackendRecord
    BY <2>1, Zenon DEF NoBackend, BackendRecord
  <2>3. backend = [NoBackend EXCEPT !.id = 1, !.mode = mode, !.thread = t]
    BY Zenon DEF Init
  <2>4. backend.mode = mode /\ backend.thread = t
    BY <2>3, Zenon DEF NoBackend
  <2> QED
    BY <2>2, <2>3, <2>4 DEF Init, BackendTyped, OwnThreads
<1>3. StepTyped /\ CandTyped
  BY DEF Init, StepTyped, CandTyped, NoStep, None
<1>4. RequestsTyped
  BY DEF Init, RequestsTyped, Config, Bindings
<1>5. ServersTyped
  BY DEF Init, ServersTyped, Ids
<1>6. UsersTyped
  BY DEF Init, UsersTyped, Users
<1>7. CtlTyped
  BY NoCtlTyped DEF Init, CtlTyped, None
<1>8. ResetIsOfSession /\ recovery \in 0..RecoveryAttempts
  BY DEF Init, ResetIsOfSession, NoCtl, None
<1>9. shutdown \in BOOLEAN
  BY Zenon DEF Init
<1> QED
  BY <1>1, <1>2, <1>3, <1>4, <1>5, <1>6, <1>7, <1>8, <1>9 DEF TypeInv, RecoveryTyped


\* Settings and requests of the control operations.
LEMMA SettingsTypedStep == TypeInv /\ [Next]_vars => SettingsTyped'
<1> SUFFICES ASSUME TypeInv, [Next]_vars PROVE SettingsTyped'
  OBVIOUS
<1>0. SettingsTyped /\ CtlTyped
  BY DEF TypeInv
<1>1. CASE UNCHANGED settings
  BY <1>0, <1>1 DEF SettingsTyped, settings
<1>2. CASE ConfirmControl
  BY <1>0, <1>2 DEF ConfirmControl, EndControl, AwaitNothing, SetMode, SetBoundThread,
                    SettingsTyped, CtlTyped, Owners, Bindings
<1>3. CASE VerifyTarget
  BY <1>0, <1>3 DEF VerifyTarget, EndControl, AwaitNothing, SetBoundThread,
                    SettingsTyped, CtlTyped, Owners, Bindings, None
<1>4. CASE ControlContinues
  BY <1>0, <1>4 DEF ControlContinues, EndControl, AwaitNothing, SetMode, SetBoundThread,
                    UndoMode, UndoBinding, RestoreMode, RestoreBinding,
                    SettingsTyped, CtlTyped, Owners, Bindings, Config, Modes, AppModes
<1>5. CASE CheckAttached
  BY <1>0, <1>5 DEF CheckAttached, EndControl, AwaitNothing, SetBoundThread, RestoreBinding,
                    SettingsTyped, CtlTyped, Owners, Bindings, Config
<1> QED
  BY <1>1, <1>2, <1>3, <1>4, <1>5, SettingsMove

LEMMA ThreadsTypedStep == TypeInv /\ [Next]_vars => ThreadsTyped'
BY ThreadsMove, BackendAssumption
   DEF TypeInv, ThreadsTyped, CandidateStarts, ResetThread, InitializeThread, OwnThreads

LEMMA NoBackendFields ==
  /\ NoBackend.id = 0 /\ NoBackend.pending = None /\ NoBackend.mode = None
  /\ NoBackend.thread = NoThread
BY DEF NoBackend

\* The pending turn of a backend is set, acknowledged or gone.
TurnChanges(b, c) ==
  \/ c = [b EXCEPT !.acked = TRUE]
  \/ c = [b EXCEPT !.pending = None]
  \/ \E u \in Users \cup {None} : c = [b EXCEPT !.pending = u, !.acked = FALSE]

LEMMA TurnChangesRecord ==
  ASSUME NEW b \in BackendRecord, NEW c, TurnChanges(b, c)
  PROVE  c \in BackendRecord /\ c.id = b.id /\ c.mode = b.mode /\ c.thread = b.thread
BY Zenon DEF BackendRecord, TurnChanges

LEMMA ThreadRecord ==
  ASSUME NEW b \in BackendRecord, NEW t \in OwnThreads \cup {NoThread} \cup Threads
  PROVE  /\ [b EXCEPT !.thread = t] \in BackendRecord
         /\ [b EXCEPT !.thread = t].thread = t
         /\ [b EXCEPT !.thread = t].id = b.id
         /\ [b EXCEPT !.thread = t].mode = b.mode
         /\ [b EXCEPT !.thread = t].pending = b.pending
BY Zenon DEF BackendRecord

\* Between its start and its close a backend keeps number, mode and thread, but for the
\* thread that a reset gives it.
LEMMA BackendIdStays ==
  ASSUME TypeInv, HandleMessage \/ LoseBackend \/ ResetThread \/ \E u \in Users : StartTurn(u)
  PROVE  /\ backend'.id = backend.id /\ backend'.mode = backend.mode
         /\ ~ResetThread => backend'.thread = backend.thread
         /\ ResetThread => backend'.pending = backend.pending
         /\ ~ResetThread => UNCHANGED backend \/ TurnChanges(backend, backend')
         /\ backend' # backend => backend.id # 0 /\ backend \in BackendRecord
<1>0. BackendTyped /\ ResetIsOfSession
  BY DEF TypeInv
<1>1. backend.id # 0 => backend \in BackendRecord
  BY <1>0, NoBackendFields DEF BackendTyped
<1>2. CASE ~ResetThread /\ (HandleMessage \/ LoseBackend \/ \E u \in Users : StartTurn(u))
  <2>1. UNCHANGED backend \/ (backend.id # 0 /\ TurnChanges(backend, backend'))
    <3>1. CASE HandleMessage
      <4>1. CASE backend.pending = None
        BY <3>1, <4>1 DEF HandleMessage
      <4>2. CASE backend.pending # None
        <5>1. backend.id # 0
          BY <1>0, <4>2, NoBackendFields DEF BackendTyped, BackendRecord, Ids
        <5> QED
          BY <3>1, <4>2, <5>1, Zenon DEF HandleMessage, TurnChanges
      <4> QED
        BY <4>1, <4>2
    <3>2. CASE LoseBackend
      BY <3>2, Zenon DEF LoseBackend, IsAvailable, TurnChanges
    <3>3. CASE \E u \in Users : StartTurn(u)
      BY <3>3, Zenon DEF StartTurn, CanStartTurn, TurnChanges
    <3> QED
      BY <1>2, <3>1, <3>2, <3>3
  <2> QED
    BY <1>1, <1>2, <2>1, TurnChangesRecord
<1>3. CASE ResetThread
  <2>1. CASE UNCHANGED backend
    BY <2>1
  <2>2. CASE backend' # backend
    <3>1. /\ backend.id = ctl.on /\ backend' = [backend EXCEPT !.thread = fresh']
          /\ ctl.pc = "reset"
      BY <1>3, <2>2 DEF ResetThread
    <3>2. backend \in BackendRecord /\ backend.id # 0
      BY <1>0, <1>1, <3>1 DEF ResetIsOfSession, Ids
    <3> QED
      BY <1>3, <3>1, <3>2 DEF BackendRecord
  <2> QED
    BY <2>1, <2>2
<1> QED
  BY <1>2, <1>3

\* The loaded backend is the candidate with its thread.
LEMMA CandidateLoaded ==
  ASSUME TypeInv, CandidateStarts, ThreadsTyped'
  PROVE  /\ cand \in BackendRecord /\ backend' \in BackendRecord
         /\ backend'.id = cand.id /\ backend'.mode = step.want.mode /\ backend'.pending = None
         /\ backend'.mode = "autonomous-thread" => backend'.thread \in OwnThreads
         /\ backend'.mode # "autonomous-thread" =>
              backend'.thread = step.want.binding /\ backend'.thread \in Threads
<1> DEFINE t == IF cand.mode = "autonomous-thread" THEN ownThread' ELSE cand.thread
<1>1. CandTyped /\ StepTyped /\ step.pc = "starting"
  BY DEF TypeInv, CandidateStarts
<1>2. cand \in BackendRecord /\ t \in OwnThreads \cup {NoThread} \cup Threads
  BY <1>1 DEF CandTyped, ThreadsTyped, BackendRecord
<1>3. backend' = [cand EXCEPT !.thread = t]
  BY Zenon DEF CandidateStarts
<1>4. /\ cand.mode = step.want.mode /\ cand.pending = None
      /\ cand.mode # "autonomous-thread" =>
           cand.thread = step.want.binding /\ cand.thread \in Threads
  BY <1>1 DEF CandTyped, StepTyped
<1>5. cand.mode = "autonomous-thread" => t \in OwnThreads
  BY DEF ThreadsTyped
<1> QED
  BY <1>2, <1>3, <1>4, <1>5, ThreadRecord

LEMMA BackendTypedStep == TypeInv /\ [Next]_vars => BackendTyped'
<1> SUFFICES ASSUME TypeInv, [Next]_vars PROVE BackendTyped'
  OBVIOUS
<1>0. BackendTyped /\ CandTyped /\ StepTyped /\ ResetIsOfSession /\ ThreadsTyped /\ ThreadsTyped'
  BY ThreadsTypedStep DEF TypeInv
<1>1. CASE UNCHANGED backend
  BY <1>0, <1>1 DEF BackendTyped
<1>2. CASE ClosePrevious
  BY <1>2 DEF ClosePrevious, BackendTyped
<1>3. CASE CandidateStarts
  BY <1>0, <1>3, CandidateLoaded DEF BackendTyped
<1>4. CASE ~ResetThread /\ (HandleMessage \/ LoseBackend \/ \E u \in Users : StartTurn(u))
  <2>1. /\ backend'.mode = backend.mode /\ backend'.thread = backend.thread
        /\ UNCHANGED backend \/ TurnChanges(backend, backend')
        /\ backend' # backend => backend \in BackendRecord /\ backend.id # 0
    BY <1>4, BackendIdStays
  <2>2. backend' # backend => backend' \in BackendRecord
    BY <2>1, TurnChangesRecord
  <2> QED
    BY <1>0, <2>1, <2>2, NoBackendFields DEF BackendTyped
<1>5. CASE ResetThread
  <2>1. CASE UNCHANGED backend
    BY <1>0, <2>1 DEF BackendTyped
  <2>2. CASE backend' # backend
    <3>1. /\ backend.id = ctl.on /\ backend' = [backend EXCEPT !.thread = fresh']
          /\ ctl.pc = "reset"
      BY <1>5, <2>2 DEF ResetThread
    <3>2. backend.id # 0 /\ backend.mode = "autonomous-thread"
      BY <1>0, <3>1 DEF ResetIsOfSession, Ids
    <3>3. backend \in BackendRecord /\ fresh' \in OwnThreads
      BY <1>0, <3>2, NoBackendFields DEF BackendTyped, ThreadsTyped
    <3> QED
      BY <3>1, <3>2, <3>3, ThreadRecord DEF BackendTyped
  <2> QED
    BY <2>1, <2>2
<1> QED
  BY <1>1, <1>2, <1>3, <1>4, <1>5, BackendMoves

\* A step keeps what it was begun with.
Begins(r, w, p, s) ==
  \E b \in {[NoStep EXCEPT !.by = r.by, !.force = r.force, !.throws = r.throws, !.want = w]} :
    s = [b EXCEPT !.pc = p] \/ \E c \in BOOLEAN : s = [b EXCEPT !.pc = p, !.closed = c]

LEMMA BegunRecord ==
  ASSUME NEW r \in Request, NEW w \in Config, NEW p \in StepPcs, NEW s, Begins(r, w, p, s)
  PROVE  s \in StepRecord /\ s.pc = p /\ s.by = r.by /\ s.throws = r.throws /\ s.want = w
<1>1. r.by \in Callers /\ r.force \in BOOLEAN /\ r.throws \in BOOLEAN
  BY Zenon DEF Request
<1> QED
  BY <1>1, ZenonT(40) DEF Begins, NoStep, StepRecord

LEMMA StepRecordMoves ==
  ASSUME NEW s \in StepRecord, NEW p \in StepPcs
  PROVE  /\ [s EXCEPT !.pc = p] \in StepRecord
         /\ [s EXCEPT !.pc = p].pc = p
         /\ [s EXCEPT !.pc = p].by = s.by
         /\ [s EXCEPT !.pc = p].closed = s.closed
         /\ [s EXCEPT !.pc = p].want = s.want
         /\ [s EXCEPT !.pc = p].throws = s.throws
BY Zenon DEF StepRecord

LEMMA NoStepFields ==
  ASSUME NEW s, s = NoStep
  PROVE  s.pc = None /\ s.closed = FALSE /\ s.want = NoConfig /\ s \notin StepRecord
<1>1. s.pc = None /\ s.closed = FALSE /\ s.want = NoConfig
  BY Zenon DEF NoStep
<1>2. \A r \in StepRecord : r.pc # None
  BY DEF StepRecord, StepPcs, None
<1> QED
  BY <1>1, <1>2

\* What BeginStep makes of the step.
LEMMA StepBegun ==
  ASSUME TypeInv, BeginStep
  PROVE  LET want == [mode |-> mode, binding |-> binding]
             r == Head(chain)
         IN  /\ r \in Request /\ want \in Config /\ step = NoStep
             /\ \/ UNCHANGED step
                \/ /\ step' \in StepRecord /\ step'.want = want /\ step'.by = r.by
                   /\ \/ /\ step'.pc = "closing" /\ backend.id # 0 /\ link' = link \ {backend.id}
                         /\ step'.closed <=> (mode = "autonomous-thread" \/ binding # None)
                      \/ /\ step'.pc = "spawn" /\ ~Exclusive /\ UNCHANGED link
                         /\ mode = "autonomous-thread" \/ binding # None
<1> DEFINE want == [mode |-> mode, binding |-> binding]
           r == Head(chain)
           begun == [NoStep EXCEPT !.by = r.by, !.force = r.force, !.throws = r.throws,
                                   !.want = want]
           unbound == mode # "autonomous-thread" /\ binding = None
<1>1. chain \in Seq(Request) /\ chain # <<>> /\ mode \in Modes /\ binding \in Bindings
  BY DEF TypeInv, RequestsTyped, SettingsTyped, BeginStep
<1>2. r \in Request /\ want \in Config
  BY <1>1 DEF Config
<1>3. step = NoStep
  BY Zenon DEF TypeInv, StepTyped, BeginStep, StepRecord, StepPcs, None
<1>4. \/ UNCHANGED step
      \/ /\ step' = [begun EXCEPT !.pc = "closing", !.closed = ~unbound]
         /\ backend.id # 0 /\ link' = link \ {backend.id}
      \/ step' = [begun EXCEPT !.pc = "spawn"] /\ ~Exclusive /\ ~unbound /\ UNCHANGED link
  BY Zenon DEF BeginStep, Exclusive
<1>5. begun = [NoStep EXCEPT !.by = r.by, !.force = r.force, !.throws = r.throws, !.want = want]
  OBVIOUS
<1>6. unbound <=> ~(mode = "autonomous-thread" \/ binding # None)
  BY Zenon
<1> HIDE DEF begun, want, r, unbound
<1>7. ASSUME step' = [begun EXCEPT !.pc = "closing", !.closed = ~unbound]
      PROVE  /\ step' \in StepRecord /\ step'.want = want /\ step'.pc = "closing"
             /\ step'.by = r.by
             /\ step'.closed <=> (mode = "autonomous-thread" \/ binding # None)
  <2>1. (~unbound) \in BOOLEAN /\ "closing" \in StepPcs
    BY Zenon DEF StepPcs
  <2>2. Begins(r, want, "closing", step')
    BY <1>5, <1>7, <2>1, Zenon DEF Begins
  <2>3. step'.closed <=> ~unbound
    BY <1>5, <1>7, Zenon DEF NoStep
  <2> QED
    BY <1>2, <1>6, <2>1, <2>2, <2>3, BegunRecord
<1>8. ASSUME step' = [begun EXCEPT !.pc = "spawn"]
      PROVE  step' \in StepRecord /\ step'.want = want /\ step'.pc = "spawn" /\ step'.by = r.by
  <2>1. Begins(r, want, "spawn", step') /\ "spawn" \in StepPcs
    BY <1>5, <1>8, Zenon DEF Begins, StepPcs
  <2> QED
    BY <1>2, <2>1, BegunRecord
<1> QED
  BY <1>2, <1>3, <1>4, <1>6, <1>7, <1>8, Zenon DEF want, r

LEMMA StepTypedStep == TypeInv /\ [Next]_vars => StepTyped'
<1> SUFFICES ASSUME TypeInv, [Next]_vars PROVE StepTyped'
  OBVIOUS
<1>0. StepTyped /\ SettingsTyped
  BY DEF TypeInv
<1>1. CASE UNCHANGED step
  BY <1>0, <1>1 DEF StepTyped
<1>2. CASE BeginStep
  <2>1. step' = NoStep => StepTyped'
    BY NoStepFields, Zenon DEF StepTyped, None
  <2> QED
    BY <1>0, <1>2, <2>1, StepBegun DEF StepTyped, SettingsTyped, Bindings
<1>3. CASE ClosePrevious \/ PortClosed \/ SpawnCandidate
  <2>1. step \in StepRecord
    BY <1>0, <1>3, NoStepFields DEF StepTyped, ClosePrevious, PortClosed, SpawnCandidate, None
  <2>2. \/ step' = NoStep
        \/ \E p \in StepPcs \ {"closing"} : step' = [step EXCEPT !.pc = p]
    BY <1>3, Zenon DEF ClosePrevious, PortClosed, SpawnCandidate, Finish, StepPcs
  <2>3. step' # NoStep => step.closed \/ step.pc \in {"port", "spawn", "starting"}
    BY <1>3, Zenon DEF ClosePrevious, PortClosed, SpawnCandidate, Finish
  <2>4. step' = NoStep => StepTyped'
    BY NoStepFields, Zenon DEF StepTyped, None
  <2>5. step' # NoStep => step' \in StepRecord /\ step'.want = step.want
    <3> SUFFICES ASSUME step' # NoStep PROVE step' \in StepRecord /\ step'.want = step.want
      OBVIOUS
    <3>1. PICK p \in StepPcs : step' = [step EXCEPT !.pc = p]
      BY <2>2
    <3> QED
      BY <2>1, <3>1, Zenon DEF StepRecord
  <2> QED
    BY <1>0, <2>3, <2>4, <2>5 DEF StepTyped
<1>4. CASE CandidateStarts \/ CandidateFails
  <2>1. step' = NoStep
    BY <1>4 DEF CandidateStarts, CandidateFails, Finish
  <2> QED
    BY <2>1, NoStepFields, Zenon DEF StepTyped, None
<1> QED
  BY <1>1, <1>2, <1>3, <1>4, StepMoves

\* The number SpawnCandidate gives is a free one.
LEMMA FreshId ==
  ASSUME TypeInv, ServersAreOwned, SpawnCandidate
  PROVE  LET m == step.want.mode
         IN  /\ cand' \in BackendRecord /\ cand'.mode = m /\ cand'.pending = None
             /\ cand'.thread = IF m = "autonomous-thread" THEN NoThread ELSE step.want.binding
             /\ cand'.id \notin procs \cup {backend.id, ctl.on}
             /\ procs' = IF UsesAppServer(m) THEN procs \cup {cand'.id} ELSE procs
             /\ step' = [step EXCEPT !.pc = "starting"] /\ step \in StepRecord
<1> DEFINE m == step.want.mode
           t == IF m = "autonomous-thread" THEN NoThread ELSE step.want.binding
           id == CHOOSE i \in Ids : i \notin procs \cup {backend.id, ctl.on}
<1>1. step \in StepRecord /\ step.pc = "spawn" /\ cand = NoBackend
  BY NoStepFields DEF TypeInv, StepTyped, CandTyped, SpawnCandidate, None
<1>2. m \in Modes /\ t \in OwnThreads \cup {NoThread} \cup Threads
  BY <1>1 DEF TypeInv, StepTyped, StepRecord, Config
<1>3. procs \subseteq {backend.id, 0}
  BY <1>1, NoBackendFields DEF ServersAreOwned
<1>4. \E i \in Ids : i \notin procs \cup {backend.id, ctl.on}
  <2>1. PICK i \in {1, 2, 3} : i # backend.id /\ i # ctl.on
    OBVIOUS
  <2> QED
    BY <1>3, <2>1 DEF Ids
<1>5. id \in Ids /\ id \notin procs \cup {backend.id, ctl.on}
  BY <1>4
<1>6. cand' = [NoBackend EXCEPT !.id = id, !.mode = m, !.thread = t]
  BY Zenon DEF SpawnCandidate
<1>7. /\ procs' = IF UsesAppServer(m) THEN procs \cup {id} ELSE procs
      /\ step' = [step EXCEPT !.pc = "starting"]
  BY Zenon DEF SpawnCandidate
<1> HIDE DEF id, m, t
<1>8. cand' \in BackendRecord /\ cand'.id = id /\ cand'.mode = m /\ cand'.thread = t /\ cand'.pending = None
  BY <1>2, <1>5, <1>6, Zenon DEF NoBackend, BackendRecord
<1> QED
  BY <1>1, <1>5, <1>7, <1>8 DEF m, t

LEMMA CandTypedStep == TypeInv /\ ServersAreOwned /\ [Next]_vars => CandTyped'
<1> SUFFICES ASSUME TypeInv, ServersAreOwned, [Next]_vars PROVE CandTyped'
  OBVIOUS
<1>0. CandTyped /\ StepTyped /\ BackendTyped
  BY DEF TypeInv
<1>1. CASE SpawnCandidate
  <2>1. step'.pc = "starting" /\ step'.want = step.want /\ UNCHANGED backend
    BY <1>1, FreshId, StepRecordMoves DEF SpawnCandidate, StepPcs
  <2> QED
    BY <1>1, <2>1, FreshId DEF CandTyped
<1>2. CASE CandidateStarts \/ CandidateFails
  <2>1. cand' = NoBackend /\ step' = NoStep
    BY <1>2 DEF CandidateStarts, CandidateFails, InitializeThread, Finish
  <2> QED
    BY <2>1, NoStepFields DEF CandTyped, None
<1>3. CASE UNCHANGED cand /\ UNCHANGED step
  <2>1. step.pc = "starting" => ~ClosePrevious /\ ~CandidateStarts
    BY <1>0, <1>3, NoBackendFields DEF CandTyped, ClosePrevious, CandidateStarts, InitializeThread,
       BackendRecord, Ids
  <2>2. step.pc = "starting" => backend'.id = backend.id
    BY <1>0, <2>1, BackendMoves, BackendIdStays
  <2> QED
    BY <1>0, <1>3, <2>2 DEF CandTyped
<1>4. CASE BeginStep \/ ClosePrevious \/ PortClosed
  <2>1. step.pc # "starting" /\ UNCHANGED cand
    BY <1>4 DEF BeginStep, ClosePrevious, PortClosed, None
  <2>2. step'.pc # "starting"
    <3>1. CASE BeginStep
      BY <3>1, StepBegun, <2>1
    <3>2. CASE ClosePrevious \/ PortClosed
      <4>1. step \in StepRecord
        BY <1>0, <3>2, NoStepFields DEF StepTyped, ClosePrevious, PortClosed, None
      <4> QED
        BY <3>2, <4>1, NoStepFields, StepRecordMoves
           DEF ClosePrevious, PortClosed, Finish, StepPcs, None
    <3> QED
      BY <1>4, <3>1, <3>2
  <2> QED
    BY <1>0, <2>1, <2>2 DEF CandTyped
<1> QED
  BY <1>1, <1>2, <1>3, <1>4, CandMoves, StepMoves

\* What is asked of the chain, and what a step tells its caller.
ChainTyped == chain \in Seq(Request) /\ outcome \in [Callers -> {"none", "ok", "error"}]

LEMMA SyncTyped ==
  ASSUME ChainTyped,
         \E c \in Callers : Sync(c, TRUE, TRUE) \/ Sync(c, TRUE, FALSE) \/ Sync(c, FALSE, FALSE)
  PROVE  ChainTyped'
<1>1. PICK c \in Callers : Sync(c, TRUE, TRUE) \/ Sync(c, TRUE, FALSE) \/ Sync(c, FALSE, FALSE)
  OBVIOUS
<1>2. /\ [by |-> c, force |-> TRUE, throws |-> TRUE] \in Request
      /\ [by |-> c, force |-> TRUE, throws |-> FALSE] \in Request
      /\ [by |-> c, force |-> FALSE, throws |-> FALSE] \in Request
  BY Zenon DEF Request
<1>3. \E r \in Request : chain' = Append(chain, r)
  BY <1>1, <1>2, Zenon DEF Sync
<1>4. outcome' = [outcome EXCEPT ![c] = "none"]
  BY <1>1, Zenon DEF Sync
<1> QED
  BY <1>3, <1>4 DEF ChainTyped

LEMMA RequestsTypedStep == TypeInv /\ [Next]_vars => RequestsTyped'
<1> SUFFICES ASSUME TypeInv, [Next]_vars PROVE RequestsTyped'
  OBVIOUS
<1>0. RequestsTyped /\ ChainTyped /\ StepTyped /\ SettingsTyped
  BY DEF TypeInv, RequestsTyped, ChainTyped
<1>1. sig' \in Config \cup {NoConfig}
  BY <1>0, SigMoves DEF RequestsTyped, StepTyped, SettingsTyped, BeginStep, ClosePrevious,
     CandidateStarts, Config, StepRecord, NoStep, None
<1>2. ChainTyped'
  <2>1. CASE UNCHANGED <<chain, outcome>>
    BY <1>0, <2>1 DEF ChainTyped
  <2>2. CASE BeginStep
    <3>1. Head(chain) \in Request /\ Tail(chain) \in Seq(Request) /\ Head(chain).by \in Callers
      <4>1. chain # <<>>
        BY <2>2, Zenon DEF BeginStep
      <4>2. Head(chain) \in Request /\ Tail(chain) \in Seq(Request)
        BY <1>0, <4>1 DEF ChainTyped
      <4> QED
        BY <4>2, Zenon DEF Request
    <3>2. /\ chain' = Tail(chain)
          /\ UNCHANGED outcome \/ outcome' = [outcome EXCEPT ![Head(chain).by] = "ok"]
      BY <2>2, Zenon DEF BeginStep
    <3> QED
      BY <1>0, <3>1, <3>2 DEF ChainTyped
  <2>3. CASE ClosePrevious \/ PortClosed \/ CandidateStarts \/ CandidateFails
    <3>1. UNCHANGED chain
      BY <2>3, Zenon DEF ClosePrevious, PortClosed, CandidateStarts, CandidateFails
    <3>2. UNCHANGED outcome \/ \E res \in {"ok", "error"} : outcome' = [outcome EXCEPT ![step.by] = res]
      BY <2>3, Zenon DEF ClosePrevious, PortClosed, CandidateStarts, CandidateFails, Finish
    <3>3. step.by \in Callers
      BY <1>0, <2>3, NoStepFields
         DEF StepTyped, StepRecord, ClosePrevious, PortClosed, CandidateStarts, CandidateFails, None
    <3> QED
      BY <1>0, <3>1, <3>2, <3>3 DEF ChainTyped
  <2>4. CASE LoseBackend \/ LoseCandidate \/ RecoveryAttemptEnds
    <3>1. \/ UNCHANGED <<chain, outcome>>
          \/ Sync("recovery", TRUE, TRUE)
          \/ UNCHANGED chain /\ outcome' = [outcome EXCEPT !["recovery"] = "none"]
      BY <2>4, Zenon DEF LoseBackend, LoseCandidate, RecoveryAttemptEnds, BackendUnavailable
    <3>2. "recovery" \in Callers
      BY DEF Callers
    <3> QED
      BY <1>0, <3>1, <3>2, SyncTyped DEF ChainTyped
  <2>5. CASE ConfirmControl \/ VerifyTarget \/ ControlContinues \/ CheckAttached
    <3>1. AwaitNothing \/ Sync("control", TRUE, TRUE) \/ Sync("control", TRUE, FALSE)
      BY <2>5, Zenon
         DEF ConfirmControl, VerifyTarget, ControlContinues, CheckAttached, EndControl, SetMode,
             SetBoundThread, UndoMode, UndoBinding, RestoreMode, RestoreBinding
    <3>2. "control" \in Callers
      BY DEF Callers
    <3> QED
      BY <1>0, <3>1, <3>2, SyncTyped DEF ChainTyped, AwaitNothing
  <2>6. CASE \E u \in Users : RequestSync(u) \/ Synced(u)
    <3>1. PICK u \in Users : RequestSync(u) \/ Synced(u)
      BY <2>6
    <3>2. \/ UNCHANGED <<chain, outcome>>
          \/ Sync(u, FALSE, FALSE)
          \/ UNCHANGED chain /\ outcome' = [outcome EXCEPT ![u] = "none"]
      BY <3>1, Zenon DEF RequestSync, Synced
    <3>3. u \in Callers
      BY DEF Callers
    <3> QED
      BY <1>0, <3>2, <3>3, SyncTyped DEF ChainTyped
  <2> QED
    BY <2>1, <2>2, <2>3, <2>4, <2>5, <2>6, RequestsMove
<1> QED
  BY <1>1, <1>2 DEF RequestsTyped, ChainTyped

LEMMA RecoveryTypedStep == TypeInv /\ [Next]_vars => RecoveryTyped'
<1> SUFFICES ASSUME TypeInv, [Next]_vars PROVE RecoveryTyped'
  OBVIOUS
<1>0. RecoveryTyped
  BY DEF TypeInv
<1>1. recovery' \in 0..RecoveryAttempts
  <2>1. \/ recovery' \in {recovery, 0, 1}
        \/ recovery' = recovery + 1 /\ recovery # RecoveryAttempts
    BY RecoveryMoves, Zenon
       DEF LoseBackend, LoseCandidate, RecoveryAttemptEnds, BackendUnavailable, LastAttempt
  <2> QED
    BY <1>0, <2>1, BackendAssumption DEF RecoveryTyped
<1>2. shutdown' \in BOOLEAN
  BY <1>0, RecoveryMoves, Zenon
     DEF RecoveryTyped, LoseBackend, LoseCandidate, RecoveryAttemptEnds, BackendUnavailable
<1> QED
  BY <1>1, <1>2 DEF RecoveryTyped

LEMMA ServersTypedStep == TypeInv /\ ServersAreOwned /\ [Next]_vars => ServersTyped'
<1> SUFFICES ASSUME TypeInv, ServersAreOwned, [Next]_vars PROVE ServersTyped'
  OBVIOUS
<1>0. ServersTyped /\ CandTyped /\ BackendTyped
  BY DEF TypeInv
<1>1. procs' \in SUBSET Ids /\ link' \in SUBSET Ids
  <2>1. CASE SpawnCandidate
    BY <1>0, <2>1, FreshId DEF ServersTyped, SpawnCandidate, BackendRecord
  <2>2. CASE CandidateStarts
    BY <1>0, <2>2 DEF ServersTyped, CandidateStarts, CandTyped, BackendRecord
  <2>3. CASE ~SpawnCandidate /\ ~CandidateStarts
    BY <1>0, <2>3, ServersMove
       DEF ServersTyped, servers, BeginStep, ClosePrevious, CandidateFails, HandleMessage,
           LoseBackend, LoseCandidate, StartTurn, ServerStep
  <2> QED
    BY <2>1, <2>2, <2>3
<1>2. server' \in [Users -> {"none", "asked", "running"}]
  BY <1>0, ServersMove
     DEF ServersTyped, servers, BeginStep, ClosePrevious, SpawnCandidate, CandidateStarts,
         CandidateFails, HandleMessage, LoseBackend, LoseCandidate, StartTurn, ServerStep, NoServerTurn
<1>3. wire' \in Seq(Message)
  <2>1. CASE \E u \in Users : ServerStep(u)
    <3>1. PICK u \in Users : ServerStep(u)
      BY <2>1
    <3>2. \E m \in Message : wire' = Append(wire, m)
      <4>1. \A k \in {"ack", "reject", "done"} : [kind |-> k, of |-> u] \in Message
        BY DEF Message
      <4> QED
        BY <3>1, <4>1, Zenon DEF ServerStep
    <3> QED
      BY <1>0, <3>2 DEF ServersTyped
  <2>2. CASE HandleMessage
    BY <1>0, <2>2 DEF ServersTyped, HandleMessage
  <2>3. CASE ~HandleMessage /\ ~\E u \in Users : ServerStep(u)
    <3>1. wire' = wire \/ wire' = <<>>
      BY <2>3, ServersMove, Zenon
         DEF servers, BeginStep, ClosePrevious, SpawnCandidate, CandidateStarts,
             CandidateFails, LoseBackend, LoseCandidate, StartTurn
    <3>2. <<>> \in Seq(Message) /\ wire \in Seq(Message)
      BY <1>0 DEF ServersTyped
    <3> QED
      BY <3>1, <3>2, Zenon
  <2> QED
    BY <2>1, <2>2, <2>3
<1> QED
  BY <1>1, <1>2, <1>3 DEF ServersTyped

LEMMA UsersTypedStep == TypeInv /\ [Next]_vars => UsersTyped'
<1> SUFFICES ASSUME TypeInv, [Next]_vars PROVE UsersTyped'
  OBVIOUS
<1>0. UsersTyped /\ ServersTyped /\ BackendTyped
  BY DEF TypeInv
<1>1. backend.pending \in Users \cup {None} /\ \A m \in Message : m.of \in Users
  BY <1>0, NoBackendFields DEF BackendTyped, BackendRecord, Message
<1>2. /\ turns' \in [Users -> Nat] /\ turns'["worker"] <= MaxTurns
      /\ queued' \in Nat /\ queued' <= turns'["worker"]
  <2>1. \/ UNCHANGED <<turns, queued>>
        \/ Enqueue \/ PickTask \/ CheckFree("handoff")
    BY UsersMove, ZenonT(40)
       DEF users, budget, ClosePrevious, CandidateStarts, LateCheck, HandleMessage, LoseBackend,
           CheckFree, RequestSync, Synced, StartTurn, OutsideTurnEnds, Users
  <2>2. CASE Enqueue
    BY <1>0, <2>2, BackendAssumption DEF UsersTyped, Enqueue, Users
  <2>3. CASE PickTask
    <3>1. UNCHANGED turns /\ (queued' = queued \/ (queued # 0 /\ queued' = queued - 1))
      BY <2>3, Zenon DEF PickTask, budget
    <3>2. queued \in Nat /\ turns["worker"] \in Nat /\ queued <= turns["worker"]
      BY <1>0 DEF UsersTyped, Users
    <3>3. queued' \in Nat /\ queued' <= turns["worker"]
      BY <3>1, <3>2
    <3> QED
      BY <1>0, <3>1, <3>3 DEF UsersTyped
  <2>4. CASE CheckFree("handoff")
    BY <1>0, <2>4 DEF UsersTyped, CheckFree, Users
  <2> QED
    BY <1>0, <2>1, <2>2, <2>3, <2>4 DEF UsersTyped
<1>3. user' \in [Users -> {"idle", "checked", "syncing", "synced", "cleared", "ready",
                           "waiting", "adrift", "outside"}]
  BY <1>0, <1>1, UsersMove, ZenonT(40)
     DEF UsersTyped, users, ClosePrevious, CandidateStarts, Enqueue, LateCheck, PickTask, HandleMessage,
         LoseBackend, CheckFree, RequestSync, Synced, StartTurn, OutsideTurnEnds, CloseTurns,
         HasActiveTurn
<1>4. result' \in [Users -> Users]
  <2>1. HandleMessage => Head(wire) \in Message
    <3>1. HandleMessage => wire # <<>>
      BY Zenon DEF HandleMessage
    <3> QED
      BY <1>0, <3>1 DEF ServersTyped
  <2> QED
    BY <1>0, <1>1, <2>1, UsersMove
       DEF UsersTyped, users, ClosePrevious, CandidateStarts, Enqueue, LateCheck, PickTask, HandleMessage,
           LoseBackend, CheckFree, RequestSync, Synced, StartTurn, OutsideTurnEnds
<1> QED
  BY <1>2, <1>3, <1>4 DEF UsersTyped

\* How the record of a control operation moves on from c to d.
MovesTo(c, d, p) == d = [c EXCEPT !.pc = p]
FailsAt(c, d, p) == d = [c EXCEPT !.pc = p, !.broken = TRUE]
SetsTo(c, d, p, old) == d = [[c EXCEPT !.pc = p] EXCEPT !.undo = old]
Verifies(c, d, o, w) == d = [c EXCEPT !.pc = "verify", !.oldOwner = o, !.old = w]
ResetsOn(c, d, i) == d = [c EXCEPT !.pc = "reset", !.on = i]

SameTarget(c, d) == d.kind = c.kind /\ d.mode = c.mode /\ d.target = c.target
SameOld(c, d) == SameTarget(c, d) /\ d.old = c.old /\ d.oldOwner = c.oldOwner

LEMMA MovesToRecord ==
  ASSUME NEW c \in CtlRecord, NEW p \in CtlPcs, NEW d, MovesTo(c, d, p)
  PROVE  /\ d \in CtlRecord /\ d.pc = p /\ d.undo = c.undo /\ d.on = c.on /\ SameOld(c, d)
         /\ d.broken <=> c.broken
BY Zenon DEF CtlRecord, MovesTo, SameTarget, SameOld

LEMMA FailsAtRecord ==
  ASSUME NEW c \in CtlRecord, NEW p \in CtlPcs, NEW d, FailsAt(c, d, p)
  PROVE  d \in CtlRecord /\ d.pc = p /\ d.undo = c.undo /\ SameOld(c, d) /\ d.broken
BY Zenon DEF CtlRecord, FailsAt, SameTarget, SameOld

LEMMA SetsToRecord ==
  ASSUME NEW c \in CtlRecord, NEW p \in CtlPcs, NEW v \in Modes \cup Bindings, NEW d, SetsTo(c, d, p, v)
  PROVE  /\ d \in CtlRecord /\ d.pc = p /\ d.undo = v /\ SameOld(c, d)
         /\ d.broken <=> c.broken
BY Zenon DEF CtlRecord, SetsTo, SameTarget, SameOld

LEMMA VerifiesRecord ==
  ASSUME NEW c \in CtlRecord, NEW o \in Owners, NEW w \in Config, NEW d, Verifies(c, d, o, w)
  PROVE  /\ d \in CtlRecord /\ d.pc = "verify" /\ d.old = w /\ d.oldOwner = o /\ SameTarget(c, d)
         /\ d.broken <=> c.broken
BY Zenon DEF CtlRecord, CtlPcs, Verifies, SameTarget

LEMMA ResetsOnRecord ==
  ASSUME NEW c \in CtlRecord, NEW i \in Ids, NEW d, ResetsOn(c, d, i)
  PROVE  d \in CtlRecord /\ d.pc = "reset" /\ d.on = i /\ d.kind = c.kind
BY Zenon DEF CtlRecord, CtlPcs, ResetsOn

\* What a control operation is at when it ends.
Ends ==
  /\ ctl' = NoCtl /\ UNCHANGED <<mode, binding>>
  /\ \/ ctl.pc = "checked" /\ (ctl.kind # "owner" => UNCHANGED owner)
     \/ /\ UNCHANGED owner
        /\ \/ ctl.pc \in {"verify", "remode", "unremode"}
           \/ ctl.pc \in {"bind", "unbind", "mode", "unmode"} /\ ctl.kind # "attach"
           \/ ctl.pc \in {"rebind", "unrebind"} /\ mode = ctl.old.mode
           \/ ctl.pc = "status" /\ owner = "telegram"

\* What it sets, each with the value to be put back, ...
SetsMode ==
  /\ SetsTo(ctl, ctl', "mode", mode) /\ UNCHANGED <<binding, owner>>
  /\ \/ ctl.pc = "checked" /\ ctl.kind = "mode" /\ mode' = ctl.mode
     \/ ctl.pc = "bind" /\ ctl.kind = "attach" /\ mode' = "shared-thread-resume"
SetsBinding ==
  /\ SetsTo(ctl, ctl', "bind", binding) /\ UNCHANGED mode
  /\ \/ ctl.pc = "checked" /\ ctl.kind = "detach" /\ binding' = None /\ UNCHANGED owner
     \/ ctl.pc = "verify" /\ binding' = ctl.target /\ owner' = "telegram"
RestoresBinding ==
  /\ SetsTo(ctl, ctl', "rebind", binding) /\ UNCHANGED mode
  /\ ctl.pc = "status" \/ (ctl.pc \in {"unbind", "unmode"} /\ ctl.kind = "attach")
  /\ binding' = ctl.old.binding /\ owner' = ctl.oldOwner
RestoresMode ==
  /\ SetsTo(ctl, ctl', "remode", mode) /\ UNCHANGED <<binding, owner>>
  /\ ctl.pc \in {"rebind", "unrebind"} /\ mode' = ctl.old.mode
Sets == SetsMode \/ SetsBinding \/ RestoresBinding \/ RestoresMode

\* ... puts back because it could not be loaded, ...
Undoes ==
  /\ UNCHANGED owner
  /\ \/ /\ binding' = ctl.undo /\ UNCHANGED mode
        /\ \/ ctl.pc = "bind" /\ MovesTo(ctl, ctl', "unbind")
           \/ ctl.pc = "rebind" /\ FailsAt(ctl, ctl', "unrebind")
     \/ /\ mode' = ctl.undo /\ UNCHANGED binding
        /\ \/ ctl.pc = "mode" /\ MovesTo(ctl, ctl', "unmode")
           \/ ctl.pc = "remode" /\ FailsAt(ctl, ctl', "unremode")

\* ... or looks at.
Looks ==
  /\ UNCHANGED <<mode, binding, owner>>
  /\ \/ /\ ctl.pc = "checked" /\ ctl.kind = "attach"
        /\ Verifies(ctl, ctl', owner, [mode |-> mode, binding |-> binding])
     \/ /\ ctl.pc = "checked" /\ ctl.kind = "reset"
        /\ ResetsOn(ctl, ctl', backend.id) /\ backend.mode = "autonomous-thread"
        /\ backend.id \in link
     \/ /\ ctl.kind = "attach"
        /\ ctl.pc = "mode" \/ (ctl.pc = "bind" /\ mode = "shared-thread-resume")
        /\ MovesTo(ctl, ctl', "status")

LEMMA ControlMoves ==
  ASSUME ConfirmControl \/ VerifyTarget \/ ControlContinues \/ CheckAttached
  PROVE  Ends \/ Sets \/ Undoes \/ Looks
<1>1. CASE ConfirmControl
  BY <1>1, Zenon
     DEF ConfirmControl, EndControl, AwaitNothing, SetMode, SetBoundThread, Ends, Sets, SetsMode, SetsBinding, RestoresBinding, RestoresMode, Looks,
         SetsTo, Verifies, ResetsOn
<1>2. CASE VerifyTarget
  BY <1>2, Zenon DEF VerifyTarget, EndControl, AwaitNothing, SetBoundThread, Ends, Sets, SetsMode, SetsBinding, RestoresBinding, RestoresMode, SetsTo
<1>3. CASE ControlContinues
  <2>1. \/ /\ UNCHANGED owner
           /\ \/ /\ ctl.pc = "bind" /\ ctl.kind = "attach"
                 /\ SetMode("shared-thread-resume", [ctl EXCEPT !.pc = "mode"])
              \/ ctl.pc = "bind" /\ UndoBinding([ctl EXCEPT !.pc = "unbind"])
              \/ ctl.pc = "mode" /\ UndoMode([ctl EXCEPT !.pc = "unmode"])
              \/ ctl.pc = "rebind" /\ UndoBinding([ctl EXCEPT !.pc = "unrebind", !.broken = TRUE])
              \/ ctl.pc = "remode" /\ UndoMode([ctl EXCEPT !.pc = "unremode", !.broken = TRUE])
        \/ /\ UNCHANGED owner /\ ctl.pc \in {"rebind", "unrebind"} /\ RestoreMode(ctl)
        \/ /\ UNCHANGED owner /\ AwaitNothing
           /\ \/ /\ ctl' = [ctl EXCEPT !.pc = "status"] /\ ctl.kind = "attach"
                 /\ ctl.pc = "mode" \/ (ctl.pc = "bind" /\ mode = "shared-thread-resume")
              \/ /\ ctl' = NoCtl
                 /\ \/ ctl.pc \in {"remode", "unremode"}
                    \/ ctl.pc \in {"bind", "unbind", "mode", "unmode"} /\ ctl.kind # "attach"
        \/ ctl.pc \in {"unbind", "unmode"} /\ ctl.kind = "attach" /\ RestoreBinding
    BY <1>3, ZenonT(40) DEF ControlContinues, EndControl
  <2> QED
    BY <2>1, ZenonT(40)
       DEF AwaitNothing, SetMode, SetBoundThread, UndoMode, UndoBinding, RestoreMode, RestoreBinding,
           EndControl, Ends, Sets, SetsMode, SetsBinding, RestoresBinding, RestoresMode, Undoes, Looks, SetsTo, MovesTo, FailsAt
<1>4. CASE CheckAttached
  BY <1>4, Zenon
     DEF CheckAttached, EndControl, AwaitNothing, SetBoundThread, RestoreBinding, Ends, Sets, SetsMode, SetsBinding, RestoresBinding, RestoresMode, SetsTo
<1> QED
  BY <1>1, <1>2, <1>3, <1>4

\* The record of a new operation.
Opens(d) ==
  \/ \E m \in Modes : d = [NoCtl EXCEPT !.pc = "checked", !.kind = "mode", !.mode = m]
  \/ \E t \in Threads : d = [NoCtl EXCEPT !.pc = "checked", !.kind = "attach", !.target = t]
  \/ \E k \in {"detach", "owner", "reset"} : d = [NoCtl EXCEPT !.pc = "checked", !.kind = k]

LEMMA OpensRecord ==
  ASSUME NEW d, Opens(d)
  PROVE  /\ d \in CtlRecord /\ d.pc = "checked" /\ d.kind # None /\ ~d.broken
         /\ d.kind = "mode" => d.mode \in Modes
         /\ d.kind = "attach" => d.target \in Threads
<1>1. d \in CtlRecord
  BY Zenon DEF Opens, NoCtl, CtlRecord, CtlPcs, Bindings, Owners
<1>2. ~d.broken
  BY Zenon DEF Opens, NoCtl
<1>3. /\ d.pc = "checked" /\ d.kind # None
      /\ d.kind = "mode" => d.mode \in Modes
      /\ d.kind = "attach" => d.target \in Threads
  BY DEF Opens, NoCtl, None
<1> QED
  BY <1>1, <1>2, <1>3

LEMMA CtlTypedStep == TypeInv /\ [Next]_vars => CtlTyped'
<1> SUFFICES ASSUME TypeInv, [Next]_vars PROVE CtlTyped'
  OBVIOUS
<1>0. CtlTyped /\ SettingsTyped /\ BackendTyped
  BY DEF TypeInv
<1>1. ctl' = NoCtl => CtlTyped'
  BY NoCtlTyped, Zenon DEF CtlTyped, None
<1>2. CASE UNCHANGED ctl
  BY <1>0, <1>2 DEF CtlTyped
<1>3. CASE BeginControl
  BY <1>3, OpensRecord DEF BeginControl, Opens, CtlTyped, None
<1>4. CASE ResetThread
  BY <1>1, <1>4 DEF ResetThread
<1>5. CASE Ends
  BY <1>1, <1>5 DEF Ends
<1>6. CASE Sets
  <2>1. mode \in Modes \cup Bindings /\ binding \in Modes \cup Bindings
    BY <1>0 DEF SettingsTyped
  <2>2. {"mode", "bind", "rebind", "remode"} \subseteq CtlPcs
    BY DEF CtlPcs
  <2> QED
    BY <1>0, <1>6, <2>1, <2>2, SetsToRecord
       DEF Sets, SetsMode, SetsBinding, RestoresBinding, RestoresMode, CtlTyped, None, SettingsTyped, SameTarget, SameOld
<1>7. CASE Undoes
  <2>1. {"unmode", "unbind", "unrebind", "unremode"} \subseteq CtlPcs
    BY DEF CtlPcs
  <2> QED
    BY <1>0, <1>7, <2>1, MovesToRecord, FailsAtRecord DEF Undoes, CtlTyped, None, SameTarget, SameOld
<1>8. CASE Looks
  <2>1. "status" \in CtlPcs /\ [mode |-> mode, binding |-> binding] \in Config
    BY <1>0 DEF CtlPcs, SettingsTyped, Config
  <2>2. backend.mode = "autonomous-thread" => backend.id \in Ids
    BY <1>0, NoBackendFields DEF BackendTyped, BackendRecord, None
  <2> QED
    BY <1>0, <1>8, <2>1, <2>2, MovesToRecord, VerifiesRecord, ResetsOnRecord
       DEF Looks, CtlTyped, None, SettingsTyped, SameTarget, SameOld
<1> QED
  BY <1>2, <1>3, <1>4, <1>5, <1>6, <1>7, <1>8, CtlMoves, ControlMoves

LEMMA ResetIsOfSessionStep == TypeInv /\ ServersAreOwned /\ [Next]_vars => ResetIsOfSession'
<1> SUFFICES ASSUME TypeInv, ServersAreOwned, [Next]_vars, ctl'.pc = "reset"
             PROVE  /\ ctl'.on \in Ids /\ cand'.id # ctl'.on
                    /\ backend'.id = ctl'.on => backend'.mode = "autonomous-thread"
  BY DEF ResetIsOfSession
<1>0. /\ ResetIsOfSession /\ BackendTyped /\ CandTyped /\ CtlTyped /\ SettingsTyped
      /\ ThreadsTyped'
  BY ThreadsTypedStep DEF TypeInv
<1>1. CASE UNCHANGED ctl
  <2>1. ctl.on \in Ids /\ cand.id # ctl.on
    BY <1>0, <1>1 DEF ResetIsOfSession
  <2>2. cand'.id # ctl.on
    <3>1. CASE SpawnCandidate
      BY <3>1, FreshId
    <3>2. CASE ~SpawnCandidate
      BY <2>1, <3>2, CandMoves, NoBackendFields
         DEF CandidateStarts, CandidateFails, InitializeThread, Ids
    <3> QED
      BY <3>1, <3>2
  <2>3. backend'.id = ctl.on => backend'.mode = "autonomous-thread"
    <3>1. CASE ClosePrevious
      BY <2>1, <3>1, NoBackendFields DEF ClosePrevious, Ids
    <3>2. CASE CandidateStarts
      BY <1>0, <2>1, <3>2, CandidateLoaded
    <3>3. CASE ~ClosePrevious /\ ~CandidateStarts
      <4>1. backend'.id = backend.id /\ backend'.mode = backend.mode
        BY <3>3, BackendMoves, BackendIdStays
      <4> QED
        BY <1>0, <1>1, <4>1 DEF ResetIsOfSession
    <3> QED
      BY <3>1, <3>2, <3>3
  <2> QED
    BY <1>1, <2>1, <2>2, <2>3
<1>2. CASE ctl' # ctl
  <2>1. ~BeginControl /\ ~ResetThread
    <3>1. BeginControl => ctl'.pc = "checked"
      BY OpensRecord DEF BeginControl, Opens
    <3>2. ResetThread => ctl'.pc = None
      BY NoCtlTyped, Zenon DEF ResetThread
    <3> QED
      BY <3>1, <3>2 DEF None
  <2>2. ConfirmControl \/ VerifyTarget \/ ControlContinues \/ CheckAttached
    BY <1>2, <2>1, CtlMoves
  <2>3. UNCHANGED <<backend, cand>>
    BY <2>2 DEF ConfirmControl, VerifyTarget, ControlContinues, CheckAttached, unchangedByControl
  <2>4. ResetsOn(ctl, ctl', backend.id) /\ backend.mode = "autonomous-thread"
    <3>1. ctl' # NoCtl
      BY NoCtlTyped, Zenon DEF None
    <3>2. {"mode", "bind", "rebind", "remode", "unmode", "unbind", "unrebind", "unremode", "status"} \subseteq CtlPcs
      BY DEF CtlPcs
    <3>3. /\ mode \in Modes \cup Bindings /\ binding \in Modes \cup Bindings
          /\ [mode |-> mode, binding |-> binding] \in Config /\ owner \in Owners
      BY <1>0 DEF SettingsTyped, Config
    <3>4. ctl \in CtlRecord
      BY <1>0 DEF CtlTyped
    <3>5. ~Sets
      BY <3>2, <3>3, <3>4, SetsToRecord
         DEF Sets, SetsMode, SetsBinding, RestoresBinding, RestoresMode
    <3>6. ~Undoes
      BY <3>2, <3>4, MovesToRecord, FailsAtRecord DEF Undoes
    <3>7. Looks
      BY <2>2, <3>1, <3>5, <3>6, ControlMoves DEF Ends
    <3> QED
      BY <3>2, <3>3, <3>4, <3>7, VerifiesRecord, MovesToRecord DEF Looks
  <2>5. backend.id \in Ids
    BY <1>0, <2>4, NoBackendFields DEF BackendTyped, BackendRecord, None
  <2>6. ctl'.on = backend.id
    BY <1>0, <2>4, <2>5, ResetsOnRecord DEF CtlTyped
  <2>7. cand.id # backend.id
    BY <1>0, <2>5, NoBackendFields DEF CandTyped, Ids
  <2> QED
    BY <2>3, <2>4, <2>5, <2>6, <2>7
<1> QED
  BY <1>1, <1>2

\* A backend is loaded with an app-server of its own or none: the invariant that makes
\* OneServer inductive.
LEMMA ServersAreOwnedStep == TypeInv /\ ServersAreOwned /\ [Next]_vars => ServersAreOwned'
<1> SUFFICES ASSUME TypeInv, ServersAreOwned, [Next]_vars PROVE ServersAreOwned'
  OBVIOUS
<1>0. /\ ServersTyped /\ BackendTyped /\ CandTyped /\ StepTyped /\ ThreadsTyped'
      /\ 0 \notin procs /\ NoStep.pc = None
  <2>1. NoStep.pc = None
    BY Zenon DEF NoStep
  <2> QED
    BY <2>1, ThreadsTypedStep DEF TypeInv, ServersTyped, Ids
<1>1. CASE BeginStep
  <2>1. UNCHANGED <<procs, backend, cand>> /\ step.pc = None
    BY <1>1, Zenon DEF BeginStep
  <2>2. \/ UNCHANGED step \/ step'.pc = "closing"
        \/ step'.pc = "spawn" /\ ~Exclusive /\ step'.want.mode = mode
    BY <1>1, StepBegun
  <2> QED
    BY <2>1, <2>2 DEF ServersAreOwned, Exclusive, None
<1>2. CASE ClosePrevious \/ PortClosed
  <2>1. step \in StepRecord /\ step.pc \in {"closing", "port"}
    BY <1>0, <1>2 DEF StepTyped, ClosePrevious, PortClosed, None
  <2>2. step'.pc # "starting" /\ (PortClosed => step'.pc # "port")
    BY <1>0, <1>2, <2>1, StepRecordMoves DEF ClosePrevious, PortClosed, Finish, StepPcs, None
  <2>3. CASE ClosePrevious
    BY <1>0, <2>2, <2>3, NoBackendFields DEF ServersAreOwned, ClosePrevious
  <2>4. CASE PortClosed
    BY <1>0, <2>1, <2>2, <2>4, NoBackendFields DEF ServersAreOwned, PortClosed, servers
  <2> QED
    BY <1>2, <2>3, <2>4
<1>3. CASE SpawnCandidate
  <2>1. step'.pc = "starting" /\ step'.want = step.want /\ UNCHANGED backend /\ step.pc = "spawn"
    BY <1>3, FreshId, StepRecordMoves DEF SpawnCandidate, StepPcs
  <2>2. cand.id = 0
    BY <1>0, <2>1, NoBackendFields DEF CandTyped
  <2> QED
    BY <1>0, <1>3, <2>1, <2>2, FreshId DEF ServersAreOwned
<1>4. CASE CandidateStarts
  <2>1. UNCHANGED procs /\ cand' = NoBackend /\ step' = NoStep /\ step.pc = "starting"
    BY <1>4 DEF CandidateStarts, InitializeThread, Finish
  <2>2. backend'.id = cand.id /\ backend'.mode = cand.mode
    BY <1>0, <1>4, <2>1, CandidateLoaded DEF CandTyped
  <2> QED
    BY <1>0, <2>1, <2>2, NoBackendFields DEF ServersAreOwned, None
<1>5. CASE CandidateFails
  <2>1. /\ procs' = procs \ {cand.id} /\ cand' = NoBackend /\ step' = NoStep /\ UNCHANGED backend
    BY <1>5 DEF CandidateFails, Finish
  <2> QED
    BY <1>0, <2>1, NoBackendFields DEF ServersAreOwned, None
<1>6. CASE ~LifecycleStep
  <2>1. UNCHANGED <<step, cand>>
    BY <1>6, StepMoves, CandMoves DEF LifecycleStep
  <2>2. backend'.id = backend.id /\ backend'.mode = backend.mode
    BY <1>6, BackendMoves, BackendIdStays DEF LifecycleStep
  <2>3. procs' \subseteq procs
    BY <1>6, ServersMove
       DEF LifecycleStep, servers, HandleMessage, LoseBackend, LoseCandidate, StartTurn, ServerStep
  <2> QED
    BY <2>1, <2>2, <2>3 DEF ServersAreOwned
<1> QED
  BY <1>1, <1>2, <1>3, <1>4, <1>5, <1>6 DEF LifecycleStep

----------------------------------------------------------------------------
(* The invariant of the lifecycle.                                         *)

LifecycleInv == TypeInv /\ ServersAreOwned

LEMMA LifecycleInvInit == Init => LifecycleInv
<1>1. Init => ServersAreOwned
  <2> SUFFICES ASSUME Init PROVE ServersAreOwned
    OBVIOUS
  <2>1. backend.id = 1 /\ backend.mode = mode
    BY Zenon DEF Init, NoBackend
  <2>2. NoStep.pc = None
    BY Zenon DEF NoStep
  <2> QED
    BY <2>1, <2>2, NoBackendFields DEF Init, ServersAreOwned, UsesAppServer, None
<1> QED
  BY <1>1, InitTyped DEF LifecycleInv

LEMMA LifecycleInvStep == LifecycleInv /\ [Next]_vars => LifecycleInv'
<1> SUFFICES ASSUME LifecycleInv, [Next]_vars PROVE LifecycleInv'
  OBVIOUS
<1> TypeInv /\ ServersAreOwned
  BY DEF LifecycleInv
<1>1. SettingsTyped' /\ ThreadsTyped' /\ BackendTyped' /\ StepTyped' /\ CandTyped'
  BY SettingsTypedStep, ThreadsTypedStep, BackendTypedStep, StepTypedStep, CandTypedStep
<1>2. RequestsTyped' /\ ServersTyped' /\ UsersTyped' /\ CtlTyped' /\ ResetIsOfSession' /\ RecoveryTyped'
  BY RequestsTypedStep, ServersTypedStep, UsersTypedStep, CtlTypedStep, ResetIsOfSessionStep,
     RecoveryTypedStep
<1> QED
  BY <1>1, <1>2, ServersAreOwnedStep DEF LifecycleInv, TypeInv

LEMMA LifecycleInvariant == Spec => []LifecycleInv
BY LifecycleInvInit, LifecycleInvStep, PTL DEF Spec

LEMMA LifecycleIsTyped == LifecycleInv => TypeOK
<1> SUFFICES ASSUME LifecycleInv PROVE TypeOK
  OBVIOUS
<1>0. /\ SettingsTyped /\ ThreadsTyped /\ BackendTyped /\ StepTyped /\ CandTyped
      /\ RequestsTyped /\ ServersTyped /\ UsersTyped /\ CtlTyped /\ RecoveryTyped
  BY DEF LifecycleInv, TypeInv
<1>1. /\ mode \in Modes /\ {binding, previous} \subseteq Bindings /\ owner \in {"telegram", "desktop"}
      /\ {ownThread, fresh} \subseteq OwnThreads
  BY <1>0 DEF SettingsTyped, ThreadsTyped, Owners
<1>2. {backend.id, cand.id} \subseteq Ids \cup {0}
  BY <1>0, NoBackendFields DEF BackendTyped, CandTyped, BackendRecord
<1>3. ASSUME NEW b \in {backend, cand}
      PROVE  \/ b = NoBackend
             \/ /\ b.mode \in Modes /\ b.pending \in Users \cup {None} /\ b.acked \in BOOLEAN
                /\ \/ b.mode = "autonomous-thread" /\ b.thread \in OwnThreads \cup {NoThread}
                   \/ b.mode # "autonomous-thread" /\ b.thread \in Threads
  <2>1. \/ b = NoBackend
        \/ /\ b \in BackendRecord
           /\ b.mode = "autonomous-thread" => b.thread \in OwnThreads \cup {NoThread}
           /\ b.mode # "autonomous-thread" => b.thread \in Threads
    BY <1>0 DEF BackendTyped, CandTyped, StepTyped
  <2> QED
    BY <2>1, Zenon DEF BackendRecord
<1>4. /\ sig \in Config \cup {NoConfig}
      /\ chain \in Seq([by : Callers, force : BOOLEAN, throws : BOOLEAN])
      /\ outcome \in [Callers -> {"none", "ok", "error"}]
  BY <1>0, Zenon DEF RequestsTyped, Request
<1>5. step.pc \in {None, "closing", "port", "spawn", "starting"}
  BY <1>0, NoStepFields DEF StepTyped, StepRecord, StepPcs
<1>6. /\ procs \subseteq Ids /\ link \subseteq Ids
      /\ server \in [Users -> {"none", "asked", "running"}]
      /\ wire \in Seq([kind : {"ack", "reject", "done"}, of : Users])
  BY <1>0 DEF ServersTyped, Message
<1>7. /\ queued \in 0..MaxTurns
      /\ user \in [Users -> {"idle", "checked", "syncing", "synced", "cleared", "ready",
                             "waiting", "adrift", "outside"}]
      /\ result \in [Users -> Users]
  BY <1>0, BackendAssumption DEF UsersTyped, Users
<1>8. ctl.pc \in CtlPcs
  BY <1>0 DEF CtlTyped, CtlRecord
<1>9. recovery \in 0..RecoveryAttempts /\ shutdown \in BOOLEAN
  BY <1>0 DEF RecoveryTyped
<1> QED
  BY <1>1, <1>2, <1>3, <1>4, <1>5, <1>6, <1>7, <1>8, <1>9, Zenon DEF TypeOK, CtlPcs

\* Every variable keeps its type; SpawnCandidate always finds a free number.
THEOREM BackendIsTyped == Spec => []TypeOK
BY LifecycleInvariant, LifecycleIsTyped, PTL

\* At most one app-server is alive, for any number of operations, losses and failed starts.
THEOREM OneServerAlive == Spec => []OneServer
<1>1. LifecycleInv => OneServer
  <2> SUFFICES ASSUME LifecycleInv PROVE Cardinality(procs) <= 1
    BY DEF OneServer
  <2>0. /\ ServersAreOwned /\ CandTyped /\ 0 \notin procs
    BY DEF LifecycleInv, TypeInv, ServersTyped, Ids
  <2>1. \E i : procs \subseteq {i}
    <3>1. CASE step.pc = "starting"
      <4>1. cand.mode = step.want.mode
        BY <2>0, <3>1 DEF CandTyped
      <4> QED
        BY <2>0, <3>1, <4>1 DEF ServersAreOwned
    <3>2. CASE step.pc # "starting"
      BY <2>0, <3>2, NoBackendFields DEF ServersAreOwned, CandTyped
    <3> QED
      BY <3>1, <3>2
  <2>2. PICK i : procs \subseteq {i}
    BY <2>1
  <2>3. IsFiniteSet({i}) /\ Cardinality({i}) = 1
    BY FS_Singleton
  <2> QED
    BY <2>2, <2>3, FS_Subset
<1> QED
  BY <1>1, LifecycleInvariant, PTL

----------------------------------------------------------------------------
(* Results.                                                                *)

LEMMA WireIsOfPendingStep ==
  LifecycleInv /\ WireIsOfPending /\ ResultIsOwn /\ [Next]_vars => WireIsOfPending' /\ ResultIsOwn'
<1> SUFFICES ASSUME LifecycleInv, WireIsOfPending, ResultIsOwn, [Next]_vars
             PROVE  WireIsOfPending' /\ ResultIsOwn'
  OBVIOUS
<1>0. /\ ServersTyped /\ UsersTyped /\ BackendTyped /\ TypeInv /\ None \notin Users
      /\ \A m \in Message : m.of \in Users /\ m.kind \in {"ack", "reject", "done"}
  BY DEF LifecycleInv, TypeInv, None, Users, Message
<1>1. CASE ClosePrevious \/ CandidateStarts \/ LoseBackend
  <2>1. wire' = <<>> /\ server' = NoServerTurn /\ UNCHANGED result
    BY <1>1, Zenon DEF ClosePrevious, CandidateStarts, LoseBackend
  <2>2. \A u \in Users : server'[u] = "none"
    BY <2>1 DEF NoServerTurn
  <2> QED
    BY <2>1, <2>2 DEF WireIsOfPending, ResultIsOwn
<1>2. CASE \E u \in Users : ServerStep(u)
  <2>1. PICK u \in Users : ServerStep(u)
    BY <1>2
  <2>2. UNCHANGED <<backend, result>>
    BY <2>1 DEF ServerStep, users
  <2>3. server[u] # "none" /\ backend.pending = u
    BY <2>1 DEF ServerStep, WireIsOfPending
  <2>4. \A v \in Users : v # u => server[v] = "none"
    BY <2>3 DEF WireIsOfPending
  <2>5. \A i \in DOMAIN wire : wire[i].of = u /\ wire[i].kind = "ack"
    BY <2>3 DEF WireIsOfPending
  <2>6. PICK k \in {"ack", "reject", "done"}, s \in {"running", "none"} :
          /\ wire' = Append(wire, [kind |-> k, of |-> u])
          /\ server' = [server EXCEPT ![u] = s]
          /\ k # "ack" => s = "none"
    BY <2>1, Zenon DEF ServerStep
  <2>7. [kind |-> k, of |-> u] \in Message
    BY DEF Message
  <2>8. /\ Len(wire') = Len(wire) + 1 /\ DOMAIN wire' = 1..Len(wire')
        /\ \A i \in DOMAIN wire : wire'[i] = wire[i]
        /\ wire'[Len(wire')] = [kind |-> k, of |-> u]
        /\ DOMAIN wire = 1..Len(wire) /\ Len(wire) \in Nat
    BY <1>0, <2>6, <2>7 DEF ServersTyped
  <2>9. \A v \in Users : server'[v] = IF v = u THEN s ELSE "none"
    BY <1>0, <2>4, <2>6 DEF ServersTyped
  <2> QED
    BY <2>2, <2>3, <2>5, <2>6, <2>8, <2>9 DEF WireIsOfPending, ResultIsOwn
<1>3. CASE \E u \in Users : StartTurn(u)
  <2>1. PICK u \in Users : StartTurn(u)
    BY <1>3
  <2>2. UNCHANGED <<wire, result>>
    BY <2>1 DEF StartTurn
  <2>3. CASE UNCHANGED <<backend, server>>
    BY <2>2, <2>3 DEF WireIsOfPending, ResultIsOwn
  <2>4. CASE ~UNCHANGED <<backend, server>>
    <3>1. /\ backend.id # 0 /\ backend.pending = None
          /\ backend' = [backend EXCEPT !.pending = u, !.acked = FALSE]
          /\ server' = [server EXCEPT ![u] = "asked"]
      BY <2>1, <2>4, Zenon DEF StartTurn, CanStartTurn, HasActiveTurn
    <3>2. backend'.pending = u
      BY <1>0, <3>1, NoBackendFields DEF BackendTyped, BackendRecord
    <3>3. DOMAIN wire = {}
      <4>1. \A i \in DOMAIN wire : wire[i] \in Message
        BY <1>0 DEF ServersTyped
      <4> QED
        BY <1>0, <3>1, <4>1 DEF WireIsOfPending
    <3>4. \A v \in Users : server'[v] # "none" => v = u
      BY <1>0, <3>1 DEF WireIsOfPending, ServersTyped
    <3> QED
      BY <2>2, <3>2, <3>3, <3>4 DEF WireIsOfPending, ResultIsOwn
  <2> QED
    BY <2>3, <2>4
<1>4. CASE HandleMessage
  <2>1. wire # <<>> /\ wire' = Tail(wire) /\ UNCHANGED server
    BY <1>4, Zenon DEF HandleMessage
  <2>2. /\ wire \in Seq(Message) /\ Len(wire) \in Nat \ {0} /\ DOMAIN wire = 1..Len(wire)
        /\ Head(wire) = wire[1] /\ wire[1] \in Message
        /\ Len(wire') = Len(wire) - 1 /\ DOMAIN wire' = 1..(Len(wire) - 1)
        /\ \A i \in DOMAIN wire' : wire'[i] = wire[i + 1]
    BY <1>0, <2>1 DEF ServersTyped
  <2>3. backend.pending = Head(wire).of /\ backend.pending \in Users
    BY <1>0, <2>2 DEF WireIsOfPending
  <2>4. CASE Head(wire).kind = "ack"
    <3>1. backend' = [backend EXCEPT !.acked = TRUE] /\ UNCHANGED result
      BY <1>0, <1>4, <2>3, <2>4, Zenon DEF HandleMessage
    <3>2. backend'.pending = backend.pending
      BY <1>0, <2>3, <3>1, NoBackendFields DEF BackendTyped, BackendRecord
    <3>3. \A i \in DOMAIN wire' : i + 1 \in DOMAIN wire
      BY <2>2
    <3>4. \A i \in DOMAIN wire' : wire'[i].of = backend'.pending
      BY <2>2, <3>2, <3>3 DEF WireIsOfPending
    <3>5. \A i \in DOMAIN wire' : wire'[i].kind # "ack" =>
            i = Len(wire') /\ \A u \in Users : server'[u] = "none"
      <4>1. ASSUME NEW i \in DOMAIN wire', wire'[i].kind # "ack"
            PROVE  i = Len(wire') /\ \A u \in Users : server'[u] = "none"
        <5>1. i + 1 = Len(wire) /\ \A u \in Users : server[u] = "none"
          BY <2>2, <3>3, <4>1 DEF WireIsOfPending
        <5> QED
          BY <2>1, <2>2, <5>1
      <4> QED
        BY <4>1
    <3> QED
      BY <2>1, <3>1, <3>2, <3>4, <3>5 DEF WireIsOfPending, ResultIsOwn
  <2>5. CASE Head(wire).kind # "ack"
    <3>1. /\ backend' = [backend EXCEPT !.pending = None, !.acked = FALSE]
          /\ \/ UNCHANGED result
             \/ result' = [result EXCEPT ![backend.pending] = Head(wire).of]
      BY <1>0, <1>4, <2>3, <2>5, Zenon DEF HandleMessage
    <3>2. Len(wire) = 1 /\ \A u \in Users : server[u] = "none"
      BY <2>2, <2>5 DEF WireIsOfPending
    <3>3. DOMAIN wire' = {}
      BY <2>2, <3>2
    <3>4. ResultIsOwn'
      BY <1>0, <2>3, <3>1 DEF ResultIsOwn, UsersTyped
    <3> QED
      BY <2>1, <3>2, <3>3, <3>4 DEF WireIsOfPending
  <2> QED
    BY <2>4, <2>5
<1>5. CASE /\ ~ClosePrevious /\ ~CandidateStarts /\ ~LoseBackend /\ ~HandleMessage
           /\ ~\E u \in Users : StartTurn(u) \/ ServerStep(u)
  <2>1. UNCHANGED <<server, wire>>
    BY <1>5, ServersMove DEF servers, BeginStep, SpawnCandidate, CandidateFails, LoseCandidate
  <2>2. backend'.pending = backend.pending
    <3>1. CASE UNCHANGED backend
      BY <3>1
    <3>2. CASE ResetThread
      BY <1>0, <3>2, BackendIdStays
    <3> QED
      BY <1>5, <3>1, <3>2, BackendMoves
  <2>3. UNCHANGED result
    BY <1>5, UsersMove
       DEF users, Enqueue, LateCheck, PickTask, CheckFree, RequestSync, Synced, OutsideTurnEnds
  <2> QED
    BY <2>1, <2>2, <2>3 DEF WireIsOfPending, ResultIsOwn
<1> QED
  BY <1>1, <1>2, <1>3, <1>4, <1>5

\* A user is only ever given the result of its own turn: what is on the wire is about the
\* turn that is pending, and nothing is left of a turn when the next one may start.
THEOREM ResultsAreOwn == Spec => []ResultIsOwn
<1>1. Init => WireIsOfPending /\ ResultIsOwn
  BY DEF Init, WireIsOfPending, ResultIsOwn
<1> QED
  BY <1>1, WireIsOfPendingStep, LifecycleInvariant, PTL DEF Spec

----------------------------------------------------------------------------
(* Attach.                                                                 *)

LEMMA AttachAgreesStep == LifecycleInv /\ AttachAgrees /\ [Next]_vars => AttachAgrees'
<1> SUFFICES ASSUME LifecycleInv, AttachAgrees, [Next]_vars PROVE AttachAgrees'
  OBVIOUS
<1>0. /\ CtlTyped /\ SettingsTyped /\ ctl \in CtlRecord /\ NoCtl.kind = None
      /\ mode \in Modes \cup Bindings /\ binding \in Modes \cup Bindings
      /\ [mode |-> mode, binding |-> binding] \in Config
      /\ {"mode", "bind", "rebind", "remode", "unmode", "unbind", "unrebind", "unremode", "status"} \subseteq CtlPcs
  <2>1. NoCtl.kind = None
    BY Zenon DEF NoCtl
  <2> QED
    BY <2>1 DEF LifecycleInv, TypeInv, CtlTyped, SettingsTyped, Config, CtlPcs
<1>1. CASE UNCHANGED <<ctl, mode, binding, owner>>
  BY <1>1 DEF AttachAgrees
<1>2. CASE BeginControl
  <2>1. ctl'.pc = "checked"
    BY <1>2, OpensRecord DEF BeginControl, Opens
  <2> QED
    BY <2>1 DEF AttachAgrees
<1>3. CASE ctl' = NoCtl
  BY <1>0, <1>3 DEF AttachAgrees, None
<1>4. CASE SetsMode
  <2>1. SetsTo(ctl, ctl', "mode", mode)
    BY <1>4 DEF SetsMode
  <2>2. ctl'.pc = "mode" /\ ctl'.undo = mode /\ SameOld(ctl, ctl') /\ (ctl'.broken <=> ctl.broken)
    BY <1>0, <2>1, SetsToRecord
  <2> QED
    BY <1>0, <1>4, <2>2 DEF SetsMode, AttachAgrees, CtlTyped, SameOld, SameTarget
<1>5. CASE SetsBinding
  <2>1. SetsTo(ctl, ctl', "bind", binding)
    BY <1>5 DEF SetsBinding
  <2>2. ctl'.pc = "bind" /\ ctl'.undo = binding /\ SameOld(ctl, ctl') /\ (ctl'.broken <=> ctl.broken)
    BY <1>0, <2>1, SetsToRecord
  <2> QED
    BY <1>0, <1>5, <2>2 DEF SetsBinding, AttachAgrees, CtlTyped, SameOld, SameTarget
<1>6. CASE RestoresBinding
  <2>1. SetsTo(ctl, ctl', "rebind", binding)
    BY <1>6 DEF RestoresBinding
  <2>2. ctl'.pc = "rebind" /\ SameOld(ctl, ctl')
    BY <1>0, <2>1, SetsToRecord
  <2> QED
    BY <1>0, <1>6, <2>2 DEF RestoresBinding, AttachAgrees, SameOld
<1>7. CASE RestoresMode
  <2>1. SetsTo(ctl, ctl', "remode", mode)
    BY <1>7 DEF RestoresMode
  <2>2. ctl'.pc = "remode" /\ SameOld(ctl, ctl') /\ (ctl'.broken <=> ctl.broken)
    BY <1>0, <2>1, SetsToRecord
  <2> QED
    BY <1>0, <1>7, <2>2 DEF RestoresMode, AttachAgrees, CtlTyped, SameOld, SameTarget
<1>8. CASE Undoes
  <2>1. \/ /\ binding' = ctl.undo /\ UNCHANGED <<mode, owner>> /\ ctl.pc = "bind"
           /\ MovesTo(ctl, ctl', "unbind")
        \/ /\ mode' = ctl.undo /\ UNCHANGED <<binding, owner>> /\ ctl.pc = "mode"
           /\ MovesTo(ctl, ctl', "unmode")
        \/ FailsAt(ctl, ctl', "unrebind") \/ FailsAt(ctl, ctl', "unremode")
    BY <1>8 DEF Undoes
  <2>2. CASE MovesTo(ctl, ctl', "unbind") /\ ctl.pc = "bind"
    <3>1. ctl'.pc = "unbind" /\ SameOld(ctl, ctl') /\ (ctl'.broken <=> ctl.broken)
      BY <1>0, <2>2, MovesToRecord
    <3> QED
      BY <1>8, <2>2, <3>1 DEF Undoes, AttachAgrees, SameOld, SameTarget
  <2>3. CASE MovesTo(ctl, ctl', "unmode") /\ ctl.pc = "mode"
    <3>1. ctl'.pc = "unmode" /\ SameOld(ctl, ctl') /\ (ctl'.broken <=> ctl.broken)
      BY <1>0, <2>3, MovesToRecord
    <3> QED
      BY <1>8, <2>3, <3>1 DEF Undoes, AttachAgrees, SameOld, SameTarget
  <2>4. CASE FailsAt(ctl, ctl', "unrebind") \/ FailsAt(ctl, ctl', "unremode")
    <3>1. ctl'.broken
      BY <1>0, <2>4, FailsAtRecord
    <3> QED
      BY <3>1 DEF AttachAgrees
  <2> QED
    BY <2>1, <2>2, <2>3, <2>4
<1>9. CASE Looks
  <2>1. CASE Verifies(ctl, ctl', owner, [mode |-> mode, binding |-> binding])
    <3>1. ctl'.pc = "verify" /\ ctl'.old = [mode |-> mode, binding |-> binding] /\ ctl'.oldOwner = owner
      BY <1>0, <2>1, VerifiesRecord DEF SettingsTyped
    <3> QED
      BY <1>9, <3>1 DEF Looks, AttachAgrees
  <2>2. CASE ResetsOn(ctl, ctl', backend.id) /\ ctl.kind = "reset" /\ backend.mode = "autonomous-thread"
    <3>1. backend.id \in Ids
      BY <2>2, NoBackendFields DEF LifecycleInv, TypeInv, BackendTyped, BackendRecord, None
    <3>2. ctl'.kind = "reset"
      BY <1>0, <2>2, <3>1, ResetsOnRecord
    <3> QED
      BY <3>2 DEF AttachAgrees
  <2>3. CASE /\ MovesTo(ctl, ctl', "status")
             /\ ctl.pc = "mode" \/ (ctl.pc = "bind" /\ mode = "shared-thread-resume")
    <3>1. ctl'.pc = "status" /\ SameOld(ctl, ctl') /\ (ctl'.broken <=> ctl.broken)
      BY <1>0, <2>3, MovesToRecord
    <3> QED
      BY <1>9, <2>3, <3>1 DEF Looks, AttachAgrees, SameOld, SameTarget
  <2> QED
    BY <1>9, <2>1, <2>2, <2>3 DEF Looks
<1>10. ConfirmControl \/ VerifyTarget \/ ControlContinues \/ CheckAttached =>
         ctl' = NoCtl \/ Sets \/ Undoes \/ Looks
  BY ControlMoves DEF Ends
<1>11. ResetThread => ctl' = NoCtl
  BY DEF ResetThread
<1> QED
  BY <1>1, <1>2, <1>3, <1>4, <1>5, <1>6, <1>7, <1>8, <1>9, <1>10, <1>11, CtlMoves, SettingsMove
     DEF Sets, settings

\* An attach moves mode, binding and owner to the target, or leaves all three as they
\* were, unless a step of the restoration fails as well: wherever the attach fails, with
\* turns, recoveries and losses in between.
THEOREM AttachMovesAllOrNothing == Spec => AttachIsAllOrNothing
<1>1. Init => AttachAgrees
  <2>1. NoCtl.kind = None
    BY Zenon DEF NoCtl
  <2> QED
    BY <2>1 DEF Init, AttachAgrees, None
<1>2. ASSUME LifecycleInv, AttachAgrees, [Next]_vars, ctl.kind = "attach", ctl'.pc = None, ~ctl.broken
      PROVE  \/ mode' = "shared-thread-resume" /\ binding' = ctl.target /\ owner' = "telegram"
             \/ ctl.pc \in {"checked", "verify"} /\ UNCHANGED <<mode, binding, owner>>
             \/ /\ [mode |-> mode', binding |-> binding'] = ctl.old
                /\ owner' = ctl.oldOwner
  <2>0. /\ CtlTyped /\ SettingsTyped /\ ctl \in CtlRecord /\ NoCtl.kind = None
        /\ mode \in Modes \cup Bindings /\ binding \in Modes \cup Bindings
        /\ [mode |-> mode, binding |-> binding] \in Config
        /\ {"mode", "bind", "rebind", "remode", "unmode", "unbind", "unrebind", "unremode", "status"} \subseteq CtlPcs
        /\ ctl.pc # None /\ ctl.old \in Config \cup {NoConfig}
    <3>1. NoCtl.kind = None
      BY Zenon DEF NoCtl
    <3> QED
      BY <1>2, <3>1 DEF LifecycleInv, TypeInv, CtlTyped, CtlRecord, SettingsTyped, Config, CtlPcs, None
  <2>1. ~Sets
    BY <1>2, <2>0, SetsToRecord DEF Sets, SetsMode, SetsBinding, RestoresBinding, RestoresMode, None
  <2>2. ~Undoes
    BY <1>2, <2>0, MovesToRecord, FailsAtRecord DEF Undoes, None
  <2>3. ~Looks
    <3>1. backend.mode = "autonomous-thread" => backend.id \in Ids
      BY <1>2, NoBackendFields DEF LifecycleInv, TypeInv, BackendTyped, BackendRecord, None
    <3> QED
      BY <1>2, <2>0, <3>1, VerifiesRecord, MovesToRecord, ResetsOnRecord DEF Looks, SettingsTyped, None
  <2>4. ~BeginControl /\ ~ResetThread
    <3>1. BeginControl => ctl.pc = None
      BY DEF BeginControl
    <3>2. ResetThread => ctl.pc = "reset"
      BY DEF ResetThread
    <3> QED
      BY <1>2, <2>0, <3>1, <3>2 DEF CtlTyped
  <2>5. Ends
    BY <1>2, <2>0, <2>1, <2>2, <2>3, <2>4, CtlMoves, ControlMoves
  <2>6. CASE ctl.pc = "checked"
    BY <1>2, <2>5, <2>6 DEF Ends
  <2>7. CASE ctl.pc # "checked"
    <3>1. ctl.old \in Config /\ ctl.old = [mode |-> ctl.old.mode, binding |-> ctl.old.binding]
      BY <1>2, <2>0, <2>7 DEF CtlTyped, Config
    <3> QED
      BY <1>2, <2>5, <2>7, <3>1 DEF Ends, AttachAgrees
  <2> QED
    BY <2>6, <2>7
<1> QED
  BY <1>1, <1>2, AttachAgreesStep, LifecycleInvariant, PTL DEF Spec, AttachIsAllOrNothing

----------------------------------------------------------------------------
(* The loaded backend is the configured one.                               *)

\* Where a control operation waits for the step that loads what it set, and for the
\* step that loads what it put back.
Trying  == {"bind", "mode", "rebind", "remode"}
Undoing == {"unbind", "unmode", "unrebind", "unremode"}

Stored == [mode |-> mode, binding |-> binding]
ControlAsks == \E i \in DOMAIN chain : chain[i].by = "control"
ControlRuns == step.pc # None /\ step.by = "control"
Forced == \E i \in DOMAIN chain : chain[i].force

\* A control operation has one request or one step at a time, while it waits for it; the
\* step is forced, is told of a failed start unless it undoes, and nothing is set
\* while it runs.
ControlIsOne ==
  /\ \A i \in DOMAIN chain :
       chain[i].by = "control" => chain[i].force /\ (chain[i].throws <=> ctl.pc \in Trying)
  /\ \A i, j \in DOMAIN chain : chain[i].by = "control" /\ chain[j].by = "control" => i = j
  /\ ControlAsks => ~ControlRuns
  /\ ControlAsks \/ ControlRuns => ctl.pc \in Trying \cup Undoing /\ outcome["control"] = "none"
  /\ ControlRuns => (step.throws <=> ctl.pc \in Trying) /\ step.want = Stored

\* What a step loads is stored, or a control operation has changed it and asks for its own.
StepIsCurrent == (step.pc # None /\ step.want # Stored) => ControlAsks

SigIsLoaded ==
  backend.id # 0 =>
    /\ sig.mode = backend.mode
    /\ sig.mode # "autonomous-thread" => backend.thread = sig.binding

\* While no start has failed by itself: what failed to load so far was an app-server that was
\* lost, so that no window is loaded; ...
FailedOnApp ==
  (ctl.pc \in Trying /\ outcome["control"] = "error" /\ startFails = 0) =>
    /\ mode \in AppModes
    /\ backend.id # 0 => sig.mode \in AppModes
    /\ step.pc # None => step.want.mode \in AppModes

\* ... a window that is loaded while an operation is undone is the stored one; ...
WindowIsStored ==
  (ctl.pc \in Undoing /\ startFails = 0) =>
    /\ (backend.id # 0 /\ sig.mode = "shadow-window") => sig = Stored
    /\ (step.pc # None /\ step.want.mode = "shadow-window") => step.want = Stored

\* ... and what is loaded differs from what is stored only before the step of the
\* control operation that changed it.
ChangeIsControls ==
  (startFails = 0 /\ backend.id # 0 /\ sig # Stored) => ControlAsks \/ ControlRuns

\* Until a second start fails, what is loaded differs from what is stored only while a step
\* will load it, or a control operation is about to put back what could not be loaded.
StaleIsKnown ==
  (startFails <= 1 /\ backend.id # 0 /\ sig # Stored) =>
    Forced \/ step.pc # None \/ (ctl.pc \in Trying /\ outcome["control"] = "error")

LoadedInv ==
  /\ startFails \in Nat /\ ControlIsOne /\ StepIsCurrent /\ SigIsLoaded /\ FailedOnApp
  /\ WindowIsStored /\ ChangeIsControls /\ StaleIsKnown

\* The chain after a request and after a step has begun.
LEMMA ChainGrows ==
  ASSUME chain \in Seq(Request), NEW r \in Request, chain' = Append(chain, r)
  PROVE  /\ \A i \in DOMAIN chain' :
              \/ i \in DOMAIN chain /\ chain'[i] = chain[i]
              \/ i = Len(chain) + 1 /\ chain'[i] = r
         /\ \A i \in DOMAIN chain : i \in DOMAIN chain' /\ chain'[i] = chain[i]
         /\ Len(chain) + 1 \in DOMAIN chain' /\ chain'[Len(chain) + 1] = r
         /\ Len(chain) + 1 \notin DOMAIN chain
OBVIOUS

LEMMA ChainShrinks ==
  ASSUME chain \in Seq(Request), chain # <<>>, chain' = Tail(chain)
  PROVE  /\ \A i \in DOMAIN chain' :
              i + 1 \in DOMAIN chain /\ chain'[i] = chain[i + 1] /\ i + 1 # 1
         /\ \A i \in DOMAIN chain :
              \/ i = 1 /\ chain[i] = Head(chain)
              \/ i - 1 \in DOMAIN chain' /\ chain'[i - 1] = chain[i]
         /\ 1 \in DOMAIN chain /\ chain[1] = Head(chain)
         /\ \A i, j \in DOMAIN chain' : i + 1 = j + 1 => i = j
OBVIOUS

\* What a step of a control operation asks for, and when.
LEMMA ControlAsksFor ==
  ASSUME ConfirmControl \/ VerifyTarget \/ ControlContinues \/ CheckAttached
  PROVE  \/ /\ Ends \/ Looks
            /\ AwaitNothing
            /\ ctl.pc \in Trying \cup Undoing => outcome["control"] # "none"
            /\ ctl.pc \in Trying => outcome["control"] = "ok"
         \/ /\ Sets /\ Sync("control", TRUE, TRUE)
            /\ ctl.pc \in Trying \cup Undoing => outcome["control"] # "none"
         \/ /\ Undoes /\ Sync("control", TRUE, FALSE)
            /\ outcome["control"] \notin {"none", "ok"}
<1> DEFINE Waits == ctl.pc \in Trying \cup Undoing
<1>1. CASE ConfirmControl
  <2>1. ~Waits /\ ctl.pc \notin Trying
    BY <1>1 DEF ConfirmControl, Trying, Undoing
  <2> HIDE DEF Waits
  <2>2. ((Ends \/ Looks) /\ AwaitNothing) \/ (Sets /\ Sync("control", TRUE, TRUE))
    BY <1>1, Zenon
       DEF ConfirmControl, EndControl, AwaitNothing, SetMode, SetBoundThread, Ends, Sets,
           SetsMode, SetsBinding, Looks, SetsTo, Verifies, ResetsOn
  <2> QED
    BY <2>1, <2>2, Zenon DEF Waits
<1>2. CASE VerifyTarget
  <2>1. ~Waits /\ ctl.pc \notin Trying
    BY <1>2 DEF VerifyTarget, Trying, Undoing
  <2> HIDE DEF Waits
  <2>2. (Ends /\ AwaitNothing) \/ (Sets /\ Sync("control", TRUE, TRUE))
    BY <1>2, Zenon
       DEF VerifyTarget, EndControl, AwaitNothing, SetBoundThread, Ends, Sets, SetsBinding, SetsTo
  <2> QED
    BY <2>1, <2>2, Zenon DEF Waits
<1>3. CASE ControlContinues
  <2>1. outcome["control"] # "none"
    BY <1>3, Zenon DEF ControlContinues
  <2>2. \/ /\ UNCHANGED owner /\ ctl.pc = "bind" /\ ctl.kind = "attach"
           /\ SetMode("shared-thread-resume", [ctl EXCEPT !.pc = "mode"])
        \/ ctl.pc \in {"unbind", "unmode"} /\ ctl.kind = "attach" /\ RestoreBinding
        \/ /\ UNCHANGED owner /\ outcome["control"] # "ok"
           /\ \/ ctl.pc = "bind" /\ UndoBinding([ctl EXCEPT !.pc = "unbind"])
              \/ ctl.pc = "mode" /\ UndoMode([ctl EXCEPT !.pc = "unmode"])
              \/ ctl.pc = "rebind" /\ UndoBinding([ctl EXCEPT !.pc = "unrebind", !.broken = TRUE])
              \/ ctl.pc = "remode" /\ UndoMode([ctl EXCEPT !.pc = "unremode", !.broken = TRUE])
        \/ /\ UNCHANGED owner /\ ctl.pc \in {"rebind", "unrebind"} /\ RestoreMode(ctl)
           /\ outcome["control"] = "ok" \/ ctl.pc = "unrebind"
        \/ /\ UNCHANGED owner /\ AwaitNothing
           /\ \/ outcome["control"] = "ok" \/ ctl.pc \in {"unbind", "unmode", "unremode"}
           /\ \/ /\ ctl' = [ctl EXCEPT !.pc = "status"] /\ ctl.kind = "attach"
                 /\ ctl.pc = "mode" \/ (ctl.pc = "bind" /\ mode = "shared-thread-resume")
              \/ /\ ctl' = NoCtl
                 /\ \/ ctl.pc \in {"remode", "unremode"}
                    \/ ctl.pc \in {"bind", "unbind", "mode", "unmode"} /\ ctl.kind # "attach"
    BY <1>3, ZenonT(40) DEF ControlContinues, EndControl
  <2>3. ctl.pc \in {"unbind", "unmode", "unremode", "unrebind"} => ctl.pc \notin Trying
    BY DEF Trying
  <2>4. CASE /\ UNCHANGED owner /\ ctl.pc = "bind" /\ ctl.kind = "attach"
             /\ SetMode("shared-thread-resume", [ctl EXCEPT !.pc = "mode"])
    BY <2>1, <2>4, Zenon DEF SetMode, Sets, SetsMode, SetsTo
  <2>5. CASE ctl.pc \in {"unbind", "unmode"} /\ ctl.kind = "attach" /\ RestoreBinding
    BY <2>1, <2>5, Zenon DEF RestoreBinding, SetBoundThread, Sets, RestoresBinding, SetsTo
  <2>6. CASE /\ UNCHANGED owner /\ outcome["control"] # "ok"
             /\ \/ ctl.pc = "bind" /\ UndoBinding([ctl EXCEPT !.pc = "unbind"])
                \/ ctl.pc = "mode" /\ UndoMode([ctl EXCEPT !.pc = "unmode"])
                \/ ctl.pc = "rebind" /\ UndoBinding([ctl EXCEPT !.pc = "unrebind", !.broken = TRUE])
                \/ ctl.pc = "remode" /\ UndoMode([ctl EXCEPT !.pc = "unremode", !.broken = TRUE])
    <3>1. Undoes /\ Sync("control", TRUE, FALSE)
      BY <2>6, Zenon DEF UndoBinding, UndoMode, Undoes, MovesTo, FailsAt
    <3> QED
      BY <2>1, <2>6, <3>1
  <2>7. CASE /\ UNCHANGED owner /\ ctl.pc \in {"rebind", "unrebind"} /\ RestoreMode(ctl)
             /\ outcome["control"] = "ok" \/ ctl.pc = "unrebind"
    <3>1. (Ends /\ AwaitNothing) \/ (Sets /\ Sync("control", TRUE, TRUE))
      BY <2>7, Zenon DEF RestoreMode, EndControl, AwaitNothing, SetMode, Ends, Sets, RestoresMode, SetsTo
    <3>2. ctl.pc \in Trying => outcome["control"] = "ok"
      BY <2>3, <2>7
    <3> QED
      BY <2>1, <3>1, <3>2, Zenon
  <2>8. CASE /\ UNCHANGED owner /\ AwaitNothing
             /\ \/ outcome["control"] = "ok" \/ ctl.pc \in {"unbind", "unmode", "unremode"}
             /\ \/ /\ ctl' = [ctl EXCEPT !.pc = "status"] /\ ctl.kind = "attach"
                   /\ ctl.pc = "mode" \/ (ctl.pc = "bind" /\ mode = "shared-thread-resume")
                \/ /\ ctl' = NoCtl
                   /\ \/ ctl.pc \in {"remode", "unremode"}
                      \/ ctl.pc \in {"bind", "unbind", "mode", "unmode"} /\ ctl.kind # "attach"
    <3>1. Ends \/ Looks
      BY <2>8, Zenon DEF AwaitNothing, Ends, Looks, MovesTo
    <3>2. ctl.pc \in Trying => outcome["control"] = "ok"
      BY <2>3, <2>8
    <3> QED
      BY <2>1, <2>8, <3>1, <3>2, Zenon
  <2> QED
    BY <2>2, <2>4, <2>5, <2>6, <2>7, <2>8, Zenon
<1>4. CASE CheckAttached
  <2>1. ~Waits /\ ctl.pc \notin Trying
    BY <1>4 DEF CheckAttached, Trying, Undoing
  <2> HIDE DEF Waits
  <2>2. (Ends /\ AwaitNothing) \/ (Sets /\ Sync("control", TRUE, TRUE))
    BY <1>4, Zenon
       DEF CheckAttached, EndControl, AwaitNothing, SetBoundThread, RestoreBinding, Ends, Sets,
           RestoresBinding, SetsTo
  <2> QED
    BY <2>1, <2>2, Zenon DEF Waits
<1> QED
  BY <1>1, <1>2, <1>3, <1>4

LEMMA FailsMove ==
  ASSUME [Next]_vars
  PROVE  UNCHANGED startFails \/ CandidateFails
BY DEF Next, vars, budget, LifecycleStep, ControlStep, BeginStep, ClosePrevious, PortClosed,
       SpawnCandidate, CandidateStarts, BeginControl, ConfirmControl, VerifyTarget,
       ControlContinues, CheckAttached, ResetThread, Enqueue, LateCheck, PickTask,
       HandleMessage, CheckFree, RequestSync, Synced, StartTurn, ServerStep, OutsideTurnEnds,
       LoseBackend, LoseCandidate, RecoveryAttemptEnds

\* The same with the place the operation is at afterwards.
LEMMA ControlGoesTo ==
  ASSUME LifecycleInv, ConfirmControl \/ VerifyTarget \/ ControlContinues \/ CheckAttached
  PROVE  /\ UNCHANGED <<sig, step, backend, startFails>>
         /\ ctl.pc \in Trying \cup Undoing => outcome["control"] # "none"
         /\ \/ /\ AwaitNothing /\ ctl'.pc \notin Trying \cup Undoing
               /\ ctl.pc \in Trying => outcome["control"] = "ok"
            \/ Sync("control", TRUE, TRUE) /\ ctl'.pc \in Trying
            \/ /\ Sync("control", TRUE, FALSE) /\ ctl'.pc \in Undoing
               /\ ctl.pc \in Trying /\ outcome["control"] = "error"
<1>1. /\ ctl \in CtlRecord /\ mode \in Modes \cup Bindings /\ binding \in Modes \cup Bindings
      /\ [mode |-> mode, binding |-> binding] \in Config /\ owner \in Owners
      /\ Trying \cup Undoing \cup {"verify", "reset", "status"} \subseteq CtlPcs
      /\ outcome["control"] \in {"none", "ok", "error"} /\ NoCtl.pc = None
  <2>1. "control" \in Callers /\ RequestsTyped
    BY DEF Callers, LifecycleInv, TypeInv
  <2>2. outcome["control"] \in {"none", "ok", "error"}
    BY <2>1 DEF RequestsTyped
  <2>3. NoCtl.pc = None
    BY Zenon DEF NoCtl
  <2> QED
    BY <2>2, <2>3 DEF LifecycleInv, TypeInv, CtlTyped, SettingsTyped, Config, CtlPcs, Trying, Undoing
<1>2. UNCHANGED <<sig, step, backend, startFails>>
  BY DEF ConfirmControl, VerifyTarget, ControlContinues, CheckAttached, unchangedByControl, budget
<1>3. ASSUME Ends PROVE ctl'.pc \notin Trying \cup Undoing
  BY <1>1, <1>3 DEF Ends, Trying, Undoing, None
<1>4. ASSUME Looks PROVE ctl'.pc \notin Trying \cup Undoing
  <2>1. ctl'.pc \in {"verify", "reset", "status"}
    <3>1. backend.mode = "autonomous-thread" => backend.id \in Ids
      BY NoBackendFields DEF LifecycleInv, TypeInv, BackendTyped, BackendRecord, None
    <3> QED
      BY <1>1, <1>4, <3>1, VerifiesRecord, MovesToRecord, ResetsOnRecord DEF Looks
  <2> QED
    BY <2>1 DEF Trying, Undoing
<1>5. ASSUME Sets PROVE ctl'.pc \in Trying
  <2>1. \E p \in {"mode", "bind", "rebind", "remode"}, v \in Modes \cup Bindings : SetsTo(ctl, ctl', p, v)
    BY <1>1, <1>5, Zenon DEF Sets, SetsMode, SetsBinding, RestoresBinding, RestoresMode
  <2> QED
    BY <1>1, <2>1, SetsToRecord DEF Trying
<1>6. ASSUME Undoes PROVE ctl'.pc \in Undoing /\ ctl.pc \in Trying
  <2>1. /\ ctl.pc \in Trying
        /\ \E p \in Undoing : MovesTo(ctl, ctl', p) \/ FailsAt(ctl, ctl', p)
    BY <1>6 DEF Undoes, Trying, Undoing
  <2> QED
    BY <1>1, <2>1, MovesToRecord, FailsAtRecord
<1>7. CASE /\ Ends \/ Looks
           /\ AwaitNothing
           /\ ctl.pc \in Trying \cup Undoing => outcome["control"] # "none"
           /\ ctl.pc \in Trying => outcome["control"] = "ok"
  BY <1>2, <1>3, <1>4, <1>7
<1>8. CASE /\ Sets /\ Sync("control", TRUE, TRUE)
           /\ ctl.pc \in Trying \cup Undoing => outcome["control"] # "none"
  BY <1>2, <1>5, <1>8
<1>9. CASE Undoes /\ Sync("control", TRUE, FALSE) /\ outcome["control"] \notin {"none", "ok"}
  BY <1>1, <1>2, <1>6, <1>9
<1> QED
  BY <1>7, <1>8, <1>9, ControlAsksFor

\* The steps of the other parties: turns, losses, recoveries and what a control operation
\* does before and without a change.
Aside ==
  /\ UNCHANGED <<mode, binding, sig, step, startFails>>
  /\ backend'.id = backend.id /\ backend'.mode = backend.mode
  /\ backend.mode # "autonomous-thread" => backend'.thread = backend.thread
  /\ outcome'["control"] = outcome["control"]
  /\ \/ UNCHANGED chain
     \/ \E r \in Request : r.by # "control" /\ chain' = Append(chain, r)
  /\ \/ UNCHANGED ctl
     \/ ctl.pc \in {None, "reset"} /\ ctl'.pc \in {None, "checked"}

LEMMA StepsOfLoaded ==
  ASSUME LifecycleInv, [Next]_vars
  PROVE  \/ BeginStep \/ ClosePrevious \/ PortClosed \/ SpawnCandidate \/ CandidateStarts
         \/ CandidateFails \/ ConfirmControl \/ VerifyTarget \/ ControlContinues
         \/ CheckAttached \/ Aside
<1> SUFFICES ASSUME ~BeginStep, ~ClosePrevious, ~PortClosed, ~SpawnCandidate,
                    ~CandidateStarts, ~CandidateFails, ~ConfirmControl, ~VerifyTarget,
                    ~ControlContinues, ~CheckAttached
             PROVE  Aside
  OBVIOUS
<1>0. TypeInv /\ RequestsTyped /\ ResetIsOfSession
  BY DEF LifecycleInv, TypeInv
<1>1. UNCHANGED <<mode, binding, sig, step, startFails>>
  BY SettingsMove, SigMoves, StepMoves, FailsMove DEF settings
<1>2. /\ backend'.id = backend.id /\ backend'.mode = backend.mode
      /\ backend.mode # "autonomous-thread" => backend'.thread = backend.thread
  <2>1. CASE UNCHANGED backend
    BY <2>1
  <2>2. CASE ResetThread
    <3>1. backend.mode # "autonomous-thread" => UNCHANGED backend
      BY <1>0, <2>2 DEF ResetThread, ResetIsOfSession
    <3> QED
      BY <1>0, <2>2, <3>1, BackendIdStays
  <2>3. CASE ~ResetThread /\ (HandleMessage \/ LoseBackend \/ \E u \in Users : StartTurn(u))
    BY <1>0, <2>3, BackendIdStays
  <2> QED
    BY <2>1, <2>2, <2>3, BackendMoves
<1>3. /\ outcome'["control"] = outcome["control"]
      /\ \/ UNCHANGED chain
         \/ \E r \in Request : r.by # "control" /\ chain' = Append(chain, r)
  <2>1. ASSUME NEW c \in Callers \ {"control"},
               Sync(c, TRUE, TRUE) \/ Sync(c, FALSE, FALSE)
        PROVE  /\ outcome'["control"] = outcome["control"]
               /\ \E r \in Request : r.by # "control" /\ chain' = Append(chain, r)
    <3>1. /\ [by |-> c, force |-> TRUE, throws |-> TRUE] \in Request
          /\ [by |-> c, force |-> FALSE, throws |-> FALSE] \in Request
      BY Zenon DEF Request
    <3>2. \E r \in Request : r.by = c /\ chain' = Append(chain, r)
      BY <2>1, <3>1, Zenon DEF Sync
    <3>3. outcome' = [outcome EXCEPT ![c] = "none"] /\ c # "control"
      BY <2>1, Zenon DEF Sync
    <3>4. "control" \in Callers
      BY DEF Callers
    <3> QED
      BY <1>0, <3>2, <3>3, <3>4 DEF RequestsTyped
  <2>2. ASSUME NEW c \in Callers \ {"control"}, outcome' = [outcome EXCEPT ![c] = "none"]
        PROVE  outcome'["control"] = outcome["control"]
    BY <1>0, <2>2 DEF RequestsTyped, Callers
  <2>3. CASE UNCHANGED <<chain, outcome>>
    BY <2>3
  <2>4. CASE LoseBackend \/ LoseCandidate \/ RecoveryAttemptEnds
    <3>1. \/ UNCHANGED <<chain, outcome>>
          \/ Sync("recovery", TRUE, TRUE)
          \/ UNCHANGED chain /\ outcome' = [outcome EXCEPT !["recovery"] = "none"]
      BY <2>4, Zenon DEF LoseBackend, LoseCandidate, RecoveryAttemptEnds, BackendUnavailable
    <3>2. "recovery" \in Callers \ {"control"}
      BY DEF Callers
    <3> QED
      BY <2>1, <2>2, <2>3, <3>1, <3>2
  <2>5. CASE \E u \in Users : RequestSync(u) \/ Synced(u)
    <3>1. PICK u \in Users : RequestSync(u) \/ Synced(u)
      BY <2>5
    <3>2. \/ UNCHANGED <<chain, outcome>>
          \/ Sync(u, FALSE, FALSE)
          \/ UNCHANGED chain /\ outcome' = [outcome EXCEPT ![u] = "none"]
      BY <3>1, Zenon DEF RequestSync, Synced
    <3>3. u \in Callers \ {"control"}
      BY DEF Callers, Users
    <3> QED
      BY <2>1, <2>2, <2>3, <3>2, <3>3
  <2> QED
    BY <2>3, <2>4, <2>5, RequestsMove
<1>4. \/ UNCHANGED ctl
      \/ ctl.pc \in {None, "reset"} /\ ctl'.pc \in {None, "checked"}
  <2>1. CASE UNCHANGED ctl
    BY <2>1
  <2>2. CASE BeginControl
    <3>1. ctl.pc = None /\ Opens(ctl')
      BY <2>2 DEF BeginControl, Opens
    <3> QED
      BY <3>1, OpensRecord
  <2>3. CASE ResetThread
    <3>1. ctl.pc = "reset" /\ ctl' = NoCtl
      BY <2>3 DEF ResetThread
    <3> QED
      BY <3>1, NoCtlTyped
  <2> QED
    BY <2>1, <2>2, <2>3, CtlMoves
<1> QED
  BY <1>1, <1>2, <1>3, <1>4 DEF Aside

\* The end of a step tells who asked for it, ...
LEMMA StepEnds ==
  ASSUME TypeInv, step.pc # None, NEW res, Finish(res)
  PROVE  /\ step \in StepRecord /\ step' = NoStep /\ step'.pc = None
         /\ outcome' = [outcome EXCEPT ![step.by] = res]
         /\ ControlRuns => outcome'["control"] = res
         /\ ~ControlRuns => outcome'["control"] = outcome["control"]
<1>1. step \in StepRecord /\ step.by \in Callers
  BY NoStepFields DEF TypeInv, StepTyped, StepRecord
<1>2. step' = NoStep /\ outcome' = [outcome EXCEPT ![step.by] = res]
  BY Zenon DEF Finish
<1>3. outcome \in [Callers -> {"none", "ok", "error"}] /\ "control" \in Callers
  BY DEF TypeInv, RequestsTyped, Callers
<1>4. step'.pc = None
  BY <1>2, NoStepFields
<1> QED
  BY <1>1, <1>2, <1>3, <1>4 DEF ControlRuns

\* ... and leaves nothing of it.
LEMMA OneEnds ==
  ASSUME TypeInv, ControlIsOne, step.pc # None, NEW res, Finish(res), UNCHANGED <<chain, ctl>>
  PROVE  ControlIsOne'
<1>1. /\ step'.pc = None
      /\ ~ControlRuns => outcome'["control"] = outcome["control"]
  BY StepEnds
<1>2. ~ControlRuns'
  BY <1>1 DEF ControlRuns
<1>3. ControlAsks' <=> ControlAsks
  BY DEF ControlAsks
<1> QED
  BY <1>1, <1>2, <1>3 DEF ControlIsOne

\* Until then it keeps what it was begun with.
LEMMA OneGoesOn ==
  ASSUME TypeInv, ControlIsOne, step.pc # None, UNCHANGED <<chain, ctl, outcome, mode, binding>>,
         NEW p \in StepPcs, step' = [step EXCEPT !.pc = p]
  PROVE  /\ ControlIsOne' /\ step'.pc # None /\ step'.want = step.want
         /\ UNCHANGED <<ControlAsks, ControlRuns, Forced, Stored>>
<1>1. step \in StepRecord
  BY NoStepFields DEF TypeInv, StepTyped
<1>2. /\ step'.pc = p /\ step'.by = step.by /\ step'.throws = step.throws
      /\ step'.want = step.want
  BY <1>1, StepRecordMoves
<1>3. p # None
  BY DEF StepPcs, None
<1>4. UNCHANGED <<ControlAsks, ControlRuns, Forced, Stored>>
  BY <1>2, <1>3 DEF ControlAsks, ControlRuns, Forced, Stored
<1> QED
  BY <1>2, <1>3, <1>4 DEF ControlIsOne

LEMMA BeginLoads ==
  ASSUME TypeInv, BeginStep
  PROVE  LET r == Head(chain) IN
         /\ r \in Request /\ chain # <<>> /\ chain' = Tail(chain) /\ step.pc = None
         /\ UNCHANGED <<mode, binding, backend, ctl, startFails>>
         /\ \/ /\ ~r.force /\ UNCHANGED <<step, sig>>
               /\ outcome' = [outcome EXCEPT ![r.by] = "ok"]
            \/ /\ backend.id = 0 /\ UNCHANGED step /\ sig' = Stored
               /\ outcome' = [outcome EXCEPT ![r.by] = "ok"]
            \/ /\ UNCHANGED <<sig, outcome>>
               /\ step'.pc # None /\ step'.by = r.by /\ step'.throws = r.throws
               /\ step'.want = Stored
<1> DEFINE r == Head(chain)
<1>1. r \in Request /\ step = NoStep
  BY StepBegun
<1>2. /\ chain # <<>> /\ chain' = Tail(chain) /\ step.pc = None
      /\ UNCHANGED <<mode, binding, backend, ctl, startFails>>
  BY Zenon DEF BeginStep, settings, budget
<1>3. \/ /\ ~r.force /\ UNCHANGED <<step, sig>>
         /\ outcome' = [outcome EXCEPT ![r.by] = "ok"]
      \/ /\ backend.id = 0 /\ UNCHANGED step /\ sig' = Stored
         /\ outcome' = [outcome EXCEPT ![r.by] = "ok"]
      \/ /\ UNCHANGED <<sig, outcome>>
         /\ \E p \in {"closing", "spawn"} : Begins(r, Stored, p, step')
  <2> DEFINE begun == [NoStep EXCEPT !.by = r.by, !.force = r.force, !.throws = r.throws,
                                     !.want = Stored]
             unbound == mode # "autonomous-thread" /\ binding = None
  <2>1. \/ /\ ~r.force /\ UNCHANGED <<step, sig>>
           /\ outcome' = [outcome EXCEPT ![r.by] = "ok"]
        \/ /\ backend.id = 0 /\ UNCHANGED step /\ sig' = Stored
           /\ outcome' = [outcome EXCEPT ![r.by] = "ok"]
        \/ /\ UNCHANGED <<sig, outcome>>
           /\ \/ step' = [begun EXCEPT !.pc = "closing", !.closed = ~unbound]
              \/ step' = [begun EXCEPT !.pc = "spawn"]
    BY Zenon DEF BeginStep, Stored
  <2>2. (~unbound) \in BOOLEAN
    OBVIOUS
  <2> HIDE DEF unbound
  <2>3. ASSUME step' = [begun EXCEPT !.pc = "closing", !.closed = ~unbound]
        PROVE  Begins(r, Stored, "closing", step')
    BY <2>2, <2>3, Zenon DEF Begins
  <2>4. ASSUME step' = [begun EXCEPT !.pc = "spawn"]
        PROVE  Begins(r, Stored, "spawn", step')
    BY <2>4, Zenon DEF Begins
  <2> HIDE DEF begun
  <2> QED
    BY <2>1, <2>3, <2>4
<1>4. ASSUME NEW p \in {"closing", "spawn"}, Begins(r, Stored, p, step')
      PROVE  /\ step'.pc # None /\ step'.by = r.by /\ step'.throws = r.throws
             /\ step'.want = Stored
  <2>1. p \in StepPcs /\ p # None /\ Stored \in Config
    BY DEF StepPcs, None, Stored, Config, TypeInv, SettingsTyped
  <2> QED
    BY <1>1, <1>4, <2>1, BegunRecord
<1> QED
  BY <1>1, <1>2, <1>3, <1>4

LEMMA BeginKeepsLoaded == LifecycleInv /\ LoadedInv /\ BeginStep => LoadedInv'
<1> SUFFICES ASSUME LifecycleInv, LoadedInv, BeginStep PROVE LoadedInv'
  OBVIOUS
<1> DEFINE r == Head(chain)
<1>0. TypeInv /\ chain \in Seq(Request)
  BY DEF LifecycleInv, TypeInv, RequestsTyped
<1>1. /\ r \in Request /\ chain # <<>> /\ chain' = Tail(chain) /\ step.pc = None
      /\ UNCHANGED <<mode, binding, backend, ctl, startFails>> /\ Stored' = Stored
  BY <1>0, BeginLoads DEF Stored
<1>2. \/ /\ ~r.force /\ UNCHANGED <<step, sig>>
         /\ outcome' = [outcome EXCEPT ![r.by] = "ok"]
      \/ /\ backend.id = 0 /\ UNCHANGED step /\ sig' = Stored
         /\ outcome' = [outcome EXCEPT ![r.by] = "ok"]
      \/ /\ UNCHANGED <<sig, outcome>>
         /\ step'.pc # None /\ step'.by = r.by /\ step'.throws = r.throws
         /\ step'.want = Stored
  BY <1>0, BeginLoads
<1>3. /\ \A i \in DOMAIN chain' :
           i + 1 \in DOMAIN chain /\ chain'[i] = chain[i + 1] /\ i + 1 # 1
      /\ \A i \in DOMAIN chain :
           \/ i = 1 /\ chain[i] = r
           \/ i - 1 \in DOMAIN chain' /\ chain'[i - 1] = chain[i]
      /\ 1 \in DOMAIN chain /\ chain[1] = r
      /\ \A i, j \in DOMAIN chain' : i + 1 = j + 1 => i = j
  BY <1>0, <1>1, ChainShrinks
<1>4. outcome \in [Callers -> {"none", "ok", "error"}] /\ r.by \in Callers
  BY <1>0, <1>1 DEF TypeInv, RequestsTyped, Request
<1> HIDE DEF r
<1>5. /\ outcome'["control"] = "error" => outcome["control"] = "error"
      /\ r.by # "control" => outcome'["control"] = outcome["control"]
  BY <1>2, <1>4 DEF Callers
<1>6. /\ r.by # "control" => (ControlAsks' <=> ControlAsks)
      /\ r.by = "control" => ControlAsks /\ ~ControlAsks' /\ r.force
      /\ ~r.force => (Forced => Forced')
  BY <1>3 DEF ControlAsks, Forced, LoadedInv, ControlIsOne
<1>7. ~ControlRuns /\ (ControlRuns' <=> step'.pc # None /\ r.by = "control")
  BY <1>1, <1>2 DEF ControlRuns
<1>8. ControlIsOne'
  <2>1. \A i \in DOMAIN chain' :
          chain'[i].by = "control" => chain'[i].force /\ (chain'[i].throws <=> ctl'.pc \in Trying)
    BY <1>1, <1>3 DEF LoadedInv, ControlIsOne
  <2>2. \A i, j \in DOMAIN chain' : chain'[i].by = "control" /\ chain'[j].by = "control" => i = j
    BY <1>3 DEF LoadedInv, ControlIsOne
  <2>3. ControlAsks' => ~ControlRuns'
    BY <1>6, <1>7
  <2>4. ControlAsks' \/ ControlRuns' => ctl'.pc \in Trying \cup Undoing /\ outcome'["control"] = "none"
    BY <1>1, <1>2, <1>5, <1>6, <1>7 DEF LoadedInv, ControlIsOne
  <2>5. ControlRuns' => (step'.throws <=> ctl'.pc \in Trying) /\ step'.want = Stored'
    BY <1>1, <1>2, <1>3, <1>7 DEF LoadedInv, ControlIsOne
  <2> QED
    BY <2>1, <2>2, <2>3, <2>4, <2>5 DEF ControlIsOne
<1>9. StepIsCurrent' /\ SigIsLoaded'
  BY <1>1, <1>2 DEF LoadedInv, StepIsCurrent, SigIsLoaded
<1>10. FailedOnApp' /\ WindowIsStored'
  BY <1>1, <1>2, <1>5 DEF LoadedInv, FailedOnApp, WindowIsStored, Stored
<1>11. ChangeIsControls' /\ StaleIsKnown'
  BY <1>1, <1>2, <1>5, <1>6, <1>7 DEF LoadedInv, ChangeIsControls, StaleIsKnown
<1> QED
  BY <1>1, <1>8, <1>9, <1>10, <1>11 DEF LoadedInv

LEMMA CloseKeepsLoaded ==
  LifecycleInv /\ LoadedInv /\ (ClosePrevious \/ PortClosed \/ SpawnCandidate) => LoadedInv'
<1> SUFFICES ASSUME LifecycleInv, LoadedInv, ClosePrevious \/ PortClosed \/ SpawnCandidate
             PROVE  LoadedInv'
  OBVIOUS
<1>0. TypeInv /\ ServersAreOwned
  BY DEF LifecycleInv
<1>1. /\ UNCHANGED <<mode, binding, chain, ctl, startFails>> /\ step.pc # None
      /\ step.pc \in {"closing", "port", "spawn"} /\ Stored' = Stored
  BY DEF ClosePrevious, PortClosed, SpawnCandidate, settings, budget, None, Stored
<1>2. backend'.id = 0 \/ UNCHANGED <<backend, sig>>
  BY NoBackendFields DEF ClosePrevious, PortClosed, SpawnCandidate
<1>3. \/ Finish("ok") /\ backend'.id = 0
      \/ UNCHANGED outcome /\ \E p \in StepPcs : step' = [step EXCEPT !.pc = p]
  <2>1. CASE ClosePrevious
    <3>1. IF step.closed
          THEN /\ UNCHANGED outcome
               /\ step' = [step EXCEPT !.pc = IF UsesAppServer(step.want.mode) THEN "port" ELSE "spawn"]
          ELSE Finish("ok")
      BY <2>1, Zenon DEF ClosePrevious
    <3>2. backend'.id = 0
      BY <2>1, NoBackendFields DEF ClosePrevious
    <3>3. {"port", "spawn"} \subseteq StepPcs
      BY DEF StepPcs
    <3> QED
      BY <3>1, <3>2, <3>3
  <2>2. CASE PortClosed
    <3>1. procs = {}
      BY <1>0, <2>2, NoBackendFields DEF PortClosed, ServersAreOwned, TypeInv, CandTyped, ServersTyped, Ids
    <3>2. UNCHANGED outcome /\ step' = [step EXCEPT !.pc = "spawn"] /\ "spawn" \in StepPcs
      BY <2>2, <3>1 DEF PortClosed, StepPcs
    <3> QED
      BY <3>2
  <2>3. CASE SpawnCandidate
    BY <2>3 DEF SpawnCandidate, StepPcs
  <2> QED
    BY <2>1, <2>2, <2>3
<1>4. CASE Finish("ok") /\ backend'.id = 0
  <2>1. /\ ControlIsOne' /\ step'.pc = None
        /\ outcome'["control"] = "error" => outcome["control"] = "error"
    BY <1>0, <1>1, <1>4, OneEnds, StepEnds DEF LoadedInv
  <2> QED
    BY <1>1, <1>4, <2>1
       DEF LoadedInv, StepIsCurrent, SigIsLoaded, FailedOnApp, WindowIsStored, ChangeIsControls,
           StaleIsKnown
<1>5. CASE UNCHANGED outcome /\ \E p \in StepPcs : step' = [step EXCEPT !.pc = p]
  <2>1. /\ ControlIsOne' /\ step'.pc # None /\ step'.want = step.want
        /\ UNCHANGED <<ControlAsks, ControlRuns, Forced, Stored>>
    BY <1>0, <1>1, <1>5, OneGoesOn DEF LoadedInv
  <2>2. StepIsCurrent' /\ SigIsLoaded'
    BY <1>1, <1>2, <2>1 DEF LoadedInv, StepIsCurrent, SigIsLoaded
  <2>3. FailedOnApp' /\ WindowIsStored'
    BY <1>1, <1>2, <1>5, <2>1 DEF LoadedInv, FailedOnApp, WindowIsStored
  <2>4. ChangeIsControls' /\ StaleIsKnown'
    BY <1>1, <1>2, <1>5, <2>1 DEF LoadedInv, ChangeIsControls, StaleIsKnown
  <2> QED
    BY <1>1, <2>1, <2>2, <2>3, <2>4 DEF LoadedInv
<1> QED
  BY <1>3, <1>4, <1>5

LEMMA StartKeepsLoaded ==
  LifecycleInv /\ LifecycleInv' /\ LoadedInv /\ CandidateStarts => LoadedInv'
<1> SUFFICES ASSUME LifecycleInv, LifecycleInv', LoadedInv, CandidateStarts PROVE LoadedInv'
  OBVIOUS
<1>0. TypeInv /\ ThreadsTyped'
  BY DEF LifecycleInv, TypeInv
<1>1. /\ UNCHANGED <<mode, binding, chain, ctl, startFails>> /\ step.pc = "starting"
      /\ sig' = step.want /\ Stored' = Stored /\ step.pc # None
  BY DEF CandidateStarts, settings, budget, None, Stored
<1>2. Finish("ok")
  BY Zenon DEF CandidateStarts
<1>3. /\ ControlIsOne' /\ step'.pc = None
      /\ outcome'["control"] = "error" => outcome["control"] = "error"
  BY <1>0, <1>1, <1>2, OneEnds, StepEnds DEF LoadedInv
<1>4. SigIsLoaded'
  BY <1>0, <1>1, CandidateLoaded DEF SigIsLoaded
<1>5. StepIsCurrent' /\ FailedOnApp' /\ WindowIsStored'
  BY <1>1, <1>3 DEF LoadedInv, StepIsCurrent, FailedOnApp, WindowIsStored
<1>6. sig' # Stored' => ControlAsks' /\ Forced'
  BY <1>1 DEF LoadedInv, StepIsCurrent, ControlIsOne, ControlAsks, Forced
<1>7. ChangeIsControls' /\ StaleIsKnown'
  BY <1>6 DEF ChangeIsControls, StaleIsKnown
<1> QED
  BY <1>1, <1>3, <1>4, <1>5, <1>7 DEF LoadedInv

\* A window whose start fails leaves the previous one loaded.  It is the stored one, unless
\* a control operation asks for its own step, or was told; a second failed start could be
\* the one that undoes it.
LEMMA FailureKeepsLoaded ==
  LifecycleInv /\ LoadedInv /\ CandidateFails => LoadedInv'
<1> SUFFICES ASSUME LifecycleInv, LoadedInv, CandidateFails PROVE LoadedInv'
  OBVIOUS
<1>0. TypeInv /\ ServersAreOwned
  BY DEF LifecycleInv
<1>1. /\ UNCHANGED <<mode, binding, chain, ctl, backend, sig>> /\ step.pc = "starting"
      /\ Stored' = Stored /\ step.pc # None
  BY DEF CandidateFails, settings, None, Stored
<1>2. PICK res \in {"ok", "error"} :
        Finish(res) /\ (res = "ok" => backend.id # 0 /\ ~step.throws)
  BY Zenon DEF CandidateFails
<1>3. /\ ControlIsOne' /\ step'.pc = None
      /\ ControlRuns => outcome'["control"] = res
      /\ ~ControlRuns => outcome'["control"] = outcome["control"]
  BY <1>0, <1>1, <1>2, OneEnds, StepEnds DEF LoadedInv
<1>4. SigIsLoaded' /\ StepIsCurrent'
  BY <1>1, <1>3 DEF LoadedInv, SigIsLoaded, StepIsCurrent
<1>5. CASE startFails' = startFails + 1
  <2>1. startFails' \in Nat /\ startFails' # 0 /\ (startFails' <= 1 => startFails = 0)
    BY <1>5 DEF LoadedInv
  <2>2. ASSUME startFails = 0, backend.id # 0, sig # Stored
        PROVE  Forced \/ (ctl.pc \in Trying /\ outcome'["control"] = "error")
    <3>1. CASE ControlAsks
      BY <3>1 DEF LoadedInv, ControlIsOne, ControlAsks, Forced
    <3>2. CASE ControlRuns /\ step.throws
      BY <1>2, <1>3, <3>2 DEF LoadedInv, ControlIsOne
    <3>3. CASE ControlRuns /\ ~step.throws
      <4>1. step.want = Stored /\ ctl.pc \in Undoing
        BY <3>3 DEF LoadedInv, ControlIsOne
      <4>2. backend.mode \notin AppModes /\ backend.mode \in Modes
        BY <1>0, <1>1, <2>2, NoBackendFields DEF ServersAreOwned, UsesAppServer, TypeInv, BackendTyped, BackendRecord
      <4>3. sig.mode = "shadow-window"
        BY <2>2, <4>2 DEF LoadedInv, SigIsLoaded, Modes
      <4> QED
        BY <2>2, <4>1, <4>3 DEF LoadedInv, WindowIsStored
    <3> QED
      BY <2>2, <3>1, <3>2, <3>3 DEF LoadedInv, ChangeIsControls
  <2>3. StaleIsKnown'
    BY <1>1, <2>1, <2>2 DEF StaleIsKnown, Forced
  <2> QED
    BY <1>3, <1>4, <2>1, <2>3 DEF LoadedInv, FailedOnApp, WindowIsStored, ChangeIsControls
<1>6. CASE UsesAppServer(cand.mode) /\ UNCHANGED startFails
  <2>1. backend.id = 0 /\ step.want.mode \in AppModes
    BY <1>0, <1>1, <1>6 DEF ServersAreOwned, TypeInv, CandTyped, UsesAppServer
  <2>2. ControlRuns => mode \in AppModes
    BY <2>1 DEF LoadedInv, ControlIsOne, Stored
  <2>3. FailedOnApp'
    BY <1>1, <1>3, <1>6, <2>1, <2>2 DEF LoadedInv, FailedOnApp
  <2>4. WindowIsStored' /\ ChangeIsControls' /\ StaleIsKnown'
    BY <1>1, <1>3, <2>1 DEF WindowIsStored, ChangeIsControls, StaleIsKnown
  <2> QED
    BY <1>3, <1>4, <1>6, <2>3, <2>4 DEF LoadedInv
<1>7. \/ startFails' = startFails + 1
      \/ UsesAppServer(cand.mode) /\ UNCHANGED startFails
  BY DEF CandidateFails
<1> QED
  BY <1>5, <1>6, <1>7

\* A control operation that asks for a step.
LEMMA AskKeepsOne ==
  ASSUME TypeInv, ControlIsOne, UNCHANGED step,
         ctl.pc \in Trying \cup Undoing => outcome["control"] # "none",
         NEW throws \in BOOLEAN, Sync("control", TRUE, throws),
         ctl'.pc \in Trying \cup Undoing, throws <=> ctl'.pc \in Trying
  PROVE  /\ ControlIsOne' /\ ControlAsks' /\ Forced' /\ outcome'["control"] = "none"
         /\ ~ControlRuns
<1> DEFINE r == [by |-> "control", force |-> TRUE, throws |-> throws]
<1>1. r \in Request /\ r.by = "control" /\ r.force /\ r.throws = throws /\ "control" \in Callers
  BY DEF Request, Callers
<1>2. chain' = Append(chain, r) /\ outcome' = [outcome EXCEPT !["control"] = "none"]
  BY Zenon DEF Sync
<1> HIDE DEF r
<1>3. chain \in Seq(Request) /\ outcome'["control"] = "none"
  BY <1>1, <1>2 DEF TypeInv, RequestsTyped
<1>4. /\ \A i \in DOMAIN chain' :
           \/ i \in DOMAIN chain /\ chain'[i] = chain[i]
           \/ i = Len(chain) + 1 /\ chain'[i] = r
      /\ Len(chain) + 1 \in DOMAIN chain' /\ chain'[Len(chain) + 1] = r
  BY <1>1, <1>2, <1>3, ChainGrows
<1>5. ~ControlAsks /\ ~ControlRuns /\ ~ControlRuns'
  BY DEF ControlIsOne, ControlRuns
<1>6. \A i \in DOMAIN chain' : chain'[i].by = "control" => i = Len(chain) + 1 /\ chain'[i] = r
  BY <1>4, <1>5 DEF ControlAsks
<1>7. ControlAsks' /\ Forced'
  BY <1>1, <1>4 DEF ControlAsks, Forced
<1> QED
  BY <1>1, <1>3, <1>5, <1>6, <1>7 DEF ControlIsOne

LEMMA ControlKeepsLoaded ==
  /\ LifecycleInv /\ LoadedInv
  /\ ConfirmControl \/ VerifyTarget \/ ControlContinues \/ CheckAttached
  => LoadedInv'
<1> SUFFICES ASSUME LifecycleInv, LoadedInv,
                    ConfirmControl \/ VerifyTarget \/ ControlContinues \/ CheckAttached
             PROVE  LoadedInv'
  OBVIOUS
<1>0. TypeInv /\ "control" \in Callers /\ outcome \in [Callers -> {"none", "ok", "error"}]
  BY DEF LifecycleInv, TypeInv, RequestsTyped, Callers
<1>1. /\ UNCHANGED <<sig, step, backend, startFails>>
      /\ ctl.pc \in Trying \cup Undoing => outcome["control"] # "none"
  BY ControlGoesTo
<1>2. SigIsLoaded'
  BY <1>1 DEF LoadedInv, SigIsLoaded
<1>3. CASE /\ AwaitNothing /\ ctl'.pc \notin Trying \cup Undoing
           /\ ctl.pc \in Trying => outcome["control"] = "ok"
  <2>1. /\ UNCHANGED <<mode, binding, chain>> /\ outcome'["control"] = "none"
        /\ Stored' = Stored /\ (ControlAsks' <=> ControlAsks) /\ (ControlRuns' <=> ControlRuns)
        /\ (Forced' <=> Forced)
    BY <1>0, <1>1, <1>3 DEF AwaitNothing, Stored, ControlAsks, ControlRuns, Forced
  <2>2. ControlIsOne' /\ ~ControlAsks /\ ~ControlRuns
    BY <1>1, <2>1 DEF LoadedInv, ControlIsOne, ControlAsks
  <2>3. StepIsCurrent' /\ FailedOnApp' /\ WindowIsStored'
    BY <1>1, <1>3, <2>1 DEF LoadedInv, StepIsCurrent, FailedOnApp, WindowIsStored
  <2>4. ChangeIsControls' /\ StaleIsKnown'
    BY <1>1, <1>3, <2>1 DEF LoadedInv, ChangeIsControls, StaleIsKnown
  <2> QED
    BY <1>1, <1>2, <2>2, <2>3, <2>4 DEF LoadedInv
<1>4. CASE Sync("control", TRUE, TRUE) /\ ctl'.pc \in Trying
  <2>1. ControlIsOne' /\ ControlAsks' /\ Forced' /\ outcome'["control"] = "none"
    BY <1>0, <1>1, <1>4, AskKeepsOne DEF LoadedInv
  <2>2. ctl'.pc \notin Undoing
    BY <1>4 DEF Trying, Undoing
  <2> QED
    BY <1>1, <1>2, <2>1, <2>2
       DEF LoadedInv, StepIsCurrent, FailedOnApp, WindowIsStored, ChangeIsControls, StaleIsKnown
<1>5. CASE /\ Sync("control", TRUE, FALSE) /\ ctl'.pc \in Undoing
           /\ ctl.pc \in Trying /\ outcome["control"] = "error"
  <2>1. ctl'.pc \notin Trying
    BY <1>5 DEF Trying, Undoing
  <2>2. ControlIsOne' /\ ControlAsks' /\ Forced'
    BY <1>0, <1>1, <1>5, <2>1, AskKeepsOne DEF LoadedInv
  <2>3. WindowIsStored'
    BY <1>1, <1>5 DEF LoadedInv, FailedOnApp, WindowIsStored, AppModes
  <2> QED
    BY <1>1, <1>2, <2>1, <2>2, <2>3
       DEF LoadedInv, StepIsCurrent, FailedOnApp, ChangeIsControls, StaleIsKnown
<1> QED
  BY <1>3, <1>4, <1>5, ControlGoesTo

LEMMA AsideKeepsLoaded == LifecycleInv /\ LoadedInv /\ Aside => LoadedInv'
<1> SUFFICES ASSUME LifecycleInv, LoadedInv, Aside PROVE LoadedInv'
  OBVIOUS
<1>0. chain \in Seq(Request)
  BY DEF LifecycleInv, TypeInv, RequestsTyped
<1>1. /\ UNCHANGED <<mode, binding, sig, step, startFails>> /\ Stored' = Stored
      /\ backend'.id = backend.id /\ (ControlRuns' <=> ControlRuns)
      /\ outcome'["control"] = outcome["control"]
  BY DEF Aside, Stored, ControlRuns
<1>2. /\ \A i \in DOMAIN chain' : (i \in DOMAIN chain /\ chain'[i] = chain[i]) \/ chain'[i].by # "control"
      /\ \A i \in DOMAIN chain : i \in DOMAIN chain' /\ chain'[i] = chain[i]
  <2>1. CASE UNCHANGED chain
    BY <2>1
  <2>2. ASSUME NEW r \in Request, r.by # "control", chain' = Append(chain, r)
        PROVE  /\ \A i \in DOMAIN chain' :
                     (i \in DOMAIN chain /\ chain'[i] = chain[i]) \/ chain'[i].by # "control"
               /\ \A i \in DOMAIN chain : i \in DOMAIN chain' /\ chain'[i] = chain[i]
    BY <1>0, <2>2, ChainGrows
  <2> QED
    BY <2>1, <2>2 DEF Aside
<1>3. (ControlAsks' <=> ControlAsks) /\ (Forced => Forced')
  BY <1>2 DEF ControlAsks, Forced
<1>4. (ctl'.pc \in Trying <=> ctl.pc \in Trying) /\ (ctl'.pc \in Undoing <=> ctl.pc \in Undoing)
  BY DEF Aside, Trying, Undoing, None
<1>5. ControlIsOne'
  BY <1>1, <1>2, <1>3, <1>4 DEF LoadedInv, ControlIsOne
<1>6. SigIsLoaded'
  BY <1>1 DEF LoadedInv, SigIsLoaded, Aside
<1>7. StepIsCurrent' /\ FailedOnApp' /\ WindowIsStored'
  BY <1>1, <1>3, <1>4 DEF LoadedInv, StepIsCurrent, FailedOnApp, WindowIsStored
<1>8. ChangeIsControls' /\ StaleIsKnown'
  BY <1>1, <1>3, <1>4 DEF LoadedInv, ChangeIsControls, StaleIsKnown
<1> QED
  BY <1>1, <1>5, <1>6, <1>7, <1>8 DEF LoadedInv

\* When nothing is being changed, the loaded backend is the one the stored mode and binding
\* ask for, whatever control operations, losses, recoveries and turns came before, as long as
\* no second start fails by itself.
THEOREM LoadedIsConfigured == Spec => [](startFails <= 1 => LoadedAsConfigured)
<1>1. Init => LoadedInv
  <2> SUFFICES ASSUME Init PROVE LoadedInv
    OBVIOUS
  <2>1. chain = <<>> /\ step.pc = None /\ ctl.pc = None /\ startFails = 0 /\ sig = Stored
    BY NoStepFields, NoCtlTyped DEF Init, Stored
  <2>2. SigIsLoaded
    BY BackendAssumption DEF Init, SigIsLoaded, NoBackend
  <2>3. ctl.pc \notin Trying \cup Undoing
    BY <2>1 DEF Trying, Undoing, None
  <2> QED
    BY <2>1, <2>2, <2>3
       DEF LoadedInv, ControlIsOne, ControlAsks, ControlRuns, StepIsCurrent, FailedOnApp,
           WindowIsStored, ChangeIsControls, StaleIsKnown
<1>2. LifecycleInv /\ LifecycleInv' /\ LoadedInv /\ [Next]_vars => LoadedInv'
  BY StepsOfLoaded, BeginKeepsLoaded, CloseKeepsLoaded, StartKeepsLoaded, FailureKeepsLoaded,
     ControlKeepsLoaded, AsideKeepsLoaded
<1>3. LifecycleInv /\ LoadedInv => (startFails <= 1 => LoadedAsConfigured)
  <2> SUFFICES ASSUME LifecycleInv, LoadedInv, startFails <= 1,
                      chain = <<>>, step.pc = None, ctl.pc = None, backend.id # 0
               PROVE  /\ sig = [mode |-> mode, binding |-> binding]
                      /\ backend.mode = mode
                      /\ mode # "autonomous-thread" => backend.thread = binding
    BY DEF LoadedAsConfigured
  <2>1. ~Forced /\ ctl.pc \notin Trying
    BY DEF Forced, Trying, None
  <2>2. sig = Stored
    BY <2>1 DEF LoadedInv, StaleIsKnown
  <2> QED
    BY <2>2 DEF LoadedInv, SigIsLoaded, Stored
<1> QED
  BY <1>1, <1>2, <1>3, LifecycleInvariant, PTL DEF Spec
=============================================================================
