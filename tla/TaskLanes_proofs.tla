-------------------------- MODULE TaskLanes_proofs --------------------------
(***************************************************************************)
(* Theorems about TaskLanes, for any messages, prompts, commands and       *)
(* sessions.                                                               *)
(***************************************************************************)
EXTENDS TaskLanes, FiniteSetTheorems, SequenceTheorems, TLAPS

----------------------------------------------------------------------------
(* Which actions change what.                                              *)

LocksLane(p) == EnsureLocked(p) \/ EnsureUnlocked(p) \/ Refresh(p) \/ Claim(p)
StartsOrStops(p) ==
  \/ StartRefused(p) \/ StartKeeps(p) \/ StartWaits(p) \/ StartOpens(p) \/ Verified(p)
  \/ NotVerified(p) \/ Stops(p)
Prompts(p) ==
  TypesAsk(p) \/ TypesPing(p) \/ Submitted(p) \/ Observes(p) \/ TimesOut(p) \/ Settles(p)

LEMMA StepKinds ==
  ASSUME [Next]_vars
  PROVE  \/ World \/ MarkLapses \/ Restart \/ CommandBegins \/ WorkerTakes \/ WorkerEnds
         \/ \E t \in Rows : TaskArrives(t)
         \/ \E p \in Procs : LocksLane(p)
         \/ \E p \in Procs : StartsOrStops(p)
         \/ \E p \in Procs : Prompts(p)
         \/ \E p \in Procs : CommandStep(p)
         \/ UNCHANGED vars
BY Zenon DEF Next, Works, LaneStep, LocksLane, StartsOrStops, Prompts

LEMMA RowMoves ==
  ASSUME [Next]_vars
  PROVE  \/ UNCHANGED row
         \/ Restart \/ FallbackEnds \/ PlacesPing \/ PingEnds
         \/ \E p \in Procs : Settles(p) \/ PlacesAsk(p) \/ SendsInterrupt(p)
         \/ \E t \in Rows : TerminalRefuses(t) \/ FallbackTakes(t) \/ PrimaryTakes(t) \/
            TaskArrives(t)
<1>1. CASE World \/ MarkLapses \/ Restart
  BY <1>1 DEF durable, Elsewhere, ComesUp, TurnEnds, SessionEnds, UserOpens, MarkLapses,
     World
<1>2. CASE CommandBegins
  BY <1>2 DEF Command, CommandUse, CommandUnlock, CommandLock, CommandStart, CommandStop,
     CommandPing, CommandInterrupt, CommandClear, CommandConnect, CommandDisconnect,
     CommandAsk, ControlAsk, FallbackSwitched, CommandOf, CommandBegins
<1>3. CASE WorkerTakes \/ WorkerEnds \/ \E t \in Rows : TaskArrives(t)
  BY <1>3 DEF durable, TerminalTakes, RunEnds, WorkerTakes, WorkerEnds
<1>4. CASE \E p \in Procs : LocksLane(p)
  BY <1>4 DEF durable, EnsureLocked, Refresh, EnsureUnlocked, Claim, LocksLane
<1>5. CASE \E p \in Procs : StartsOrStops(p)
  BY <1>5 DEF durable, StartRefused, StartKeeps, StartWaits, StartOpens, Verified,
     NotVerified, Stops, StartsOrStops
<1>6. CASE \E p \in Procs : Prompts(p)
  BY <1>6 DEF durable, Types, TypesAsk, TypesPing, Submitted, Observes, TimesOut, Prompts
<1>7. CASE \E p \in Procs : CommandStep(p)
  BY <1>7 DEF durable, SendsClear, Connects, Concludes, Answers, CommandStep
<1> QED
  BY <1>1, <1>2, <1>3, <1>4, <1>5, <1>6, <1>7, StepKinds DEF durable, vars

LEMMA LockMoves ==
  ASSUME [Next]_vars
  PROVE  \/ UNCHANGED lock
         \/ \E p \in Procs : Refresh(p) \/ Claim(p) \/ StartKeeps(p) \/ Verified(p) \/
            Stops(p)
         \/ \E p \in {"chat", "ctl"} : CommandUse(p) \/ CommandUnlock(p)
<1>1. CASE World \/ MarkLapses \/ Restart
  BY <1>1 DEF durable, Elsewhere, ComesUp, TurnEnds, SessionEnds, UserOpens, MarkLapses,
     Restart, World
<1>2. CASE CommandBegins
  BY <1>2 DEF Command, CommandLock, CommandStart, CommandStop, CommandPing,
     CommandInterrupt, CommandClear, CommandConnect, CommandDisconnect, CommandAsk,
     ControlAsk, FallbackSwitched, CommandOf, CommandBegins
<1>3. CASE WorkerTakes \/ WorkerEnds \/ \E t \in Rows : TaskArrives(t)
  BY <1>3 DEF durable, TaskArrives, TerminalRefuses, TerminalTakes, FallbackTakes,
     PrimaryTakes, FallbackEnds, PlacesPing, PingEnds, RunEnds, WorkerTakes, WorkerEnds
<1>4. CASE \E p \in Procs : LocksLane(p)
  BY <1>4 DEF durable, EnsureLocked, EnsureUnlocked, LocksLane
<1>5. CASE \E p \in Procs : StartsOrStops(p)
  BY <1>5 DEF durable, StartRefused, StartWaits, StartOpens, NotVerified, StartsOrStops
<1>6. CASE \E p \in Procs : Prompts(p)
  BY <1>6 DEF durable, Types, TypesAsk, TypesPing, Submitted, Observes, TimesOut, Settles,
     Prompts
<1>7. CASE \E p \in Procs : CommandStep(p)
  BY <1>7 DEF durable, SendsInterrupt, SendsClear, Connects, Concludes, Answers,
     PlacesAsk, CommandStep
<1> QED
  BY <1>1, <1>2, <1>3, <1>4, <1>5, <1>6, <1>7, StepKinds DEF durable, vars

LEMMA BackendMoves ==
  ASSUME [Next]_vars
  PROVE  \/ UNCHANGED backend
         \/ \E p \in {"chat", "ctl"} : CommandUse(p)
<1>1. CASE World \/ MarkLapses \/ Restart
  BY <1>1 DEF durable, Elsewhere, ComesUp, TurnEnds, SessionEnds, UserOpens, MarkLapses,
     Restart, World
<1>2. CASE CommandBegins
  BY <1>2 DEF Command, CommandUnlock, CommandLock, CommandStart, CommandStop, CommandPing,
     CommandInterrupt, CommandClear, CommandConnect, CommandDisconnect, CommandAsk,
     ControlAsk, FallbackSwitched, CommandOf, CommandBegins
<1>3. CASE WorkerTakes \/ WorkerEnds \/ \E t \in Rows : TaskArrives(t)
  BY <1>3 DEF durable, TaskArrives, TerminalRefuses, TerminalTakes, FallbackTakes,
     PrimaryTakes, FallbackEnds, PlacesPing, PingEnds, RunEnds, WorkerTakes, WorkerEnds
<1>4. CASE \E p \in Procs : LocksLane(p)
  BY <1>4 DEF durable, EnsureLocked, Refresh, EnsureUnlocked, Claim, LocksLane
<1>5. CASE \E p \in Procs : StartsOrStops(p)
  BY <1>5 DEF durable, StartRefused, StartKeeps, StartWaits, StartOpens, Verified,
     NotVerified, Stops, StartsOrStops
<1>6. CASE \E p \in Procs : Prompts(p)
  BY <1>6 DEF durable, Types, TypesAsk, TypesPing, Submitted, Observes, TimesOut, Settles,
     Prompts
<1>7. CASE \E p \in Procs : CommandStep(p)
  BY <1>7 DEF durable, SendsInterrupt, SendsClear, Connects, Concludes, Answers,
     PlacesAsk, CommandStep
<1> QED
  BY <1>1, <1>2, <1>3, <1>4, <1>5, <1>6, <1>7, StepKinds DEF durable, vars

LEMMA TaskMoves ==
  ASSUME [Next]_vars
  PROVE  \/ UNCHANGED <<saved, active>>
         \/ Restart
         \/ \E p \in Procs : Submitted(p) \/ Settles(p) \/ SendsInterrupt(p) \/
            PlacesAsk(p)
<1>1. CASE World \/ MarkLapses \/ Restart
  BY <1>1 DEF durable, Elsewhere, ComesUp, TurnEnds, SessionEnds, UserOpens, MarkLapses,
     World
<1>2. CASE CommandBegins
  BY <1>2 DEF Command, CommandUse, CommandUnlock, CommandLock, CommandStart, CommandStop,
     CommandPing, CommandInterrupt, CommandClear, CommandConnect, CommandDisconnect,
     CommandAsk, ControlAsk, FallbackSwitched, CommandOf, CommandBegins
<1>3. CASE WorkerTakes \/ WorkerEnds \/ \E t \in Rows : TaskArrives(t)
  BY <1>3 DEF durable, TaskArrives, TerminalRefuses, TerminalTakes, FallbackTakes,
     PrimaryTakes, FallbackEnds, PlacesPing, PingEnds, RunEnds, WorkerTakes, WorkerEnds
<1>4. CASE \E p \in Procs : LocksLane(p)
  BY <1>4 DEF durable, EnsureLocked, Refresh, EnsureUnlocked, Claim, LocksLane
<1>5. CASE \E p \in Procs : StartsOrStops(p)
  BY <1>5 DEF durable, StartRefused, StartKeeps, StartWaits, StartOpens, Verified,
     NotVerified, Stops, StartsOrStops
<1>6. CASE \E p \in Procs : Prompts(p)
  BY <1>6 DEF durable, Types, TypesAsk, TypesPing, Observes, TimesOut, Prompts
<1>7. CASE \E p \in Procs : CommandStep(p)
  BY <1>7 DEF durable, SendsClear, Connects, Concludes, Answers, CommandStep
<1> QED
  BY <1>1, <1>2, <1>3, <1>4, <1>5, <1>6, <1>7, StepKinds DEF durable, vars

LEMMA ModeMoves ==
  ASSUME [Next]_vars
  PROVE  \/ UNCHANGED chatMode
         \/ CommandDisconnect
         \/ \E p \in Procs : Connects(p)
<1>1. CASE World \/ MarkLapses \/ Restart
  BY <1>1 DEF durable, Elsewhere, ComesUp, TurnEnds, SessionEnds, UserOpens, MarkLapses,
     Restart, World
<1>2. CASE CommandBegins
  BY <1>2 DEF Command, CommandUse, CommandUnlock, CommandLock, CommandStart, CommandStop,
     CommandPing, CommandInterrupt, CommandClear, CommandConnect, CommandAsk, ControlAsk,
     FallbackSwitched, CommandOf, CommandBegins
<1>3. CASE WorkerTakes \/ WorkerEnds \/ \E t \in Rows : TaskArrives(t)
  BY <1>3 DEF durable, TaskArrives, TerminalRefuses, TerminalTakes, FallbackTakes,
     PrimaryTakes, FallbackEnds, PlacesPing, PingEnds, RunEnds, WorkerTakes, WorkerEnds
<1>4. CASE \E p \in Procs : LocksLane(p)
  BY <1>4 DEF durable, EnsureLocked, Refresh, EnsureUnlocked, Claim, LocksLane
<1>5. CASE \E p \in Procs : StartsOrStops(p)
  BY <1>5 DEF durable, StartRefused, StartKeeps, StartWaits, StartOpens, Verified,
     NotVerified, Stops, StartsOrStops
<1>6. CASE \E p \in Procs : Prompts(p)
  BY <1>6 DEF durable, Types, TypesAsk, TypesPing, Submitted, Observes, TimesOut, Settles,
     Prompts
<1>7. CASE \E p \in Procs : CommandStep(p)
  BY <1>7 DEF durable, SendsInterrupt, SendsClear, Concludes, Answers, PlacesAsk,
     CommandStep
<1> QED
  BY <1>1, <1>2, <1>3, <1>4, <1>5, <1>6, <1>7, StepKinds DEF durable, vars

LEMMA SwitchMoves ==
  ASSUME [Next]_vars
  PROVE  \/ UNCHANGED fallbackOn
         \/ FallbackSwitched
<1>1. CASE World \/ MarkLapses \/ Restart
  BY <1>1 DEF durable, Elsewhere, ComesUp, TurnEnds, SessionEnds, UserOpens, MarkLapses,
     Restart, World
<1>2. CASE CommandBegins
  BY <1>2 DEF Command, CommandUse, CommandUnlock, CommandLock, CommandStart, CommandStop,
     CommandPing, CommandInterrupt, CommandClear, CommandConnect, CommandDisconnect,
     CommandAsk, ControlAsk, CommandOf, CommandBegins
<1>3. CASE WorkerTakes \/ WorkerEnds \/ \E t \in Rows : TaskArrives(t)
  BY <1>3 DEF durable, TaskArrives, TerminalRefuses, TerminalTakes, FallbackTakes,
     PrimaryTakes, FallbackEnds, PlacesPing, PingEnds, RunEnds, WorkerTakes, WorkerEnds
<1>4. CASE \E p \in Procs : LocksLane(p)
  BY <1>4 DEF durable, EnsureLocked, Refresh, EnsureUnlocked, Claim, LocksLane
<1>5. CASE \E p \in Procs : StartsOrStops(p)
  BY <1>5 DEF durable, StartRefused, StartKeeps, StartWaits, StartOpens, Verified,
     NotVerified, Stops, StartsOrStops
<1>6. CASE \E p \in Procs : Prompts(p)
  BY <1>6 DEF durable, Types, TypesAsk, TypesPing, Submitted, Observes, TimesOut, Settles,
     Prompts
<1>7. CASE \E p \in Procs : CommandStep(p)
  BY <1>7 DEF durable, SendsInterrupt, SendsClear, Connects, Concludes, Answers,
     PlacesAsk, CommandStep
<1> QED
  BY <1>1, <1>2, <1>3, <1>4, <1>5, <1>6, <1>7, StepKinds DEF durable, vars

LEMMA MarkMoves ==
  ASSUME [Next]_vars
  PROVE  \/ UNCHANGED external
         \/ ControlAsk \/ MarkLapses
         \/ \E p \in Procs : TimesOut(p) \/ SendsInterrupt(p) \/ Answers(p)
<1>1. CASE World \/ MarkLapses \/ Restart
  BY <1>1 DEF durable, Elsewhere, ComesUp, TurnEnds, SessionEnds, UserOpens, Restart,
     World
<1>2. CASE CommandBegins
  BY <1>2 DEF Command, CommandUse, CommandUnlock, CommandLock, CommandStart, CommandStop,
     CommandPing, CommandInterrupt, CommandClear, CommandConnect, CommandDisconnect,
     CommandAsk, FallbackSwitched, CommandOf, CommandBegins
<1>3. CASE WorkerTakes \/ WorkerEnds \/ \E t \in Rows : TaskArrives(t)
  BY <1>3 DEF durable, TaskArrives, TerminalRefuses, TerminalTakes, FallbackTakes,
     PrimaryTakes, FallbackEnds, PlacesPing, PingEnds, RunEnds, WorkerTakes, WorkerEnds
<1>4. CASE \E p \in Procs : LocksLane(p)
  BY <1>4 DEF durable, EnsureLocked, Refresh, EnsureUnlocked, Claim, LocksLane
<1>5. CASE \E p \in Procs : StartsOrStops(p)
  BY <1>5 DEF durable, StartRefused, StartKeeps, StartWaits, StartOpens, Verified,
     NotVerified, Stops, StartsOrStops
<1>6. CASE \E p \in Procs : Prompts(p)
  BY <1>6 DEF durable, Types, TypesAsk, TypesPing, Submitted, Observes, Settles, Prompts
<1>7. CASE \E p \in Procs : CommandStep(p)
  BY <1>7 DEF durable, SendsClear, Connects, Concludes, PlacesAsk, CommandStep
<1> QED
  BY <1>1, <1>2, <1>3, <1>4, <1>5, <1>6, <1>7, StepKinds DEF durable, vars

LEMMA PaneMoves ==
  ASSUME [Next]_vars
  PROVE  \/ UNCHANGED pane
         \/ ComesUp
         \/ \E p \in Procs : StartOpens(p) \/ NotVerified(p) \/ Stops(p) \/ TypesAsk(p) \/
            TypesPing(p) \/ Observes(p) \/ SendsInterrupt(p) \/ SendsClear(p)
         \/ \E b \in Backends : TurnEnds(b) \/ SessionEnds(b) \/ UserOpens(b)
<1>1. CASE World \/ MarkLapses \/ Restart
  BY <1>1 DEF MarkLapses, Restart, World
<1>2. CASE CommandBegins
  BY <1>2 DEF Command, CommandUse, CommandUnlock, CommandLock, CommandStart, CommandStop,
     CommandPing, CommandInterrupt, CommandClear, CommandConnect, CommandDisconnect,
     CommandAsk, ControlAsk, FallbackSwitched, CommandOf, CommandBegins
<1>3. CASE WorkerTakes \/ WorkerEnds \/ \E t \in Rows : TaskArrives(t)
  BY <1>3 DEF TaskArrives, TerminalRefuses, TerminalTakes, FallbackTakes, PrimaryTakes,
     FallbackEnds, PlacesPing, PingEnds, RunEnds, WorkerTakes, WorkerEnds
<1>4. CASE \E p \in Procs : LocksLane(p)
  BY <1>4 DEF EnsureLocked, Refresh, EnsureUnlocked, Claim, LocksLane
<1>5. CASE \E p \in Procs : StartsOrStops(p)
  BY <1>5 DEF StartRefused, StartKeeps, StartWaits, Verified, StartsOrStops
<1>6. CASE \E p \in Procs : Prompts(p)
  BY <1>6 DEF Submitted, TimesOut, Settles, Prompts
<1>7. CASE \E p \in Procs : CommandStep(p)
  BY <1>7 DEF Connects, Concludes, Answers, PlacesAsk, CommandStep
<1> QED
  BY <1>1, <1>2, <1>3, <1>4, <1>5, <1>6, <1>7, StepKinds DEF vars

LEMMA MineMoves ==
  ASSUME [Next]_vars
  PROVE  \/ UNCHANGED mine
         \/ \E p \in Procs : StartOpens(p)
<1>1. CASE World \/ MarkLapses \/ Restart
  BY <1>1 DEF history, Elsewhere, ComesUp, TurnEnds, SessionEnds, UserOpens, MarkLapses,
     Restart, World
<1>2. CASE CommandBegins
  BY <1>2 DEF history, Command, CommandUse, CommandUnlock, CommandLock, CommandStart,
     CommandStop, CommandPing, CommandInterrupt, CommandClear, CommandConnect,
     CommandDisconnect, CommandAsk, ControlAsk, FallbackSwitched, CommandOf, CommandBegins
<1>3. CASE WorkerTakes \/ WorkerEnds \/ \E t \in Rows : TaskArrives(t)
  BY <1>3 DEF history, TaskArrives, TerminalRefuses, TerminalTakes, FallbackTakes,
     PrimaryTakes, FallbackEnds, PlacesPing, PingEnds, RunEnds, WorkerTakes, WorkerEnds
<1>4. CASE \E p \in Procs : LocksLane(p)
  BY <1>4 DEF history, EnsureLocked, Refresh, EnsureUnlocked, Claim, LocksLane
<1>5. CASE \E p \in Procs : StartsOrStops(p)
  BY <1>5 DEF history, StartRefused, StartKeeps, StartWaits, Verified, NotVerified, Stops,
     StartsOrStops
<1>6. CASE \E p \in Procs : Prompts(p)
  BY <1>6 DEF history, Types, TypesAsk, TypesPing, Submitted, Observes, TimesOut, Settles,
     Prompts
<1>7. CASE \E p \in Procs : CommandStep(p)
  BY <1>7 DEF history, SendsInterrupt, SendsClear, Connects, Concludes, Answers,
     PlacesAsk, CommandStep
<1> QED
  BY <1>1, <1>2, <1>3, <1>4, <1>5, <1>6, <1>7, StepKinds DEF history, vars

LEMMA AdoptedMoves ==
  ASSUME [Next]_vars
  PROVE  \/ UNCHANGED adopted
         \/ \E p \in Procs : Claim(p)
<1>1. CASE World \/ MarkLapses \/ Restart
  BY <1>1 DEF history, Elsewhere, ComesUp, TurnEnds, SessionEnds, UserOpens, MarkLapses,
     Restart, World
<1>2. CASE CommandBegins
  BY <1>2 DEF history, Command, CommandUse, CommandUnlock, CommandLock, CommandStart,
     CommandStop, CommandPing, CommandInterrupt, CommandClear, CommandConnect,
     CommandDisconnect, CommandAsk, ControlAsk, FallbackSwitched, CommandOf, CommandBegins
<1>3. CASE WorkerTakes \/ WorkerEnds \/ \E t \in Rows : TaskArrives(t)
  BY <1>3 DEF history, TaskArrives, TerminalRefuses, TerminalTakes, FallbackTakes,
     PrimaryTakes, FallbackEnds, PlacesPing, PingEnds, RunEnds, WorkerTakes, WorkerEnds
<1>4. CASE \E p \in Procs : LocksLane(p)
  BY <1>4 DEF history, EnsureLocked, Refresh, EnsureUnlocked, LocksLane
<1>5. CASE \E p \in Procs : StartsOrStops(p)
  BY <1>5 DEF history, StartRefused, StartKeeps, StartWaits, StartOpens, Verified,
     NotVerified, Stops, StartsOrStops
<1>6. CASE \E p \in Procs : Prompts(p)
  BY <1>6 DEF history, Types, TypesAsk, TypesPing, Submitted, Observes, TimesOut, Settles,
     Prompts
<1>7. CASE \E p \in Procs : CommandStep(p)
  BY <1>7 DEF history, SendsInterrupt, SendsClear, Connects, Concludes, Answers,
     PlacesAsk, CommandStep
<1> QED
  BY <1>1, <1>2, <1>3, <1>4, <1>5, <1>6, <1>7, StepKinds DEF history, vars

LEMMA TypedMoves ==
  ASSUME [Next]_vars
  PROVE  \/ UNCHANGED typed
         \/ \E p \in Procs : TypesAsk(p) \/ TypesPing(p)
<1>1. CASE World \/ MarkLapses \/ Restart
  BY <1>1 DEF history, Elsewhere, ComesUp, TurnEnds, SessionEnds, UserOpens, MarkLapses,
     Restart, World
<1>2. CASE CommandBegins
  BY <1>2 DEF history, Command, CommandUse, CommandUnlock, CommandLock, CommandStart,
     CommandStop, CommandPing, CommandInterrupt, CommandClear, CommandConnect,
     CommandDisconnect, CommandAsk, ControlAsk, FallbackSwitched, CommandOf, CommandBegins
<1>3. CASE WorkerTakes \/ WorkerEnds \/ \E t \in Rows : TaskArrives(t)
  BY <1>3 DEF history, TaskArrives, TerminalRefuses, TerminalTakes, FallbackTakes,
     PrimaryTakes, FallbackEnds, PlacesPing, PingEnds, RunEnds, WorkerTakes, WorkerEnds
<1>4. CASE \E p \in Procs : LocksLane(p)
  BY <1>4 DEF history, EnsureLocked, Refresh, EnsureUnlocked, Claim, LocksLane
<1>5. CASE \E p \in Procs : StartsOrStops(p)
  BY <1>5 DEF history, StartRefused, StartKeeps, StartWaits, StartOpens, Verified,
     NotVerified, Stops, StartsOrStops
<1>6. CASE \E p \in Procs : Prompts(p)
  BY <1>6 DEF history, Submitted, Observes, TimesOut, Settles, Prompts
<1>7. CASE \E p \in Procs : CommandStep(p)
  BY <1>7 DEF history, SendsInterrupt, SendsClear, Connects, Concludes, Answers,
     PlacesAsk, CommandStep
<1> QED
  BY <1>1, <1>2, <1>3, <1>4, <1>5, <1>6, <1>7, StepKinds DEF history, vars

LEMMA KilledMoves ==
  ASSUME [Next]_vars
  PROVE  \/ UNCHANGED killed
         \/ \E p \in Procs : NotVerified(p) \/ Stops(p)
<1>1. CASE World \/ MarkLapses \/ Restart
  BY <1>1 DEF history, Elsewhere, ComesUp, TurnEnds, SessionEnds, UserOpens, MarkLapses,
     Restart, World
<1>2. CASE CommandBegins
  BY <1>2 DEF history, Command, CommandUse, CommandUnlock, CommandLock, CommandStart,
     CommandStop, CommandPing, CommandInterrupt, CommandClear, CommandConnect,
     CommandDisconnect, CommandAsk, ControlAsk, FallbackSwitched, CommandOf, CommandBegins
<1>3. CASE WorkerTakes \/ WorkerEnds \/ \E t \in Rows : TaskArrives(t)
  BY <1>3 DEF history, TaskArrives, TerminalRefuses, TerminalTakes, FallbackTakes,
     PrimaryTakes, FallbackEnds, PlacesPing, PingEnds, RunEnds, WorkerTakes, WorkerEnds
<1>4. CASE \E p \in Procs : LocksLane(p)
  BY <1>4 DEF history, EnsureLocked, Refresh, EnsureUnlocked, Claim, LocksLane
<1>5. CASE \E p \in Procs : StartsOrStops(p)
  BY <1>5 DEF history, StartRefused, StartKeeps, StartWaits, StartOpens, Verified,
     StartsOrStops
<1>6. CASE \E p \in Procs : Prompts(p)
  BY <1>6 DEF history, Types, TypesAsk, TypesPing, Submitted, Observes, TimesOut, Settles,
     Prompts
<1>7. CASE \E p \in Procs : CommandStep(p)
  BY <1>7 DEF history, SendsInterrupt, SendsClear, Connects, Concludes, Answers,
     PlacesAsk, CommandStep
<1> QED
  BY <1>1, <1>2, <1>3, <1>4, <1>5, <1>6, <1>7, StepKinds DEF history, vars

LEMMA ToldMoves ==
  ASSUME [Next]_vars
  PROVE  \/ UNCHANGED told
         \/ Restart
<1>1. CASE World \/ MarkLapses \/ Restart
  BY <1>1 DEF history, Elsewhere, ComesUp, TurnEnds, SessionEnds, UserOpens, MarkLapses,
     World
<1>2. CASE CommandBegins
  BY <1>2 DEF history, Command, CommandUse, CommandUnlock, CommandLock, CommandStart,
     CommandStop, CommandPing, CommandInterrupt, CommandClear, CommandConnect,
     CommandDisconnect, CommandAsk, ControlAsk, FallbackSwitched, CommandOf, CommandBegins
<1>3. CASE WorkerTakes \/ WorkerEnds \/ \E t \in Rows : TaskArrives(t)
  BY <1>3 DEF history, TaskArrives, TerminalRefuses, TerminalTakes, FallbackTakes,
     PrimaryTakes, FallbackEnds, PlacesPing, PingEnds, RunEnds, WorkerTakes, WorkerEnds
<1>4. CASE \E p \in Procs : LocksLane(p)
  BY <1>4 DEF history, EnsureLocked, Refresh, EnsureUnlocked, Claim, LocksLane
<1>5. CASE \E p \in Procs : StartsOrStops(p)
  BY <1>5 DEF history, StartRefused, StartKeeps, StartWaits, StartOpens, Verified,
     NotVerified, Stops, StartsOrStops
<1>6. CASE \E p \in Procs : Prompts(p)
  BY <1>6 DEF history, Types, TypesAsk, TypesPing, Submitted, Observes, TimesOut, Settles,
     Prompts
<1>7. CASE \E p \in Procs : CommandStep(p)
  BY <1>7 DEF history, SendsInterrupt, SendsClear, Connects, Concludes, Answers,
     PlacesAsk, CommandStep
<1> QED
  BY <1>1, <1>2, <1>3, <1>4, <1>5, <1>6, <1>7, StepKinds DEF history, vars

LEMMA UsedMoves ==
  ASSUME [Next]_vars
  PROVE  \/ UNCHANGED used
         \/ ControlAsk \/ PlacesPing
         \/ \E p \in Procs : PlacesAsk(p)
         \/ \E p \in {"chat", "ctl"} : CommandPing(p)
<1>1. CASE World \/ MarkLapses \/ Restart
  BY <1>1 DEF bounded, Elsewhere, ComesUp, TurnEnds, SessionEnds, UserOpens, MarkLapses,
     Restart, World
<1>2. CASE CommandBegins
  BY <1>2 DEF Command, CommandUse, CommandUnlock, CommandLock, CommandStart, CommandStop,
     CommandInterrupt, CommandClear, CommandConnect, CommandDisconnect, CommandAsk,
     FallbackSwitched, CommandOf, CommandBegins
<1>3. CASE WorkerTakes \/ WorkerEnds \/ \E t \in Rows : TaskArrives(t)
  BY <1>3 DEF bounded, TaskArrives, TerminalRefuses, TerminalTakes, FallbackTakes,
     PrimaryTakes, FallbackEnds, PingEnds, RunEnds, WorkerTakes, WorkerEnds
<1>4. CASE \E p \in Procs : LocksLane(p)
  BY <1>4 DEF bounded, EnsureLocked, Refresh, EnsureUnlocked, Claim, LocksLane
<1>5. CASE \E p \in Procs : StartsOrStops(p)
  BY <1>5 DEF bounded, StartRefused, StartKeeps, StartWaits, StartOpens, Verified,
     NotVerified, Stops, StartsOrStops
<1>6. CASE \E p \in Procs : Prompts(p)
  BY <1>6 DEF bounded, Types, TypesAsk, TypesPing, Submitted, Observes, TimesOut, Settles,
     Prompts
<1>7. CASE \E p \in Procs : CommandStep(p)
  BY <1>7 DEF bounded, SendsInterrupt, SendsClear, Connects, Concludes, Answers,
     CommandStep
<1> QED
  BY <1>1, <1>2, <1>3, <1>4, <1>5, <1>6, <1>7, StepKinds DEF bounded, vars

LEMMA OpenedMoves ==
  ASSUME [Next]_vars
  PROVE  \/ UNCHANGED opened
         \/ \E p \in Procs : StartOpens(p)
         \/ \E b \in Backends : UserOpens(b)
<1>1. CASE World \/ MarkLapses \/ Restart
  BY <1>1 DEF bounded, Elsewhere, ComesUp, TurnEnds, SessionEnds, MarkLapses, Restart,
     World
<1>2. CASE CommandBegins
  BY <1>2 DEF Command, CommandUse, CommandUnlock, CommandLock, CommandStart, CommandStop,
     CommandPing, CommandInterrupt, CommandClear, CommandConnect, CommandDisconnect,
     CommandAsk, ControlAsk, FallbackSwitched, CommandOf, CommandBegins
<1>3. CASE WorkerTakes \/ WorkerEnds \/ \E t \in Rows : TaskArrives(t)
  BY <1>3 DEF bounded, TaskArrives, TerminalRefuses, TerminalTakes, FallbackTakes,
     PrimaryTakes, FallbackEnds, PlacesPing, PingEnds, RunEnds, WorkerTakes, WorkerEnds
<1>4. CASE \E p \in Procs : LocksLane(p)
  BY <1>4 DEF bounded, EnsureLocked, Refresh, EnsureUnlocked, Claim, LocksLane
<1>5. CASE \E p \in Procs : StartsOrStops(p)
  BY <1>5 DEF bounded, StartRefused, StartKeeps, StartWaits, Verified, NotVerified, Stops,
     StartsOrStops
<1>6. CASE \E p \in Procs : Prompts(p)
  BY <1>6 DEF bounded, Types, TypesAsk, TypesPing, Submitted, Observes, TimesOut, Settles,
     Prompts
<1>7. CASE \E p \in Procs : CommandStep(p)
  BY <1>7 DEF bounded, SendsInterrupt, SendsClear, Connects, Concludes, Answers,
     PlacesAsk, CommandStep
<1> QED
  BY <1>1, <1>2, <1>3, <1>4, <1>5, <1>6, <1>7, StepKinds DEF bounded, vars

LEMMA JobMoves ==
  ASSUME [Next]_vars
  PROVE  \/ UNCHANGED job
         \/ CommandConnect \/ CommandAsk \/ ControlAsk \/ FallbackSwitched \/ Restart \/
            FallbackEnds \/ PlacesPing \/ PingEnds \/ RunEnds
         \/ \E p \in Procs : EnsureLocked(p) \/ EnsureUnlocked(p) \/ Refresh(p) \/
            Claim(p) \/ StartRefused(p) \/ StartKeeps(p) \/ StartWaits(p) \/ StartOpens(p)
            \/ Verified(p) \/ NotVerified(p) \/ Stops(p) \/ TypesAsk(p) \/ TypesPing(p) \/
            Submitted(p) \/ Observes(p) \/ TimesOut(p) \/ Settles(p) \/ SendsInterrupt(p)
            \/ SendsClear(p) \/ Connects(p) \/ Concludes(p) \/ Answers(p) \/ PlacesAsk(p)
         \/ \E p \in {"chat", "ctl"} : CommandLock(p) \/ CommandStart(p) \/ CommandStop(p)
            \/ CommandPing(p) \/ CommandInterrupt(p) \/ CommandClear(p)
         \/ \E t \in Rows : TerminalTakes(t) \/ FallbackTakes(t)
<1>1. CASE World \/ MarkLapses \/ Restart
  BY <1>1 DEF Elsewhere, ComesUp, TurnEnds, SessionEnds, UserOpens, MarkLapses, World
<1>2. CASE CommandBegins
  BY <1>2 DEF Command, CommandUse, CommandUnlock, CommandDisconnect, CommandOf,
     CommandBegins
<1>3. CASE WorkerTakes \/ WorkerEnds \/ \E t \in Rows : TaskArrives(t)
  BY <1>3 DEF TaskArrives, TerminalRefuses, PrimaryTakes, WorkerTakes, WorkerEnds
<1>4. CASE \E p \in Procs : LocksLane(p)
  BY <1>4 DEF LocksLane
<1>5. CASE \E p \in Procs : StartsOrStops(p)
  BY <1>5 DEF StartsOrStops
<1>6. CASE \E p \in Procs : Prompts(p)
  BY <1>6 DEF Prompts
<1>7. CASE \E p \in Procs : CommandStep(p)
  BY <1>7 DEF CommandStep
<1> QED
  BY <1>1, <1>2, <1>3, <1>4, <1>5, <1>6, <1>7, StepKinds DEF vars


----------------------------------------------------------------------------
(* The types of the state, and what the processes do in it.                *)

JobRec  == [pc : Pcs, why : Verbs \cup {None}, held : Locks, ask : Asks \cup {None},
            row : Rows \cup {0}, ok : BOOLEAN]
PaneRec == [id : Ids, nonce : Ids, up : BOOLEAN, turns : Seq(Asks), shown : SUBSET Asks]
Status  == {None, "pending", "processing", "completed", "failed", "cancelled"}
LanePcs == {"ensure", "refresh", "claim", "start", "verify", "stop", "act", "typed", "wait",
            "report"}

RowsTyped  == row \in [Rows -> Status]
JobsTyped  == job \in [Procs -> JobRec]
PanesTyped ==
  /\ pane \in [Backends -> PaneRec]
  /\ \A b \in Backends : pane[b].nonce \in {0, pane[b].id} /\ (pane[b].up => pane[b].id # 0)
LaneTyped  ==
  /\ lock \in Locks /\ backend \in Backends
  /\ chatMode \in BOOLEAN /\ fallbackOn \in BOOLEAN /\ external \in BOOLEAN
TasksTyped ==
  /\ saved \in Tasks \cup {NoTask} /\ active \in Tasks \cup {NoTask}
  /\ \A k \in {saved, active} : k # NoTask => k.id \in used
CountsTyped == told \subseteq Rows /\ used \subseteq Asks /\ opened \in 0..MaxSessions

\* Which process does what.
RoleOf(p, j) ==
  /\ j.pc = "rest" => j = Rest
  /\ j.pc = "place" => p \in {"chat", "worker"} /\ j.why \in {"ask", "ping"}
  /\ p = "chat" /\ j.pc = "place" => j.why = "ask"
  /\ j.pc \in {"run", "fallback", "hung"} => p = "worker"
  /\ p \in Asks => j.why \in {"ask", None}
  /\ j.row # 0 => p \in Asks \cup {"worker"}
  /\ j.pc \in LanePcs /\ j.why \in {"ask", "ping"} => j.ask \in Asks
  /\ p = "worker" => j.why \in {"ask", "ping", None} /\ (j.pc \in LanePcs => j.why = "ping")
  /\ j.pc = "run" => j.ask \in Asks
  /\ j.pc = "typed" => p \in Asks
Roles ==
  /\ \A p \in Procs : RoleOf(p, job[p])
  /\ \A a \in Asks : a \notin used => job[a] = Rest

\* Who is about to take a prompt will find one.
Placing == {p \in Procs : At(p, "place")}
Room    == Cardinality(used) + Cardinality(Placing) <= Cardinality(Asks)

TypeInv ==
  /\ RowsTyped /\ JobsTyped /\ PanesTyped /\ LaneTyped /\ TasksTyped /\ CountsTyped /\ Roles /\ Room

LEMMA NamesAreDistinct ==
  /\ IsFiniteSet(Asks) /\ {"chat", "worker", "ctl"} \cap Asks = {} /\ None \notin Asks
  /\ Procs = {"chat", "worker", "ctl"} \cup Asks /\ 0 \notin Rows /\ MaxSessions \in Nat
  /\ Rows = AskRows \cup PingRows \cup ChatRows
BY LanesAssumption DEF Procs, None, Rows

LEMMA NoLockTyped == NoLock \in Locks /\ NoLock.pane = 0 /\ NoLock.nonce = 0
BY NamesAreDistinct DEF NoLock, Locks, Backends, Ids

LEMMA RestTyped ==
  /\ Rest \in JobRec /\ Rest.pc = "rest" /\ Rest.row = 0 /\ Rest.why = None /\ Rest.held = NoLock
  /\ \A p : RoleOf(p, Rest)
<1>1. Rest.pc = "rest" /\ Rest.row = 0 /\ Rest.why = None /\ Rest.held = NoLock
  BY DEF Rest
<1>2. Rest \in JobRec
  BY NoLockTyped, Zenon DEF Rest, JobRec, Pcs
<1> QED
  BY <1>1, <1>2 DEF RoleOf, LanePcs, None

\* The job of p goes on at pc with the lock l, for the same prompt and row.
JobAt(p, pc, l) ==
  /\ JobsTyped' /\ (\A q \in Procs \ {p} : job'[q] = job[q])
  /\ job'[p].pc = pc /\ job'[p].held = l /\ job'[p].why = job[p].why
  /\ job'[p].ask = job[p].ask /\ job'[p].row = job[p].row
JobRests(p) == JobsTyped' /\ (\A q \in Procs \ {p} : job'[q] = job[q]) /\ job'[p] = Rest

LEMMA JobChanges ==
  ASSUME JobsTyped, NEW p \in Procs, NEW j \in JobRec, job' = [job EXCEPT ![p] = j]
  PROVE  JobsTyped' /\ job'[p] = j /\ \A q \in Procs \ {p} : job'[q] = job[q]
BY DEF JobsTyped

LEMMA JobGoes ==
  ASSUME JobsTyped, NEW p \in Procs
  PROVE  /\ \A pc \in LanePcs : To(p, pc) => JobAt(p, pc, job[p].held)
         /\ \A r \in BOOLEAN : Ended(p, r) => JobAt(p, "report", job[p].held)
         /\ job' = [job EXCEPT ![p] = Rest] => JobRests(p)
<1>0. job[p] \in JobRec
  BY DEF JobsTyped
<1>1. ASSUME NEW pc \in LanePcs, To(p, pc) PROVE JobAt(p, pc, job[p].held)
  <2> DEFINE j == [job[p] EXCEPT !.pc = pc]
  <2>1. j \in JobRec
    BY <1>0, Zenon DEF JobRec, Pcs, LanePcs
  <2>2. /\ j.pc = pc /\ j.held = job[p].held /\ j.why = job[p].why /\ j.ask = job[p].ask
        /\ j.row = job[p].row
    BY <1>0 DEF JobRec
  <2>3. job' = [job EXCEPT ![p] = j]
    BY <1>1 DEF To, JobsTyped
  <2> HIDE DEF j
  <2> QED
    BY <2>1, <2>2, <2>3, JobChanges DEF JobAt
<1>2. ASSUME NEW r \in BOOLEAN, Ended(p, r) PROVE JobAt(p, "report", job[p].held)
  <2> DEFINE j == [[job[p] EXCEPT !.pc = "report"] EXCEPT !.ok = r]
  <2>1. j \in JobRec
    BY <1>0, Zenon DEF JobRec, Pcs
  <2>2. /\ j.pc = "report" /\ j.held = job[p].held /\ j.why = job[p].why /\ j.ask = job[p].ask
        /\ j.row = job[p].row
    BY <1>0 DEF JobRec
  <2>3. job' = [job EXCEPT ![p] = j]
    BY <1>2 DEF Ended, JobsTyped
  <2> HIDE DEF j
  <2> QED
    BY <2>1, <2>2, <2>3, JobChanges DEF JobAt
<1>3. ASSUME job' = [job EXCEPT ![p] = Rest] PROVE JobRests(p)
  BY <1>3, RestTyped, JobChanges DEF JobRests
<1> QED
  BY <1>1, <1>2, <1>3

LEMMA JobTakes ==
  ASSUME JobsTyped, NEW p \in Procs, NEW pc \in LanePcs, NEW l \in Locks,
         job' = [job EXCEPT ![p].pc = pc, ![p].held = l]
  PROVE  JobAt(p, pc, l)
<1>0. job[p] \in JobRec
  BY DEF JobsTyped
<1> DEFINE j == [[job[p] EXCEPT !.pc = pc] EXCEPT !.held = l]
<1>1. j \in JobRec
  BY <1>0, Zenon DEF JobRec, Pcs, LanePcs
<1>2. j.pc = pc /\ j.held = l /\ j.why = job[p].why /\ j.ask = job[p].ask /\ j.row = job[p].row
  BY <1>0 DEF JobRec
<1>3. job' = [job EXCEPT ![p] = j]
  BY DEF JobsTyped
<1> HIDE DEF j
<1> QED
  BY <1>1, <1>2, <1>3, JobChanges DEF JobAt

LEMMA LockFields ==
  ASSUME NEW l \in Locks
  PROVE  /\ l.at \in Backends /\ l.pane \in Ids /\ l.nonce \in Ids
         /\ \A n \in Ids : [l EXCEPT !.pane = n] \in Locks /\ [l EXCEPT !.pane = n].pane = n
                           /\ [l EXCEPT !.pane = n].nonce = l.nonce
BY DEF Locks

LEMMA AtStep ==
  ASSUME TypeInv, NEW p \in Procs
  PROVE  /\ JobsTyped /\ job[p] \in JobRec /\ job[p].held \in Locks /\ lock \in Locks
         /\ job[p].pc \in Pcs /\ job[p].row \in Rows \cup {0} /\ RoleOf(p, job[p])
         /\ \A b \in Backends : pane[b].id \in Ids /\ pane[b].nonce \in Ids
         /\ "tmux" \in Backends /\ opened \in Nat
BY NamesAreDistinct DEF TypeInv, JobsTyped, JobRec, LaneTyped, PanesTyped, PaneRec, Roles, Backends,
   CountsTyped

----------------------------------------------------------------------------
(* The steps of the lane and of the commands, as far as the jobs go.       *)

LanePc(p) == job[p].pc \in LanePcs
\* p goes on with the lock it held, or with another one.
GoesOn(p) == \E pc \in LanePcs : JobAt(p, pc, job[p].held) /\ (pc = "typed" => p \in Asks)
                                 /\ pc # "verify"
LocksOn(p) ==
  \E pc \in LanePcs, l \in Locks :
    /\ JobAt(p, pc, l) /\ pc # "typed"
    /\ l \in {lock, lock'} \/ (StartOpens(p) /\ l.pane = 0 /\ l.nonce = opened + 1)
    /\ pc = "verify" => StartWaits(p) \/ StartOpens(p)
Rests(p) ==
  /\ JobRests(p)
  /\ \/ p \in {"chat", "ctl"}
     \/ p \in Asks /\ Settles(p)
Shape(p) == LanePc(p) /\ (GoesOn(p) \/ LocksOn(p) \/ Rests(p))

LEMMA TakenShape ==
  ASSUME TypeInv, NEW p \in Procs, NEW l \in Locks, Taken(p, l)
  PROVE  \E pc \in {"ensure", "act"} : JobAt(p, pc, l)
<1>1. PICK pc \in {"ensure", "act"} : job' = [job EXCEPT ![p].pc = pc, ![p].held = l]
  BY Zenon DEF Taken
<1>2. pc \in LanePcs
  BY DEF LanePcs
<1> QED
  BY <1>1, <1>2, JobTakes, AtStep

LEMMA LaneShape ==
  ASSUME TypeInv, NEW p \in Procs, LaneStep(p)
  PROVE  Shape(p)
<1> USE AtStep, JobGoes DEF At, LanePc
<1>0. ASSUME LanePc(p), NEW r \in BOOLEAN, Ended(p, r) PROVE Shape(p)
  BY <1>0 DEF Shape, GoesOn, LanePcs
<1>00. ASSUME LanePc(p), NEW pc \in LanePcs \ {"typed", "verify"}, To(p, pc) PROVE Shape(p)
  BY <1>00 DEF Shape, GoesOn
<1>000. ASSUME LanePc(p), NEW l \in Locks, Taken(p, l), lock' = l PROVE Shape(p)
  BY <1>000, TakenShape DEF Shape, LocksOn, LanePcs
<1>1. CASE EnsureLocked(p)
  <2>1. LanePc(p) /\ (Ended(p, FALSE) \/ job' = [job EXCEPT ![p].pc = "refresh", ![p].held = lock])
    BY <1>1, Zenon DEF EnsureLocked, LanePcs
  <2>2. CASE job' = [job EXCEPT ![p].pc = "refresh", ![p].held = lock]
    <3>1. "refresh" \in LanePcs
      BY DEF LanePcs
    <3>2. JobAt(p, "refresh", lock)
      BY <2>2, <3>1, JobTakes
    <3> QED
      BY <2>1, <3>1, <3>2 DEF Shape, LocksOn
  <2> QED
    BY <1>0, <2>1, <2>2
<1>2. CASE EnsureUnlocked(p)
  BY <1>00, <1>2 DEF EnsureUnlocked, LanePcs
<1>3. CASE Refresh(p)
  BY <1>00, <1>3 DEF Refresh, LanePcs
<1>4. CASE Claim(p)
  <2> DEFINE l == [at |-> SelectedBackend, pane |-> pane[SelectedBackend].id, nonce |-> 0]
  <2>1. LanePc(p) /\ (Ended(p, FALSE) \/ (Taken(p, l) /\ lock' = l))
    BY <1>4, Zenon DEF Claim, LanePcs
  <2>2. l \in Locks
    BY NoLockTyped, LockFields DEF SelectedBackend, TypeInv, LaneTyped, Locks, Ids, Backends, NoLock
  <2> HIDE DEF l
  <2> QED
    BY <1>0, <1>000, <2>1, <2>2
<1>5. CASE StartRefused(p)
  BY <1>0, <1>5 DEF StartRefused, LanePcs
<1>6. CASE StartKeeps(p)
  BY <1>000, <1>6, LockFields DEF StartKeeps, LanePcs
<1>7. CASE StartWaits(p)
  <2>1. job[p].pc = "start" /\ JobAt(p, "verify", lock)
    BY <1>7, JobTakes DEF StartWaits, LanePcs
  <2> QED
    BY <1>7, <2>1 DEF Shape, LocksOn, LanePcs
<1>8. CASE StartOpens(p)
  <2> DEFINE l == [at |-> "tmux", pane |-> 0, nonce |-> opened + 1]
  <2>1. l \in Locks
    BY <1>8, NamesAreDistinct DEF StartOpens, Locks, Ids, Backends
  <2>2. job[p].pc = "start" /\ job' = [job EXCEPT ![p].pc = "verify", ![p].held = l]
    BY <1>8 DEF StartOpens
  <2>3. l.pane = 0 /\ l.nonce = opened + 1
    OBVIOUS
  <2> HIDE DEF l
  <2>4. JobAt(p, "verify", l)
    BY <2>1, <2>2, JobTakes DEF LanePcs
  <2> QED
    BY <1>8, <2>1, <2>2, <2>3, <2>4 DEF Shape, LocksOn, LanePcs
<1>9. CASE Verified(p)
  BY <1>000, <1>9, LockFields DEF Verified, LanePcs
<1>10. CASE NotVerified(p)
  BY <1>0, <1>10 DEF NotVerified, LanePcs
<1>11. CASE Stops(p)
  <2>1. LanePc(p) /\ (Ended(p, FALSE) \/ To(p, "start") \/ To(p, "act"))
    BY <1>11, Zenon DEF Stops, LanePcs
  <2> QED
    BY <1>0, <1>00, <2>1 DEF LanePcs
<1>12. CASE TypesAsk(p) \/ TypesPing(p)
  <2>1. LanePc(p) /\ (Ended(p, FALSE) \/ To(p, "wait") \/ (p \in Asks /\ To(p, "typed")))
    BY <1>12, Zenon DEF TypesAsk, TypesPing, Types, LanePcs
  <2>2. CASE p \in Asks /\ To(p, "typed")
    BY <2>1, <2>2 DEF Shape, GoesOn, LanePcs
  <2> QED
    BY <1>0, <1>00, <2>1, <2>2 DEF LanePcs
<1>13. CASE Submitted(p)
  <2>1. LanePc(p) /\ (Ended(p, FALSE) \/ To(p, "wait"))
    BY <1>13, Zenon DEF Submitted, LanePcs
  <2> QED
    BY <1>0, <1>00, <2>1 DEF LanePcs
<1>14. CASE Observes(p)
  BY <1>0, <1>14 DEF Observes, LanePcs
<1>15. CASE TimesOut(p)
  <2>1. LanePc(p) /\ (Ended(p, FALSE) \/ (p = "ctl" /\ job' = [job EXCEPT ![p] = Rest]))
    BY <1>15, Zenon DEF TimesOut, LanePcs
  <2> QED
    BY <1>0, <2>1 DEF Shape, Rests
<1>16. CASE Settles(p)
  <2>1. LanePc(p) /\ p \in Asks /\ job' = [job EXCEPT ![p] = Rest]
    BY <1>16 DEF Settles, LanePcs
  <2> QED
    BY <1>16, <2>1 DEF Shape, Rests
<1> QED
  BY <1>1, <1>2, <1>3, <1>4, <1>5, <1>6, <1>7, <1>8, <1>9, <1>10, <1>11, <1>12, <1>13, <1>14, <1>15,
     <1>16 DEF LaneStep

LEMMA CommandShape ==
  ASSUME TypeInv, NEW p \in Procs, CommandStep(p), ~PlacesAsk(p)
  PROVE  Shape(p)
<1> USE AtStep, JobGoes DEF At, LanePc
<1>0. ASSUME LanePc(p), NEW r \in BOOLEAN, Ended(p, r) PROVE Shape(p)
  BY <1>0 DEF Shape, GoesOn, LanePcs
<1>1. CASE SendsInterrupt(p)
  <2>1. /\ LanePc(p) /\ job[p].why = "interrupt"
        /\ Ended(p, FALSE) \/ job' = [job EXCEPT ![p] = Rest]
    BY <1>1, Zenon DEF SendsInterrupt, LanePcs
  <2>2. p \in {"chat", "ctl"}
    BY <2>1, NamesAreDistinct DEF RoleOf, None
  <2> QED
    BY <1>0, <2>1, <2>2 DEF Shape, Rests
<1>2. CASE SendsClear(p) \/ Connects(p) \/ Concludes(p)
  BY <1>0, <1>2 DEF SendsClear, Connects, Concludes, LanePcs
<1>3. CASE Answers(p)
  BY <1>3 DEF Answers, Shape, Rests, LanePcs
<1> QED
  BY <1>1, <1>2, <1>3 DEF CommandStep

----------------------------------------------------------------------------
(* The other steps that change a job, and the prompts they use.            *)

\* A job as it begins.
Job(pc, why, a, t) ==
  [pc |-> pc, why |-> why, held |-> NoLock, ask |-> a, row |-> t, ok |-> FALSE]
Becomes(p, j) == j \in JobRec /\ job' = [job EXCEPT ![p] = j]
NewAsk == used' = used \cup {NextAsk}

LEMMA JobTyped ==
  ASSUME NEW pc \in Pcs, NEW why \in Verbs \cup {None}, NEW a \in Asks \cup {None},
         NEW t \in Rows \cup {0}
  PROVE  /\ Job(pc, why, a, t) \in JobRec
         /\ Job(pc, why, a, t).pc = pc /\ Job(pc, why, a, t).why = why
         /\ Job(pc, why, a, t).held = NoLock /\ Job(pc, why, a, t).ask = a
         /\ Job(pc, why, a, t).row = t
<1>1. Job(pc, why, a, t) \in JobRec
  BY NoLockTyped, Zenon DEF Job, JobRec
<1> QED
  BY <1>1 DEF Job

LEMMA JobsEqual ==
  ASSUME NEW j \in JobRec, NEW k \in JobRec, j.pc = k.pc, j.why = k.why, j.held = k.held,
         j.ask = k.ask, j.row = k.row, j.ok = k.ok
  PROVE  j = k
BY DEF JobRec

LEMMA RestChanged ==
  ASSUME NEW pc \in Pcs, NEW why \in Verbs \cup {None}, NEW a \in Asks \cup {None},
         NEW t \in Rows \cup {0}
  PROVE  /\ [Rest EXCEPT !.pc = pc, !.why = why] = Job(pc, why, None, 0)
         /\ [Rest EXCEPT !.pc = pc, !.why = why, !.row = t] = Job(pc, why, None, t)
         /\ [Rest EXCEPT !.pc = pc, !.why = why, !.ask = a] = Job(pc, why, a, 0)
<1>0. /\ Job(pc, why, None, 0) \in JobRec
      /\ Job(pc, why, None, t) \in JobRec /\ Job(pc, why, a, 0) \in JobRec
  BY JobTyped, Zenon
<1> DEFINE j1 == [Rest EXCEPT !.pc = pc, !.why = why]
           j2 == [Rest EXCEPT !.pc = pc, !.why = why, !.row = t]
           j3 == [Rest EXCEPT !.pc = pc, !.why = why, !.ask = a]
           k1 == Job(pc, why, None, 0)
           k2 == Job(pc, why, None, t)
           k3 == Job(pc, why, a, 0)
<1>1. j1 \in JobRec /\ j2 \in JobRec /\ j3 \in JobRec
  BY RestTyped, Zenon DEF JobRec
<1>2. /\ j1.pc = k1.pc /\ j1.why = k1.why /\ j1.held = k1.held
      /\ j1.ask = k1.ask /\ j1.row = k1.row /\ j1.ok = k1.ok
  BY Zenon DEF Rest, Job
<1>3. /\ j2.pc = k2.pc /\ j2.why = k2.why /\ j2.held = k2.held
      /\ j2.ask = k2.ask /\ j2.row = k2.row /\ j2.ok = k2.ok
  BY Zenon DEF Rest, Job
<1>4. /\ j3.pc = k3.pc /\ j3.why = k3.why /\ j3.held = k3.held
      /\ j3.ask = k3.ask /\ j3.row = k3.row /\ j3.ok = k3.ok
  BY Zenon DEF Rest, Job
<1>5. k1 \in JobRec /\ k2 \in JobRec /\ k3 \in JobRec
  BY <1>0, Zenon
<1> HIDE DEF j1, j2, j3, k1, k2, k3
<1>6. j1 = k1 /\ j2 = k2 /\ j3 = k3
  BY <1>1, <1>2, <1>3, <1>4, <1>5, JobsEqual
<1> QED
  BY <1>6, Zenon DEF j1, j2, j3, k1, k2, k3

LEMMA RunIsJob ==
  ASSUME NEW a \in Asks, NEW t \in Rows \cup {0}
  PROVE  Run(a, t) = Job("ensure", "ask", a, t) /\ Job("ensure", "ask", a, t) \in JobRec
<1>1. "ensure" \in Pcs /\ "ask" \in Verbs \cup {None} /\ a \in Asks \cup {None}
  BY DEF Pcs, Verbs
<1>2. Job("ensure", "ask", a, t) \in JobRec
  BY <1>1, JobTyped, Zenon
<1> DEFINE j == Run(a, t)
           k == Job("ensure", "ask", a, t)
<1>3. j \in JobRec
  BY <1>1, RestTyped, Zenon DEF Run, JobRec
<1>4. /\ j.pc = k.pc /\ j.why = k.why /\ j.held = k.held /\ j.ask = k.ask /\ j.row = k.row
      /\ j.ok = k.ok
  BY Zenon DEF Run, Rest, Job
<1> HIDE DEF j, k
<1>5. j = k
  BY <1>2, <1>3, <1>4, JobsEqual DEF k
<1> QED
  BY <1>2, <1>5 DEF j, k

BeginsVerb(p) ==
  /\ p \in {"chat", "ctl"} /\ Idle(p) /\ used' = used
  /\ \E pc \in {"claim", "start", "stop", "ensure"}, verb \in Verbs \ {"ask", "ping"} :
       Becomes(p, Job(pc, verb, None, 0))
BeginsPrompt(p) ==
  /\ p \in {"chat", "ctl"} /\ Idle(p) /\ Left /\ NewAsk
  /\ \E verb \in {"ask", "ping"} : Becomes(p, Job("ensure", verb, NextAsk, 0))
BeginsPlacing(p) ==
  /\ p \in {"chat", "worker"} /\ Idle(p) /\ Left /\ used' = used
  /\ \E verb \in {"ask", "ping"}, t \in Rows \cup {0} :
       /\ Becomes(p, Job("place", verb, None, t))
       /\ p = "chat" => verb = "ask" /\ t = 0
       /\ t \in Rows => row[t] = "pending"
BeginsFallback ==
  /\ Idle("worker") /\ used' = used
  /\ \E t \in Rows : FallbackTakes(t) /\ Becomes("worker", Job("fallback", None, None, t))
Hangs ==
  /\ At("worker", "fallback") /\ used' = used
  /\ job' = [job EXCEPT !["worker"].pc = "hung"]
WorkerRests ==
  /\ FallbackEnds \/ PingEnds \/ RunEnds
  /\ used' = used /\ Becomes("worker", Rest)

LEMMA SetsAreFinite ==
  ASSUME TypeInv
  PROVE  /\ Placing \subseteq {"chat", "worker"} /\ IsFiniteSet(Placing) /\ IsFiniteSet(used)
         /\ IsFiniteSet(Asks) /\ used \subseteq Asks
         /\ Cardinality(Placing) \in Nat /\ Cardinality(used) \in Nat /\ Cardinality(Asks) \in Nat
<1>1. Placing \subseteq {"chat", "worker"}
  BY DEF TypeInv, Roles, RoleOf, Placing, At
<1>2. IsFiniteSet({"chat", "worker"})
  <2>1. IsFiniteSet({"chat"})
    BY FS_Singleton
  <2>2. {"chat", "worker"} = {"chat"} \cup {"worker"}
    OBVIOUS
  <2> QED
    BY <2>1, <2>2, FS_AddElement
<1>3. used \subseteq Asks
  BY DEF TypeInv, CountsTyped
<1> QED
  BY <1>1, <1>2, <1>3, NamesAreDistinct, FS_Subset, FS_CardinalityType

LEMMA NextAskIsNew ==
  ASSUME TypeInv, Left \/ \E p \in Procs : At(p, "place")
  PROVE  NextAsk \in Asks \ used
<1>1. Cardinality(used) < Cardinality(Asks)
  <2>1. CASE Left
    BY <2>1, SetsAreFinite DEF Left, Placing
  <2>2. CASE \E p \in Procs : At(p, "place")
    <3>1. Placing # {}
      BY <2>2 DEF Placing
    <3>2. Cardinality(Placing) # 0
      BY <3>1, SetsAreFinite, FS_EmptySet
    <3> QED
      BY <3>2, SetsAreFinite DEF TypeInv, Room
  <2> QED
    BY <2>1, <2>2
<1>2. \E a \in Asks : a \notin used
  BY <1>1, SetsAreFinite
<1> QED
  BY <1>2 DEF NextAsk

LEMMA CommandMoves ==
  ASSUME TypeInv
  PROVE  /\ \A p \in {"chat", "ctl"} :
            CommandLock(p) \/ CommandStart(p) \/ CommandStop(p) \/ CommandInterrupt(p)
              \/ CommandClear(p) => BeginsVerb(p)
         /\ CommandConnect => BeginsVerb("chat")
         /\ \A p \in {"chat", "ctl"} : CommandPing(p) => BeginsPrompt(p)
         /\ ControlAsk => BeginsPrompt("ctl")
         /\ CommandAsk => BeginsPlacing("chat")
         /\ \A t \in Rows : TerminalTakes(t) => BeginsPlacing("worker")
         /\ \A t \in Rows : FallbackTakes(t) => BeginsFallback
         /\ FallbackSwitched => used' = used /\ (UNCHANGED job \/ Hangs)
         /\ FallbackEnds \/ PingEnds \/ RunEnds => WorkerRests
<1>1. ASSUME NEW p \in {"chat", "ctl"}, NEW pc \in {"claim", "start", "stop", "ensure"},
             NEW verb \in Verbs \ {"ask", "ping"}, Idle(p), used' = used, Begin(p, pc, verb)
      PROVE  BeginsVerb(p)
  <2>1. Begin(p, pc, verb) => Becomes(p, Job(pc, verb, None, 0))
    <3>1. pc \in Pcs /\ 0 \in Rows \cup {0} /\ None \in Asks \cup {None}
      BY DEF Pcs
    <3>2. Job(pc, verb, None, 0) \in JobRec /\ [Rest EXCEPT !.pc = pc, !.why = verb] = Job(pc, verb, None, 0)
      BY <3>1, RestChanged, JobTyped, Zenon
    <3> QED
      BY <3>2, Zenon DEF Begin, Becomes
  <2> QED
    BY <1>1, <2>1 DEF BeginsVerb
<1>2. ASSUME NEW p \in {"chat", "ctl"},
             CommandLock(p) \/ CommandStart(p) \/ CommandStop(p) \/ CommandInterrupt(p)
               \/ CommandClear(p)
      PROVE  BeginsVerb(p)
  BY <1>1, <1>2 DEF CommandLock, CommandStart, CommandStop, CommandInterrupt, CommandClear, Command,
     Verbs
<1>3. ASSUME CommandConnect PROVE BeginsVerb("chat")
  BY <1>1, <1>3 DEF CommandConnect, Command, Verbs
<1>4. ASSUME NEW p \in {"chat", "ctl"}, NEW verb \in {"ask", "ping"}, Left, NewAsk, Idle(p),
             job' = [job EXCEPT ![p] =
                       [Rest EXCEPT !.pc = "ensure", !.why = verb, !.ask = NextAsk]]
      PROVE  BeginsPrompt(p)
  <2>1. "ensure" \in Pcs /\ verb \in Verbs \cup {None} /\ NextAsk \in Asks \cup {None}
        /\ 0 \in Rows \cup {0}
    BY <1>4, NextAskIsNew DEF Pcs, Verbs
  <2>2. /\ [Rest EXCEPT !.pc = "ensure", !.why = verb, !.ask = NextAsk] = Job("ensure", verb, NextAsk, 0)
        /\ Job("ensure", verb, NextAsk, 0) \in JobRec
    BY <2>1, RestChanged, JobTyped, Zenon
  <2> QED
    BY <1>4, <2>2, Zenon DEF BeginsPrompt, Becomes
<1>5. ASSUME NEW p \in {"chat", "ctl"}, CommandPing(p) PROVE BeginsPrompt(p)
  BY <1>4, <1>5, Zenon DEF CommandPing, Command, NewAsk
<1>6. ASSUME ControlAsk PROVE BeginsPrompt("ctl")
  BY <1>4, <1>6, Zenon DEF ControlAsk, Command, NewAsk
<1>7. ASSUME NEW pc \in {"place", "fallback"}, NEW verb \in {"ask", "ping", None},
             NEW t \in Rows \cup {0}
      PROVE  /\ Job(pc, verb, None, t) \in JobRec
             /\ [Rest EXCEPT !.pc = pc, !.why = verb] = Job(pc, verb, None, 0)
             /\ [Rest EXCEPT !.pc = pc, !.why = verb, !.row = t] = Job(pc, verb, None, t)
  <2>1. pc \in Pcs /\ verb \in Verbs \cup {None} /\ None \in Asks \cup {None}
    BY DEF Pcs, Verbs
  <2> QED
    BY <2>1, RestChanged, JobTyped, Zenon
<1>8. ASSUME CommandAsk PROVE BeginsPlacing("chat")
  <2>1. 0 \notin Rows
    BY NamesAreDistinct
  <2> QED
    BY <1>7, <1>8, <2>1, Zenon DEF CommandAsk, Command, Begin, Becomes, BeginsPlacing
<1>11. ASSUME NEW t \in Rows, TerminalTakes(t) PROVE BeginsPlacing("worker")
  <2>1. PICK verb \in {"ask", "ping"} : Takes("place", verb, t)
    BY <1>11, Zenon DEF TerminalTakes
  <2>2. Becomes("worker", Job("place", verb, None, t))
    BY <1>7, <2>1, Zenon DEF Takes, Becomes
  <2>3. Idle("worker") /\ Left /\ used' = used /\ row[t] = "pending"
    BY <1>11 DEF TerminalTakes, bounded, Pending
  <2> QED
    BY <2>2, <2>3, Zenon DEF BeginsPlacing
<1>12. ASSUME NEW t \in Rows, FallbackTakes(t) PROVE BeginsFallback
  <2>1. Becomes("worker", Job("fallback", None, None, t))
    BY <1>7, <1>12, Zenon DEF FallbackTakes, Takes, Becomes
  <2> QED
    BY <1>12, <2>1 DEF FallbackTakes, BeginsFallback, bounded
<1>9. ASSUME FallbackSwitched PROVE used' = used /\ (UNCHANGED job \/ Hangs)
  BY <1>9, Zenon DEF FallbackSwitched, FallbackCloses, Hangs, Command
<1>10. ASSUME FallbackEnds \/ PingEnds \/ RunEnds PROVE WorkerRests
  BY <1>10, RestTyped DEF FallbackEnds, PingEnds, RunEnds, WorkerRests, Becomes, bounded
<1> QED
  BY <1>2, <1>3, <1>5, <1>6, <1>8, <1>9, <1>10, <1>11, <1>12

LEMMA Moves ==
  ASSUME TypeInv, [Next]_vars
  PROVE  \/ used' = used /\ UNCHANGED job
         \/ used' = used /\ \E p \in Procs : Shape(p)
         \/ \E p \in Procs : BeginsVerb(p) \/ BeginsPrompt(p) \/ BeginsPlacing(p)
         \/ BeginsFallback \/ Hangs \/ WorkerRests \/ PlacesPing \/ Restart
         \/ \E p \in Procs : PlacesAsk(p)
<1>1. CASE ~UNCHANGED used
  <2>1. PlacesPing \/ ControlAsk \/ (\E p \in Procs : PlacesAsk(p))
        \/ (\E p \in {"chat", "ctl"} : CommandPing(p))
    BY <1>1, UsedMoves
  <2> QED
    BY <2>1, CommandMoves, NamesAreDistinct
<1>2. CASE UNCHANGED used
  <2>1. CASE \E p \in Procs : LaneStep(p) \/ (CommandStep(p) /\ ~PlacesAsk(p))
    BY <1>2, <2>1, LaneShape, CommandShape
  <2>2. CASE ~\E p \in Procs : LaneStep(p) \/ CommandStep(p)
    <3>1. \/ UNCHANGED job
          \/ CommandConnect \/ CommandAsk \/ ControlAsk \/ FallbackSwitched \/ Restart
             \/ FallbackEnds \/ PlacesPing \/ PingEnds \/ RunEnds
          \/ \E p \in {"chat", "ctl"} : CommandLock(p) \/ CommandStart(p) \/ CommandStop(p)
             \/ CommandPing(p) \/ CommandInterrupt(p) \/ CommandClear(p)
          \/ \E t \in Rows : TerminalTakes(t) \/ FallbackTakes(t)
      BY <2>2, JobMoves DEF LaneStep, CommandStep
    <3> QED
      BY <1>2, <3>1, CommandMoves, NamesAreDistinct
  <2> QED
    BY <2>1, <2>2
<1> QED
  BY <1>1, <1>2

LEMMA PingPlaced ==
  ASSUME TypeInv, PlacesPing
  PROVE  /\ NextAsk \in Asks \ used /\ NewAsk /\ JobsTyped'
         /\ \A q \in Procs \ {"worker"} : job'[q] = job[q]
         /\ At("worker", "place") /\ job["worker"].why = "ping"
         /\ job'["worker"].pc = "ensure" /\ job'["worker"].ask = NextAsk
         /\ job'["worker"].why = "ping" /\ job'["worker"].row = job["worker"].row
         /\ job'["worker"].held = job["worker"].held
<1>1. /\ At("worker", "place") /\ job["worker"].why = "ping" /\ NewAsk
      /\ job' = [job EXCEPT !["worker"].pc = "ensure", !["worker"].ask = NextAsk]
  BY Zenon DEF PlacesPing, NewAsk
<1>2. "worker" \in Procs /\ NextAsk \in Asks \ used
  BY <1>1, NextAskIsNew DEF Procs
<1>3. job["worker"] \in JobRec
  BY <1>2, AtStep
<1> DEFINE j == [[job["worker"] EXCEPT !.pc = "ensure"] EXCEPT !.ask = NextAsk]
<1>4. j \in JobRec
  BY <1>2, <1>3, Zenon DEF JobRec, Pcs
<1>5. /\ j.pc = "ensure" /\ j.ask = NextAsk /\ j.why = job["worker"].why
      /\ j.row = job["worker"].row /\ j.held = job["worker"].held
  BY <1>3 DEF JobRec
<1>6. job' = [job EXCEPT !["worker"] = j]
  BY <1>1 DEF TypeInv, JobsTyped
<1> HIDE DEF j
<1>7. JobsTyped' /\ job'["worker"] = j /\ \A q \in Procs \ {"worker"} : job'[q] = job[q]
  BY <1>2, <1>4, <1>6, JobChanges DEF TypeInv
<1> QED
  BY <1>1, <1>2, <1>4, <1>5, <1>7

LEMMA AskPlaced ==
  ASSUME TypeInv, NEW p \in Procs, PlacesAsk(p)
  PROVE  /\ p \in {"chat", "worker"} /\ At(p, "place") /\ job[p].why = "ask"
         /\ NextAsk \in Asks \ used /\ job[NextAsk] = Rest /\ NewAsk /\ JobsTyped'
         /\ \A q \in Procs \ {p, NextAsk} : job'[q] = job[q]
         /\ job'[NextAsk] = Job("ensure", "ask", NextAsk, job[p].row)
         /\ Job("ensure", "ask", NextAsk, job[p].row) \in JobRec
         /\ \/ p = "chat" /\ job'[p] = Rest
            \/ /\ p = "worker" /\ job'[p].pc = "run" /\ job'[p].ask = NextAsk
               /\ job'[p].why = "ask" /\ job'[p].row = job[p].row /\ job'[p].held = job[p].held
<1> DEFINE a == NextAsk
           t == job[p].row
           run == [[job[p] EXCEPT !.pc = "run"] EXCEPT !.ask = a]
           next == IF p = "worker" THEN run ELSE Rest
           begun == Job("ensure", "ask", a, t)
<1>1. At(p, "place") /\ job[p].why = "ask" /\ NewAsk
  BY DEF PlacesAsk, NewAsk
<1>2. p \in {"chat", "worker"} /\ a \in Asks \ used /\ job[p] \in JobRec /\ t \in Rows \cup {0}
  BY <1>1, NextAskIsNew, AtStep DEF RoleOf, At
<1>3. job[a] = Rest /\ a # p /\ a \in Procs
  BY <1>2, NamesAreDistinct DEF TypeInv, Roles
<1>4. begun \in JobRec /\ Run(a, t) = begun
  <2>1. "ensure" \in Pcs /\ "ask" \in Verbs \cup {None} /\ a \in Asks \cup {None}
    BY <1>2 DEF Pcs, Verbs
  <2> QED
    BY <1>2, <2>1, RunIsJob
<1>5. run \in JobRec
  BY <1>2, Zenon DEF JobRec, Pcs
<1>6. /\ run.pc = "run" /\ run.ask = a /\ run.why = job[p].why /\ run.row = t
      /\ run.held = job[p].held
  BY <1>2 DEF JobRec
<1>7. job' = [job EXCEPT ![a] = begun, ![p] = next]
  <2>1. [job[p] EXCEPT !.pc = "run", !.ask = a] = run
    BY <1>2 DEF JobRec
  <2> QED
    BY <1>4, <2>1, Zenon DEF PlacesAsk
<1> HIDE DEF a, t, run, begun
<1>8. next \in JobRec
  BY <1>5, RestTyped
<1>9. job' \in [Procs -> JobRec] /\ job'[a] = begun /\ job'[p] = next
      /\ \A q \in Procs \ {p, a} : job'[q] = job[q]
  <2> HIDE DEF next
  <2> QED
    BY <1>3, <1>4, <1>7, <1>8 DEF TypeInv, JobsTyped
<1> QED
  BY <1>1, <1>2, <1>3, <1>4, <1>6, <1>9 DEF a, t, begun, JobsTyped

LEMMA Restarted ==
  ASSUME TypeInv, Restart
  PROVE  /\ used' = used /\ JobsTyped'
         /\ \A p \in Procs :
              \/ p = "ctl" /\ job'[p] = job[p]
              \/ p # "ctl" /\ job'[p] = Rest
              \/ /\ saved # NoTask /\ ~saved.sent /\ p = saved.id /\ p \in used /\ active' = saved
                 /\ saved' = saved /\ saved.row \in Rows \cup {0} /\ p \in Asks
                 /\ job'[p] = Job("ensure", "ask", p, saved.row)
<1>1. used' = used
  BY DEF Restart
<1>2. /\ Rested \in [Procs -> JobRec]
      /\ \A p \in Procs : IF p = "ctl" THEN Rested[p] = job[p] ELSE Rested[p] = Rest
  BY RestTyped DEF Rested, TypeInv, JobsTyped
<1>3. CASE job' = Rested
  BY <1>1, <1>2, <1>3 DEF JobsTyped
<1>4. CASE job' # Rested
  <2>1. /\ ~saved.sent /\ saved # NoTask /\ active' = saved /\ saved' = saved
        /\ job' = [Rested EXCEPT ![saved.id] = Run(saved.id, saved.row)]
    BY <1>4, Zenon DEF Restart
  <2>2. saved \in Tasks /\ saved.id \in used
    BY <2>1 DEF TypeInv, TasksTyped
  <2>3. saved.id \in Asks /\ saved.row \in Rows \cup {0} /\ saved.id \in Procs /\ saved.id # "ctl"
    BY <2>2, NamesAreDistinct DEF Tasks
  <2>4. /\ Run(saved.id, saved.row) = Job("ensure", "ask", saved.id, saved.row)
        /\ Job("ensure", "ask", saved.id, saved.row) \in JobRec
    <3>1. "ensure" \in Pcs /\ "ask" \in Verbs \cup {None} /\ saved.id \in Asks \cup {None}
      BY <2>3 DEF Pcs, Verbs
    <3> QED
      BY <2>3, <3>1, RunIsJob
  <2> DEFINE j == Job("ensure", "ask", saved.id, saved.row)
  <2>5. job' = [Rested EXCEPT ![saved.id] = j] /\ j \in JobRec
    BY <2>1, <2>4
  <2> HIDE DEF j
  <2>6. job' \in [Procs -> JobRec] /\ job'[saved.id] = j
        /\ \A q \in Procs \ {saved.id} : job'[q] = Rested[q]
    BY <1>2, <2>3, <2>5
  <2> QED
    BY <1>1, <1>2, <2>1, <2>2, <2>3, <2>6 DEF JobsTyped, j
<1> QED
  BY <1>3, <1>4

----------------------------------------------------------------------------
(* Every job keeps its role, and every prompt finds a name.                *)

LEMMA RolesKept ==
  ASSUME TypeInv, NEW p \in Procs, \A q \in Procs \ {p} : job'[q] = job[q],
         RoleOf(p, job'[p]), used \subseteq used', p \in Asks => p \in used' \/ job'[p] = Rest
  PROVE  Roles'
BY NamesAreDistinct DEF TypeInv, Roles

LEMMA ShapeRole ==
  ASSUME TypeInv, NEW p \in Procs, Shape(p)
  PROVE  /\ JobsTyped' /\ \A q \in Procs \ {p} : job'[q] = job[q]
         /\ RoleOf(p, job'[p]) /\ job'[p].pc # "place" /\ (p \in Asks => p \in used)
<1>1. RoleOf(p, job[p]) /\ LanePc(p)
  BY AtStep DEF Shape
<1>2. p \in Asks => p \in used
  BY <1>1, RestTyped DEF TypeInv, Roles, LanePc, LanePcs
<1>3. ASSUME NEW pc \in LanePcs, NEW l, JobAt(p, pc, l), pc = "typed" => p \in Asks
      PROVE  RoleOf(p, job'[p]) /\ job'[p].pc # "place"
  BY <1>1, <1>3 DEF JobAt, RoleOf, LanePc, LanePcs
<1>4. CASE GoesOn(p) \/ LocksOn(p)
  <2>1. PICK pc \in LanePcs, l \in Locks : JobAt(p, pc, l) /\ (pc = "typed" => p \in Asks)
    BY <1>4, AtStep DEF GoesOn, LocksOn
  <2> QED
    BY <1>2, <1>3, <2>1 DEF JobAt
<1>5. CASE Rests(p)
  BY <1>2, <1>5, RestTyped DEF Rests, JobRests
<1> QED
  BY <1>4, <1>5 DEF Shape

LEMMA RoomKept ==
  ASSUME TypeInv, used' = used, Placing' \subseteq Placing
  PROVE  Room'
<1>1. IsFiniteSet(Placing') /\ Cardinality(Placing') <= Cardinality(Placing)
  BY SetsAreFinite, FS_Subset
<1>2. Cardinality(Placing') \in Nat
  BY <1>1, FS_CardinalityType
<1> QED
  BY <1>1, <1>2, SetsAreFinite DEF TypeInv, Room

\* A prompt's name is taken: Left was checked, or its place is given up.
LEMMA RoomTaken ==
  ASSUME TypeInv, NewAsk,
         \/ Left /\ Placing' = Placing
         \/ \E p \in Placing : Placing' = Placing \ {p}
  PROVE  Room'
<1>1. NextAsk \in Asks \ used
  BY NextAskIsNew DEF Placing
<1>2. Cardinality(used') = Cardinality(used) + 1
  BY <1>1, SetsAreFinite, FS_AddElement DEF NewAsk
<1>3. CASE Left /\ Placing' = Placing
  <2>1. Cardinality(used) + Cardinality(Placing) < Cardinality(Asks)
    BY <1>3 DEF Left, Placing
  <2> QED
    BY <1>2, <1>3, <2>1, SetsAreFinite DEF Room
<1>4. CASE \E p \in Placing : Placing' = Placing \ {p}
  <2>1. PICK p \in Placing : Placing' = Placing \ {p}
    BY <1>4
  <2>2. Cardinality(Placing') = Cardinality(Placing) - 1
    BY <2>1, SetsAreFinite, FS_RemoveElement
  <2> QED
    BY <1>2, <2>2, SetsAreFinite DEF TypeInv, Room
<1> QED
  BY <1>3, <1>4

\* A place is taken after Left was checked.
LEMMA RoomHeld ==
  ASSUME TypeInv, Left, used' = used, NEW p, Placing' = Placing \cup {p}
  PROVE  Room'
<1>1. Cardinality(Placing') <= Cardinality(Placing) + 1 /\ Cardinality(Placing') \in Nat
  <2> DEFINE P == Placing
  <2>1. IsFiniteSet(P) /\ Cardinality(P) \in Nat
    BY SetsAreFinite
  <2> HIDE DEF P
  <2>2. /\ IsFiniteSet(P \cup {p})
        /\ Cardinality(P \cup {p}) = IF p \in P THEN Cardinality(P) ELSE Cardinality(P) + 1
    BY <2>1, FS_AddElement
  <2>3. Cardinality(P \cup {p}) <= Cardinality(P) + 1 /\ Cardinality(P \cup {p}) \in Nat
    BY <2>1, <2>2
  <2> QED
    BY <2>3, Zenon DEF P
<1>2. Cardinality(used) + Cardinality(Placing) < Cardinality(Asks)
  BY DEF Left, Placing
<1> QED
  BY <1>1, <1>2, SetsAreFinite DEF Room

LEMMA JobsStep ==
  ASSUME TypeInv, [Next]_vars
  PROVE  JobsTyped' /\ Roles' /\ Room' /\ used \subseteq used'
<1> USE NamesAreDistinct DEF At, Idle
<1>1. CASE used' = used /\ UNCHANGED job
  <2>1. Placing' = Placing
    BY <1>1 DEF Placing
  <2> QED
    BY <1>1, <2>1, RoomKept DEF TypeInv, JobsTyped, Roles
<1>2. ASSUME NEW p \in Procs, used' = used, Shape(p) PROVE JobsTyped' /\ Roles' /\ Room'
  <2>1. /\ JobsTyped' /\ \A q \in Procs \ {p} : job'[q] = job[q]
        /\ RoleOf(p, job'[p]) /\ job'[p].pc # "place" /\ (p \in Asks => p \in used)
    BY <1>2, ShapeRole, Zenon
  <2>2. Placing' \subseteq Placing
    BY <2>1 DEF Placing
  <2>3. Roles'
    BY <1>2, <2>1, RolesKept
  <2> QED
    BY <1>2, <2>1, <2>2, <2>3, RoomKept
<1>3. ASSUME NEW p \in Procs, NEW j, Becomes(p, j)
      PROVE  /\ JobsTyped' /\ job'[p] = j /\ \A q \in Procs \ {p} : job'[q] = job[q]
             /\ j.pc # "place" => Placing' = Placing \ {p}
             /\ j.pc = "place" => Placing' = Placing \cup {p}
  <2>1. JobsTyped' /\ job'[p] = j /\ \A q \in Procs \ {p} : job'[q] = job[q]
    BY <1>3, JobChanges DEF Becomes, TypeInv
  <2> QED
    BY <2>1 DEF Placing
<1>4. ASSUME NEW p \in Procs, BeginsVerb(p) PROVE JobsTyped' /\ Roles' /\ Room'
  <2>1. PICK pc \in {"claim", "start", "stop", "ensure"}, verb \in Verbs \ {"ask", "ping"} :
          Becomes(p, Job(pc, verb, None, 0))
    BY <1>4 DEF BeginsVerb
  <2> DEFINE j == Job(pc, verb, None, 0)
  <2>2. j.pc = pc /\ j.why = verb /\ j.row = 0
    BY Zenon DEF Job
  <2>3. Becomes(p, j)
    BY <2>1
  <2> HIDE DEF j
  <2>4. RoleOf(p, j) /\ p \notin Asks /\ used' = used
    BY <1>4, <2>2 DEF RoleOf, BeginsVerb, LanePcs
  <2> QED
    BY <1>3, <2>2, <2>3, <2>4, RolesKept, RoomKept
<1>5. ASSUME NEW p \in Procs, BeginsPrompt(p)
      PROVE  JobsTyped' /\ Roles' /\ Room' /\ used \subseteq used'
  <2>1. PICK verb \in {"ask", "ping"} : Becomes(p, Job("ensure", verb, NextAsk, 0))
    BY <1>5 DEF BeginsPrompt
  <2> DEFINE j == Job("ensure", verb, NextAsk, 0)
  <2>2. j.pc = "ensure" /\ j.why = verb /\ j.row = 0 /\ j.ask = NextAsk
    BY Zenon DEF Job
  <2>3. Becomes(p, j)
    BY <2>1
  <2> HIDE DEF j
  <2>4. RoleOf(p, j) /\ p \notin Asks /\ used \subseteq used'
    BY <1>5, <2>2, NextAskIsNew DEF RoleOf, BeginsPrompt, LanePcs, NewAsk
  <2>5. Placing' = Placing
    BY <1>3, <1>5, <2>2, <2>3 DEF BeginsPrompt, Placing
  <2> QED
    BY <1>3, <1>5, <2>2, <2>3, <2>4, <2>5, RolesKept, RoomTaken DEF BeginsPrompt
<1>6. ASSUME NEW p \in Procs, BeginsPlacing(p) PROVE JobsTyped' /\ Roles' /\ Room' /\ used \subseteq used'
  <2>1. PICK verb \in {"ask", "ping"}, t \in Rows \cup {0} :
          Becomes(p, Job("place", verb, None, t)) /\ (p = "chat" => verb = "ask" /\ t = 0)
    BY <1>6 DEF BeginsPlacing
  <2> DEFINE j == Job("place", verb, None, t)
  <2>2. j.pc = "place" /\ j.why = verb /\ j.row = t
    BY Zenon DEF Job
  <2>3. Becomes(p, j)
    BY <2>1
  <2> HIDE DEF j
  <2>4. RoleOf(p, j) /\ p \notin Asks /\ used' = used /\ Left
    BY <1>6, <2>1, <2>2 DEF RoleOf, BeginsPlacing, LanePcs
  <2>5. Roles' /\ JobsTyped'
    BY <1>3, <2>2, <2>3, <2>4, RolesKept
  <2>6. Placing' = Placing \cup {p}
    BY <1>3, <2>2, <2>3
  <2> QED
    BY <2>4, <2>5, <2>6, RoomHeld
<1>7. ASSUME BeginsFallback PROVE JobsTyped' /\ Roles' /\ Room' /\ used \subseteq used'
  <2>1. PICK t \in Rows : Becomes("worker", Job("fallback", None, None, t))
    BY <1>7 DEF BeginsFallback
  <2> DEFINE j == Job("fallback", None, None, t)
  <2>2. j.pc = "fallback" /\ j.why = None /\ j.row = t
    BY Zenon DEF Job
  <2>3. Becomes("worker", j) /\ "worker" \in Procs
    BY <2>1
  <2> HIDE DEF j
  <2>4. RoleOf("worker", j) /\ used' = used
    BY <1>7, <2>2 DEF RoleOf, BeginsFallback, LanePcs
  <2> QED
    BY <1>3, <2>2, <2>3, <2>4, RolesKept, RoomKept
<1>8. ASSUME Hangs PROVE JobsTyped' /\ Roles' /\ Room' /\ used \subseteq used'
  <2> DEFINE j == [job["worker"] EXCEPT !.pc = "hung"]
  <2>0. "worker" \in Procs /\ job["worker"] \in JobRec
    BY AtStep
  <2>1. j \in JobRec
    BY <2>0, Zenon DEF JobRec, Pcs
  <2>2. j.pc = "hung" /\ j.why = job["worker"].why /\ j.row = job["worker"].row
    BY <2>0 DEF JobRec
  <2>3. Becomes("worker", j)
    BY <1>8, <2>1 DEF Becomes, Hangs, TypeInv, JobsTyped
  <2> HIDE DEF j
  <2>4. RoleOf("worker", j) /\ used' = used
    BY <1>8, <2>0, <2>2, AtStep DEF RoleOf, Hangs, LanePcs
  <2> QED
    BY <1>3, <2>0, <2>2, <2>3, <2>4, RolesKept, RoomKept
<1>9. ASSUME WorkerRests PROVE JobsTyped' /\ Roles' /\ Room' /\ used \subseteq used'
  <2>1. Becomes("worker", Rest) /\ used' = used /\ "worker" \in Procs
    BY <1>9 DEF WorkerRests
  <2> QED
    BY <1>3, <2>1, RestTyped, RolesKept, RoomKept
<1>10. ASSUME PlacesPing PROVE JobsTyped' /\ Roles' /\ Room' /\ used \subseteq used'
  <2>1. "worker" \in Procs /\ RoleOf("worker", job'["worker"]) /\ used \subseteq used'
    BY <1>10, PingPlaced, AtStep DEF RoleOf, LanePcs, NewAsk
  <2>2. "worker" \in Placing /\ Placing' = Placing \ {"worker"}
    BY <1>10, PingPlaced DEF Placing
  <2> QED
    BY <1>10, <2>1, <2>2, PingPlaced, RolesKept, RoomTaken
<1>11. ASSUME NEW p \in Procs, PlacesAsk(p) PROVE JobsTyped' /\ Roles' /\ Room' /\ used \subseteq used'
  <2> DEFINE a == NextAsk
             j == Job("ensure", "ask", a, job[p].row)
  <2>0. j.pc = "ensure" /\ j.why = "ask" /\ j.ask = a
    BY Zenon DEF Job
  <2>1. /\ a \in Asks \ used /\ job'[a] = j /\ job[a] = Rest /\ JobsTyped' /\ NewAsk /\ p # a
        /\ \A q \in Procs \ {p, a} : job'[q] = job[q]
    BY <1>11, AskPlaced
  <2> HIDE DEF j
  <2>2. RoleOf(a, job'[a])
    BY <2>0, <2>1 DEF RoleOf, LanePcs
  <2>3. RoleOf(p, job'[p]) /\ job'[p].pc # "place" /\ p \notin Asks
    BY <1>11, <2>1, AskPlaced, RestTyped, AtStep DEF RoleOf, LanePcs
  <2>4. Roles' /\ used \subseteq used'
    BY <2>1, <2>2, <2>3 DEF TypeInv, Roles, NewAsk
  <2>5. p \in Placing /\ Placing' = Placing \ {p}
    BY <1>11, <2>0, <2>1, <2>3, AskPlaced, RestTyped DEF Placing
  <2> QED
    BY <2>1, <2>4, <2>5, RoomTaken
<1>12. ASSUME Restart PROVE JobsTyped' /\ Roles' /\ Room' /\ used \subseteq used'
  <2>1. ASSUME NEW p \in Procs
        PROVE  RoleOf(p, job'[p]) /\ (p \in Asks => p \in used' \/ job'[p] = Rest)
               /\ (job'[p].pc = "place" => job[p].pc = "place")
    <3>1. CASE job'[p] = job[p] \/ job'[p] = Rest
      BY <1>12, <3>1, Restarted, RestTyped, AtStep DEF TypeInv, Roles
    <3>2. CASE p \in Asks /\ p \in used /\ job'[p] = Job("ensure", "ask", p, saved.row)
      <4> DEFINE j == Job("ensure", "ask", p, saved.row)
      <4>0. j.pc = "ensure" /\ j.why = "ask" /\ j.ask = p /\ job'[p] = j
        BY <3>2, Zenon DEF Job
      <4> HIDE DEF j
      <4>1. job'[p].pc = "ensure" /\ job'[p].why = "ask" /\ job'[p].ask = p
        BY <4>0
      <4> QED
        BY <1>12, <3>2, <4>1, Restarted DEF RoleOf, LanePcs
    <3> QED
      BY <1>12, <3>1, <3>2, Restarted
  <2>2. Roles' /\ Placing' \subseteq Placing
    BY <2>1 DEF Roles, Placing
  <2> QED
    BY <1>12, <2>2, Restarted, RoomKept
<1> QED
  BY <1>1, <1>2, <1>4, <1>5, <1>6, <1>7, <1>8, <1>9, <1>10, <1>11, <1>12, Moves
     DEF BeginsVerb

----------------------------------------------------------------------------
(* The sessions.                                                           *)

LEMMA PaneFields ==
  /\ NoPane \in PaneRec /\ NoPane.id = 0 /\ NoPane.nonce = 0 /\ ~NoPane.up
  /\ \A n \in Ids \ {0} :
       /\ Opened(n) \in PaneRec /\ Opened(n).id = n /\ Opened(n).nonce = n /\ ~Opened(n).up
       /\ [NoPane EXCEPT !.id = n, !.up = TRUE] \in PaneRec
       /\ [NoPane EXCEPT !.id = n, !.up = TRUE].id = n
       /\ [NoPane EXCEPT !.id = n, !.up = TRUE].nonce = 0
<1>1. <<>> \in Seq(Asks) /\ 0 \in Ids
  BY NamesAreDistinct, EmptySeq DEF Ids
<1>2. NoPane \in PaneRec /\ NoPane.id = 0 /\ NoPane.nonce = 0 /\ ~NoPane.up
  BY <1>1, Zenon DEF NoPane, PaneRec
<1>3. ASSUME NEW n \in Ids
      PROVE  Opened(n) \in PaneRec /\ [NoPane EXCEPT !.id = n, !.up = TRUE] \in PaneRec
  BY <1>2, Zenon DEF Opened, PaneRec
<1>4. ASSUME NEW n \in Ids
      PROVE  /\ Opened(n).id = n /\ Opened(n).nonce = n /\ ~Opened(n).up
             /\ [NoPane EXCEPT !.id = n, !.up = TRUE].id = n
             /\ [NoPane EXCEPT !.id = n, !.up = TRUE].nonce = 0
  BY Zenon DEF NoPane, Opened
<1> QED
  BY <1>2, <1>3, <1>4, Zenon

\* The same session, whatever was typed into it or seen of it.
SameSession(q, r) == q \in PaneRec /\ q.id = r.id /\ q.nonce = r.nonce /\ (q.up => r.up)

LEMMA PaneChanges ==
  ASSUME NEW q \in PaneRec
  PROVE  /\ \A s \in Seq(Asks) : SameSession([q EXCEPT !.turns = s], q)
         /\ \A t \in SUBSET Asks : SameSession([q EXCEPT !.shown = t], q)
         /\ \A s \in Seq(Asks), t \in SUBSET Asks :
              SameSession([[q EXCEPT !.turns = s] EXCEPT !.shown = t], q)
         /\ /\ [q EXCEPT !.up = TRUE] \in PaneRec /\ [q EXCEPT !.up = TRUE].id = q.id
            /\ [q EXCEPT !.up = TRUE].nonce = q.nonce
<1>1. ASSUME NEW s \in Seq(Asks) PROVE SameSession([q EXCEPT !.turns = s], q)
  BY Zenon DEF PaneRec, SameSession
<1>2. ASSUME NEW t \in SUBSET Asks PROVE SameSession([q EXCEPT !.shown = t], q)
  BY Zenon DEF PaneRec, SameSession
<1>3. ASSUME NEW s \in Seq(Asks), NEW t \in SUBSET Asks
      PROVE  SameSession([[q EXCEPT !.turns = s] EXCEPT !.shown = t], q)
  BY Zenon DEF PaneRec, SameSession
<1>4. /\ [q EXCEPT !.up = TRUE] \in PaneRec /\ [q EXCEPT !.up = TRUE].id = q.id
      /\ [q EXCEPT !.up = TRUE].nonce = q.nonce
  BY Zenon DEF PaneRec
<1> QED
  BY <1>1, <1>2, <1>3, <1>4, Zenon

LEMMA PaneBecomes ==
  ASSUME pane \in [Backends -> PaneRec], NEW b \in Backends, NEW q \in PaneRec,
         pane' = [pane EXCEPT ![b] = q]
  PROVE  /\ pane' \in [Backends -> PaneRec] /\ pane'[b] = q
         /\ \A c \in Backends \ {b} : pane'[c] = pane[c]
OBVIOUS

PaneMoved(b) ==
  \/ SameSession(pane'[b], pane[b])
  \/ pane'[b] = NoPane
  \/ /\ b = "tmux" /\ ComesUp /\ pane'[b].id = pane[b].id /\ pane'[b].nonce = pane[b].nonce
  \/ /\ b = "tmux" /\ pane[b].id = 0 /\ pane'[b] = Opened(opened + 1) /\ \E p \in Procs : StartOpens(p)
  \/ /\ UserOpens(b) /\ pane'[b] = [NoPane EXCEPT !.id = opened + 1, !.up = TRUE]

LEMMA PaneStep ==
  ASSUME TypeInv, [Next]_vars
  PROVE  pane' \in [Backends -> PaneRec] /\ \A b \in Backends : PaneMoved(b)
<1>0. /\ pane \in [Backends -> PaneRec] /\ \A b \in Backends : pane[b] \in PaneRec
      /\ \A b \in Backends : pane[b].turns \in Seq(Asks) /\ pane[b].shown \in SUBSET Asks
  BY DEF TypeInv, PanesTyped, PaneRec
<1>1. \A b \in Backends : SameSession(pane[b], pane[b])
  BY <1>0 DEF SameSession
<1>2. ASSUME NEW b \in Backends, NEW q, q \in PaneRec, pane' = [pane EXCEPT ![b] = q],
             SameSession(q, pane[b]) \/ (pane'[b] = q => PaneMoved(b))
      PROVE  pane' \in [Backends -> PaneRec] /\ \A c \in Backends : PaneMoved(c)
  BY <1>0, <1>1, <1>2, PaneBecomes DEF PaneMoved
<1>3. CASE UNCHANGED pane
  BY <1>0, <1>1, <1>3 DEF PaneMoved
<1>4. CASE ComesUp
  <2> DEFINE q == [pane["tmux"] EXCEPT !.up = TRUE]
  <2>1. q \in PaneRec /\ q.id = pane["tmux"].id /\ q.nonce = pane["tmux"].nonce
    BY <1>0, PaneChanges DEF Backends
  <2>2. pane' = [pane EXCEPT !["tmux"] = q] /\ "tmux" \in Backends
    BY <1>4, Zenon DEF ComesUp, Backends
  <2> HIDE DEF q
  <2>3. pane'["tmux"] = q => PaneMoved("tmux")
    BY <1>4, <2>1 DEF PaneMoved
  <2> QED
    BY <1>2, <2>1, <2>2, <2>3
<1>5. ASSUME NEW p \in Procs, StartOpens(p)
      PROVE  pane' \in [Backends -> PaneRec] /\ \A b \in Backends : PaneMoved(b)
  <2>1. /\ pane' = [pane EXCEPT !["tmux"] = Opened(opened + 1)] /\ pane["tmux"].id = 0
        /\ opened < MaxSessions
    BY <1>5 DEF StartOpens
  <2>2. opened + 1 \in Ids \ {0} /\ "tmux" \in Backends
    BY <2>1, NamesAreDistinct DEF TypeInv, CountsTyped, Ids, Backends
  <2>3. Opened(opened + 1) \in PaneRec
    BY <2>2, PaneFields
  <2>4. pane'["tmux"] = Opened(opened + 1) => PaneMoved("tmux")
    BY <1>5, <2>1 DEF PaneMoved
  <2> QED
    BY <1>2, <2>1, <2>2, <2>3, <2>4
<1>6. ASSUME NEW b \in Backends, pane' = [pane EXCEPT ![b] = NoPane]
      PROVE  pane' \in [Backends -> PaneRec] /\ \A c \in Backends : PaneMoved(c)
  BY <1>2, <1>6, PaneFields DEF PaneMoved
<1>7. ASSUME NEW p \in Procs, NotVerified(p) \/ Stops(p)
      PROVE  UNCHANGED pane \/ pane' = [pane EXCEPT !["tmux"] = NoPane]
  BY <1>7 DEF NotVerified, Stops
<1>8. ASSUME NEW p \in Procs, TypesAsk(p) \/ TypesPing(p)
      PROVE  pane' \in [Backends -> PaneRec] /\ \A b \in Backends : PaneMoved(b)
  <2>1. At(p, "act") /\ job[p].why \in {"ask", "ping"}
        /\ (UNCHANGED pane
             \/ \E b \in Backends : pane' = [pane EXCEPT ![b].turns = Append(@, job[p].ask)])
    BY <1>8, Zenon DEF TypesAsk, TypesPing, Types, SubmitTmux, SubmitIterm, Backends
  <2>2. job[p].ask \in Asks
    BY <2>1, AtStep DEF At, RoleOf, LanePcs
  <2>3. ASSUME NEW b \in Backends, pane' = [pane EXCEPT ![b].turns = Append(@, job[p].ask)]
        PROVE  pane' \in [Backends -> PaneRec] /\ \A c \in Backends : PaneMoved(c)
    <3> DEFINE s == Append(pane[b].turns, job[p].ask)
               q == [pane[b] EXCEPT !.turns = s]
    <3>1. s \in Seq(Asks)
      BY <1>0, <2>2
    <3>2. pane' = [pane EXCEPT ![b] = q]
      BY <2>3, Zenon
    <3>3. SameSession(q, pane[b])
      BY <1>0, <3>1, PaneChanges
    <3> HIDE DEF q
    <3> QED
      BY <1>2, <3>2, <3>3 DEF SameSession
  <2> QED
    BY <1>3, <2>1, <2>3
<1>9. ASSUME NEW p \in Procs, Observes(p)
      PROVE  pane' \in [Backends -> PaneRec] /\ \A b \in Backends : PaneMoved(b)
  <2>1. pane' = [b \in Backends |-> [pane[b] EXCEPT !.shown = pane[b].shown \ {job[p].ask}]]
    BY <1>9, Zenon DEF Observes
  <2>2. ASSUME NEW b \in Backends PROVE pane'[b] \in PaneRec /\ SameSession(pane'[b], pane[b])
    <3>1. pane[b].shown \ {job[p].ask} \in SUBSET Asks
      BY <1>0
    <3>2. SameSession([pane[b] EXCEPT !.shown = pane[b].shown \ {job[p].ask}], pane[b])
      BY <1>0, <3>1, PaneChanges, Zenon
    <3>3. pane'[b] = [pane[b] EXCEPT !.shown = pane[b].shown \ {job[p].ask}]
      BY <2>1, Zenon
    <3> QED
      BY <3>2, <3>3, Zenon DEF SameSession
  <2>3. \E f : pane' = [b \in Backends |-> f[b]] /\ \A b \in Backends : f[b] \in PaneRec
    <3>1. pane' = [b \in Backends |-> pane'[b]]
      BY <2>1, Zenon
    <3> QED
      BY <2>2, <3>1, Zenon
  <2> QED
    BY <2>2, <2>3 DEF PaneMoved
<1>10. ASSUME NEW p \in Procs, SendsInterrupt(p)
       PROVE  pane' \in [Backends -> PaneRec] /\ \A b \in Backends : PaneMoved(b)
  <2> DEFINE b == job[p].held.at
             q == [pane[b] EXCEPT !.turns = <<>>]
  <2>1. UNCHANGED pane \/ pane' = [pane EXCEPT ![b] = q]
    BY <1>10, Zenon DEF SendsInterrupt, Interrupted
  <2>2. b \in Backends /\ <<>> \in Seq(Asks)
    BY AtStep, LockFields, EmptySeq
  <2>3. SameSession(q, pane[b])
    BY <1>0, <2>2, PaneChanges
  <2> HIDE DEF b, q
  <2> QED
    BY <1>2, <1>3, <2>1, <2>2, <2>3 DEF SameSession
<1>11. ASSUME NEW p \in Procs, SendsClear(p)
       PROVE  pane' \in [Backends -> PaneRec] /\ \A b \in Backends : PaneMoved(b)
  <2> DEFINE b == job[p].held.at
             q == [pane[b] EXCEPT !.shown = {}]
  <2>1. UNCHANGED pane \/ pane' = [pane EXCEPT ![b] = q]
    BY <1>11, Zenon DEF SendsClear
  <2>2. b \in Backends /\ {} \in SUBSET Asks
    BY AtStep, LockFields
  <2>3. SameSession(q, pane[b])
    BY <1>0, <2>2, PaneChanges
  <2> HIDE DEF b, q
  <2> QED
    BY <1>2, <1>3, <2>1, <2>2, <2>3 DEF SameSession
<1>12. ASSUME NEW b \in Backends, TurnEnds(b)
       PROVE  pane' \in [Backends -> PaneRec] /\ \A c \in Backends : PaneMoved(c)
  <2> DEFINE s == Tail(pane[b].turns)
             a == Head(pane[b].turns)
  <2>1. pane[b].turns # <<>>
    BY <1>12 DEF TurnEnds
  <2>2. s \in Seq(Asks) /\ a \in Asks
    BY <1>0, <2>1, HeadTailProperties
  <2>3. PICK t \in {pane[b].shown, pane[b].shown \cup {a}} :
          pane' = [pane EXCEPT ![b].turns = s, ![b].shown = t]
    BY <1>12, Zenon DEF TurnEnds
  <2>4. t \in SUBSET Asks
    BY <1>0, <2>2
  <2> DEFINE q == [[pane[b] EXCEPT !.turns = s] EXCEPT !.shown = t]
  <2>5. SameSession(q, pane[b])
    BY <1>0, <2>2, <2>4, PaneChanges
  <2>6. pane' = [pane EXCEPT ![b] = q]
    BY <1>0, <2>3
  <2> HIDE DEF q
  <2> QED
    BY <1>2, <2>5, <2>6 DEF SameSession
<1>13. ASSUME NEW b \in Backends, UserOpens(b)
       PROVE  pane' \in [Backends -> PaneRec] /\ \A c \in Backends : PaneMoved(c)
  <2>1. /\ pane' = [pane EXCEPT ![b] = [NoPane EXCEPT !.id = opened + 1, !.up = TRUE]]
        /\ opened < MaxSessions
    BY <1>13, Zenon DEF UserOpens
  <2>2. opened + 1 \in Ids \ {0}
    BY <2>1, NamesAreDistinct DEF TypeInv, CountsTyped, Ids
  <2> DEFINE q == [NoPane EXCEPT !.id = opened + 1, !.up = TRUE]
  <2>3. q \in PaneRec
    BY <2>2, PaneFields, Zenon
  <2>4. pane' = [pane EXCEPT ![b] = q] /\ (pane'[b] = q => PaneMoved(b))
    BY <1>13, <2>1, Zenon DEF PaneMoved
  <2> HIDE DEF q
  <2> QED
    BY <1>2, <2>3, <2>4
<1>14. ASSUME NEW b \in Backends, SessionEnds(b) PROVE pane' = [pane EXCEPT ![b] = NoPane]
  BY <1>14, Zenon DEF SessionEnds
<1>15. "tmux" \in Backends
  BY DEF Backends
<1> QED
  BY <1>3, <1>4, <1>5, <1>6, <1>7, <1>8, <1>9, <1>10, <1>11, <1>12, <1>13, <1>14, <1>15, PaneMoves

LEMMA PanesStep ==
  ASSUME TypeInv, [Next]_vars
  PROVE  PanesTyped'
<1>1. ASSUME NEW b \in Backends
      PROVE  pane'[b].nonce \in {0, pane'[b].id} /\ (pane'[b].up => pane'[b].id # 0)
  <2>1. pane[b].nonce \in {0, pane[b].id} /\ (pane[b].up => pane[b].id # 0)
    BY DEF TypeInv, PanesTyped
  <2>2. opened \in Nat
    BY AtStep DEF TypeInv, CountsTyped
  <2>3. CASE SameSession(pane'[b], pane[b])
    BY <2>1, <2>3 DEF SameSession
  <2>4. CASE pane'[b] = NoPane
    BY <2>4, PaneFields
  <2>5. CASE ComesUp /\ b = "tmux" /\ pane'[b].id = pane[b].id /\ pane'[b].nonce = pane[b].nonce
    BY <2>1, <2>5 DEF ComesUp
  <2>6. ASSUME opened < MaxSessions PROVE opened + 1 \in Ids \ {0}
    BY <2>2, <2>6, NamesAreDistinct DEF Ids
  <2>7. CASE pane'[b] = Opened(opened + 1) /\ \E p \in Procs : StartOpens(p)
    <3>1. opened + 1 \in Ids \ {0}
      BY <2>6, <2>7 DEF StartOpens
    <3>2. pane'[b].id = opened + 1 /\ pane'[b].nonce = opened + 1
      BY <2>7, <3>1, PaneFields, Zenon
    <3> QED
      BY <3>1, <3>2
  <2>8. CASE pane'[b] = [NoPane EXCEPT !.id = opened + 1, !.up = TRUE] /\ UserOpens(b)
    <3>1. opened + 1 \in Ids \ {0}
      BY <2>6, <2>8 DEF UserOpens
    <3>2. pane'[b].id = opened + 1 /\ pane'[b].nonce = 0
      BY <2>8, <3>1, PaneFields, Zenon
    <3> QED
      BY <3>1, <3>2
  <2> QED
    BY <2>3, <2>4, <2>5, <2>7, <2>8, PaneStep DEF PaneMoved
<1> QED
  BY <1>1, PaneStep DEF PanesTyped

----------------------------------------------------------------------------
(* The lock, the tasks and the rows.                                       *)

LEMMA LaneTypedStep ==
  ASSUME TypeInv, [Next]_vars
  PROVE  LaneTyped'
<1> USE AtStep, LockFields, NoLockTyped
<1>1. lock' \in Locks
  <2>1. ASSUME NEW p \in Procs, Refresh(p) \/ Claim(p) \/ StartKeeps(p) \/ Verified(p) \/ Stops(p)
        PROVE  lock' \in Locks
    <3>1. CASE Refresh(p)
      BY <3>1 DEF Refresh
    <3>2. CASE Claim(p)
      <4>1. lock' = lock \/ lock' = [at |-> SelectedBackend, pane |-> pane[SelectedBackend].id, nonce |-> 0]
        BY <3>2, Zenon DEF Claim
      <4> QED
        BY <4>1 DEF SelectedBackend, TypeInv, LaneTyped, Locks, Ids, Backends, NoLock
    <3>3. CASE StartKeeps(p)
      BY <3>3 DEF StartKeeps
    <3>4. CASE Verified(p)
      BY <3>4 DEF Verified
    <3>5. CASE Stops(p)
      BY <3>5 DEF Stops
    <3> QED
      BY <2>1, <3>1, <3>2, <3>3, <3>4, <3>5
  <2>2. ASSUME NEW p \in {"chat", "ctl"}, CommandUse(p) \/ CommandUnlock(p) PROVE lock' \in Locks
    BY <2>2 DEF CommandUse, CommandUnlock
  <2> QED
    BY <2>1, <2>2, LockMoves DEF TypeInv, LaneTyped
<1>2. backend' \in Backends
  BY BackendMoves DEF CommandUse, TypeInv, LaneTyped
<1>3. chatMode' \in BOOLEAN
  <2>1. chatMode' = chatMode \/ chatMode' = TRUE \/ chatMode' = FALSE
    BY ModeMoves, Zenon DEF CommandDisconnect, Connects
  <2> QED
    BY <2>1, Zenon DEF TypeInv, LaneTyped
<1>4. fallbackOn' \in BOOLEAN
  <2>1. fallbackOn' = fallbackOn \/ fallbackOn' = TRUE \/ fallbackOn' = FALSE
    BY SwitchMoves, Zenon DEF FallbackSwitched
  <2> QED
    BY <2>1, Zenon DEF TypeInv, LaneTyped
<1>5. external' \in BOOLEAN
  <2>1. external' = external \/ external' = TRUE \/ external' = FALSE
    BY MarkMoves, Zenon DEF ControlAsk, MarkLapses, TimesOut, SendsInterrupt, Answers
  <2> QED
    BY <2>1, Zenon DEF TypeInv, LaneTyped
<1> QED
  BY <1>1, <1>2, <1>3, <1>4, <1>5 DEF LaneTyped

\* Where the record of the active task comes from.
LEMMA TaskStep ==
  ASSUME TypeInv, [Next]_vars
  PROVE  /\ TasksTyped'
         /\ \A k \in {saved', active'} :
              k.row \in {0, saved.row, active.row} \/ \E p \in Procs : k.row = job[p].row
<1>1. \A k \in {saved, active} : k \in Tasks \cup {NoTask} /\ (k # NoTask => k.id \in used)
  BY DEF TypeInv, TasksTyped
<1>2. NoTask.row = 0
  BY DEF NoTask
<1>3. used \subseteq used'
  BY JobsStep
<1>4. CASE /\ saved' \in {saved, active, NoTask}
           /\ active' \in {saved, active, NoTask}
  BY <1>1, <1>2, <1>3, <1>4 DEF TasksTyped
<1>5. CASE Restart
  <2>1. /\ saved' \in {saved, NoTask}
        /\ active' \in {saved, NoTask}
    BY <1>5, Zenon DEF Restart, GivesUpSubmitted
  <2> QED
    BY <1>4, <2>1
<1>6. ASSUME NEW p \in Procs, Submitted(p), active' # active
      PROVE  /\ active.id \in Asks /\ active' = [active EXCEPT !.sent = TRUE] /\ saved' = active'
  <2>1. active.id = p /\ active' = [active EXCEPT !.sent = TRUE] /\ saved' = active' /\ At(p, "typed")
    BY <1>6, Zenon DEF Submitted
  <2> QED
    BY <2>1, AtStep DEF RoleOf, At
<1>7. ASSUME NEW p \in Procs, Submitted(p), active' # active
      PROVE  /\ active' \in Tasks /\ active'.id = active.id /\ active'.row = active.row
             /\ saved' = active'
  <2>1. active \in Tasks
    BY <1>1, <1>6, <1>7, NamesAreDistinct DEF NoTask
  <2>2. [active EXCEPT !.sent = TRUE] \in Tasks
    BY <2>1, Zenon DEF Tasks
  <2>3. [active EXCEPT !.sent = TRUE].id = active.id /\ [active EXCEPT !.sent = TRUE].row = active.row
    BY <2>1 DEF Tasks
  <2> QED
    BY <1>6, <1>7, <2>2, <2>3
<1>8. ASSUME NEW p \in Procs, Submitted(p) PROVE active' = active => saved' \in {saved, active}
  BY <1>8, Zenon DEF Submitted
<1>9. ASSUME NEW p \in Procs, Settles(p) \/ SendsInterrupt(p)
      PROVE  saved' \in {saved, NoTask} /\ active' \in {active, NoTask}
  BY <1>9, Zenon DEF Settles, SendsInterrupt, ClearActive
<1>10. ASSUME NEW p \in Procs, PlacesAsk(p)
       PROVE  /\ TasksTyped'
              /\ saved' = active' /\ active'.row = job[p].row
  <2>1. active' = [id |-> NextAsk, row |-> job[p].row, sent |-> FALSE] /\ saved' = active'
    BY <1>10 DEF PlacesAsk
  <2>2. NextAsk \in used' /\ NextAsk \in Asks /\ job[p].row \in Rows \cup {0}
    BY <1>10, AskPlaced, AtStep DEF NewAsk
  <2>3. active' \in Tasks
    BY <2>1, <2>2, Zenon DEF Tasks
  <2>4. active'.id = NextAsk /\ active'.row = job[p].row
    BY <2>1
  <2> QED
    BY <2>1, <2>2, <2>3, <2>4 DEF TasksTyped
<1>11. ASSUME NEW p \in Procs, Submitted(p), active' # active
       PROVE  TasksTyped' /\ saved' = active' /\ active'.row = active.row
  <2>1. active # NoTask
    BY <1>6, <1>11, NamesAreDistinct DEF NoTask
  <2> QED
    BY <1>1, <1>3, <1>7, <1>11, <2>1 DEF TasksTyped
<1> QED
  BY <1>4, <1>5, <1>8, <1>9, <1>10, <1>11, TaskMoves

LEMMA CountsStep ==
  ASSUME TypeInv, [Next]_vars
  PROVE  CountsTyped'
<1>1. told' \subseteq Rows
  BY ToldMoves DEF Restart, GivesUpSubmitted, TypeInv, CountsTyped
<1>2. used' \subseteq Asks
  <2>1. used' = used \/ (NewAsk /\ NextAsk \in Asks)
    <3>1. ASSUME NEW p \in Procs, BeginsPrompt(p) PROVE NewAsk /\ NextAsk \in Asks
      BY <3>1, NextAskIsNew DEF BeginsPrompt
    <3>2. ASSUME PlacesPing PROVE NewAsk /\ NextAsk \in Asks
      BY <3>2, PingPlaced
    <3>3. ASSUME NEW p \in Procs, PlacesAsk(p) PROVE NewAsk /\ NextAsk \in Asks
      BY <3>3, AskPlaced
    <3> QED
      BY <3>1, <3>2, <3>3, Moves, Restarted DEF BeginsVerb, BeginsPlacing, BeginsFallback, Hangs,
         WorkerRests
  <2> QED
    BY <2>1 DEF TypeInv, CountsTyped, NewAsk
<1>3. opened' \in 0..MaxSessions
  <2>1. opened' = opened \/ (opened < MaxSessions /\ opened' = opened + 1)
    BY OpenedMoves DEF StartOpens, UserOpens
  <2> QED
    BY <2>1, NamesAreDistinct DEF TypeInv, CountsTyped
<1> QED
  BY <1>1, <1>2, <1>3 DEF CountsTyped

\* What gives a row another status.
RowMoved(t) ==
  \/ row'[t] = row[t]
  \/ row[t] \in {None, "pending"} /\ row'[t] \in {"pending", "failed", "completed"}
  \/ FallbackTakes(t) /\ row[t] = "pending" /\ row'[t] = "processing"
  \/ row'[t] = "processing" /\ PlacesPing /\ t = job["worker"].row
  \/ row'[t] = "processing" /\ \E p \in Procs : PlacesAsk(p) /\ t = job[p].row
  \/ row'[t] # "processing" /\ t = active.row
  \/ row'[t] # "processing" /\ \E p \in Procs : t = job[p].row
  \/ Restart /\ row'[t] = "pending" /\ row[t] = "processing"
  \/ Restart /\ row'[t] = "failed" /\ t = saved.row

LEMMA RowStep ==
  ASSUME TypeInv, [Next]_vars
  PROVE  RowsTyped' /\ \A t \in Rows : RowMoved(t)
<1>0. row \in [Rows -> Status]
  BY DEF TypeInv, RowsTyped
<1>1. ASSUME NEW t, NEW st \in Status, row' = [row EXCEPT ![t] = st]
      PROVE  /\ RowsTyped' /\ \A s \in Rows \ {t} : row'[s] = row[s]
             /\ t \in Rows => row'[t] = st
  BY <1>0, <1>1 DEF RowsTyped
<1>2. CASE UNCHANGED row
  BY <1>0, <1>2 DEF RowsTyped, RowMoved
<1>3. ASSUME NEW t \in Rows, TaskArrives(t) PROVE RowsTyped' /\ \A s \in Rows : RowMoved(s)
  BY <1>1, <1>3 DEF TaskArrives, RowMoved, Status
<1>4. ASSUME NEW t \in Rows, TerminalRefuses(t) \/ PrimaryTakes(t)
      PROVE  RowsTyped' /\ \A s \in Rows : RowMoved(s)
  BY <1>1, <1>4 DEF TerminalRefuses, PrimaryTakes, Marks, Pending, RowMoved, Status
<1>5. ASSUME NEW t \in Rows, FallbackTakes(t) PROVE RowsTyped' /\ \A s \in Rows : RowMoved(s)
  <2>1. row' = [row EXCEPT ![t] = "processing"] /\ row[t] = "pending"
    BY <1>5 DEF FallbackTakes, Marks, Pending
  <2> QED
    BY <1>1, <1>5, <2>1 DEF RowMoved, Status
<1>6. ASSUME FallbackEnds \/ PingEnds PROVE RowsTyped' /\ \A s \in Rows : RowMoved(s)
  <2>1. PICK st \in {"completed", "failed"} : row' = [row EXCEPT ![job["worker"].row] = st]
    BY <1>6, Zenon DEF FallbackEnds, PingEnds, Marks
  <2>2. RowsTyped' /\ \A s \in Rows : row'[s] = row[s] \/ (s = job["worker"].row /\ row'[s] = st)
    BY <1>1, <2>1 DEF Status
  <2>3. "worker" \in Procs
    BY DEF Procs
  <2> QED
    BY <2>2, <2>3 DEF RowMoved
<1>7. ASSUME PlacesPing PROVE RowsTyped' /\ \A s \in Rows : RowMoved(s)
  <2>1. row' = [row EXCEPT ![job["worker"].row] = "processing"]
    BY <1>7 DEF PlacesPing, Marks
  <2> QED
    BY <1>1, <1>7, <2>1 DEF RowMoved, Status
<1>8. ASSUME NEW p \in Procs, PlacesAsk(p) PROVE RowsTyped' /\ \A s \in Rows : RowMoved(s)
  <2>1. row' = row \/ row' = [row EXCEPT ![job[p].row] = "processing"]
    BY <1>8, Zenon DEF PlacesAsk
  <2>2. RowsTyped' /\ \A s \in Rows : row'[s] = row[s] \/ (s = job[p].row /\ row'[s] = "processing")
    BY <1>0, <1>1, <2>1 DEF Status, RowsTyped
  <2> QED
    BY <1>8, <2>2 DEF RowMoved
<1>9. ASSUME NEW p \in Procs, Settles(p) PROVE RowsTyped' /\ \A s \in Rows : RowMoved(s)
  <2>1. PICK r \in {"completed", "failed"} : row' = row \/ row' = [row EXCEPT ![job[p].row] = r]
    BY <1>9, Zenon DEF Settles
  <2>2. RowsTyped' /\ \A s \in Rows : row'[s] = row[s] \/ (s = job[p].row /\ row'[s] = r)
    BY <1>0, <1>1, <2>1 DEF Status, RowsTyped
  <2> QED
    BY <2>2 DEF RowMoved
<1>10. ASSUME NEW p \in Procs, SendsInterrupt(p) PROVE RowsTyped' /\ \A s \in Rows : RowMoved(s)
  <2>1. row' = row \/ row' = [row EXCEPT ![active.row] = "cancelled"]
    BY <1>10, Zenon DEF SendsInterrupt, ClearActive
  <2>2. RowsTyped' /\ \A s \in Rows : row'[s] = row[s] \/ (s = active.row /\ row'[s] = "cancelled")
    BY <1>0, <1>1, <2>1 DEF Status, RowsTyped
  <2> QED
    BY <2>2 DEF RowMoved
<1>11. ASSUME Restart PROVE RowsTyped' /\ \A s \in Rows : RowMoved(s)
  <2>1. /\ Requeued \in [Rows -> Status]
        /\ \A s \in Rows : Requeued[s] = row[s] \/ (Requeued[s] = "pending" /\ row[s] = "processing")
    BY <1>0 DEF Requeued, Status
  <2>2. row' = Requeued \/ row' = [Requeued EXCEPT ![saved.row] = "failed"]
    BY <1>11, Zenon DEF Restart, GivesUpSubmitted
  <2> HIDE DEF Requeued
  <2>3. RowsTyped' /\ \A s \in Rows : row'[s] = Requeued[s] \/ (s = saved.row /\ row'[s] = "failed")
    BY <2>1, <2>2 DEF RowsTyped, Status
  <2> QED
    BY <1>11, <2>1, <2>3 DEF RowMoved
<1> QED
  BY <1>2, <1>3, <1>4, <1>5, <1>6, <1>7, <1>8, <1>9, <1>10, <1>11, RowMoves

----------------------------------------------------------------------------
(* Types.                                                                  *)

LEMMA TypeInit ==
  ASSUME Init
  PROVE  TypeInv
<1>1. RowsTyped /\ JobsTyped
  BY RestTyped DEF Init, RowsTyped, JobsTyped, Status
<1>2. PanesTyped
  BY PaneFields DEF Init, PanesTyped
<1>3. LaneTyped
  BY NoLockTyped DEF Init, LaneTyped, Backends
<1>4. TasksTyped /\ CountsTyped
  BY NamesAreDistinct DEF Init, TasksTyped, CountsTyped
<1>5. Roles
  BY RestTyped, NamesAreDistinct DEF Init, Roles
<1>6. Room
  <2>1. Placing = {}
    BY RestTyped DEF Init, Placing, At
  <2>2. Cardinality(Placing) = 0 /\ Cardinality(used) = 0 /\ Cardinality(Asks) \in Nat
    BY <2>1, NamesAreDistinct, FS_EmptySet, FS_CardinalityType DEF Init
  <2> QED
    BY <2>2 DEF Room
<1> QED
  BY <1>1, <1>2, <1>3, <1>4, <1>5, <1>6 DEF TypeInv

LEMMA TypeStep ==
  ASSUME TypeInv, [Next]_vars
  PROVE  TypeInv'
BY JobsStep, PanesStep, LaneTypedStep, TaskStep, CountsStep, RowStep DEF TypeInv

LEMMA TypeInvIsTypeOK == TypeInv => TypeOK
<1> SUFFICES ASSUME TypeInv PROVE TypeOK
  OBVIOUS
<1>1. row \in [Rows -> {None, "pending", "processing", "completed", "failed", "cancelled"}]
  BY DEF TypeInv, RowsTyped, Status
<1>2. /\ lock \in Locks /\ backend \in Backends /\ {saved, active} \subseteq Tasks \cup {NoTask}
      /\ {chatMode, fallbackOn, external} \subseteq BOOLEAN
  BY Zenon DEF TypeInv, LaneTyped, TasksTyped
<1>3. ASSUME NEW p \in Procs
      PROVE  /\ job[p].pc \in Pcs /\ job[p].why \in Verbs \cup {None}
             /\ job[p].held \in Locks /\ job[p].row \in Rows \cup {0}
             /\ job[p].ask \in Asks \cup {None} /\ job[p].ok \in BOOLEAN
  <2>1. job[p] \in JobRec
    BY AtStep
  <2> QED
    BY <2>1, Zenon DEF JobRec
<1>4. ASSUME NEW b \in Backends
      PROVE  /\ pane[b].id \in Ids /\ pane[b].nonce \in {0, pane[b].id}
             /\ pane[b].turns \in Seq(Asks) /\ pane[b].shown \subseteq Asks
  BY DEF TypeInv, PanesTyped, PaneRec
<1>5. told \subseteq Rows /\ used \subseteq Asks
  BY DEF TypeInv, CountsTyped
<1> QED
  BY <1>1, <1>2, <1>3, <1>4, <1>5 DEF TypeOK

LEMMA TypeInvariant == Spec => []TypeInv
BY TypeInit, TypeStep, PTL DEF Spec

\* Every variable keeps the values the durable state and the sessions can
\* have, whatever runs, commands, crashes and sessions of the user's interleave.
THEOREM LanesAreTyped == Spec => []TypeOK
BY TypeInvariant, TypeInvIsTypeOK, PTL

----------------------------------------------------------------------------
(* A message in work is somebody's work.  The work is that of a run, or of *)
(* the worker while it waits for the answer itself: not of a worker that   *)
(* has given the message to a run.                                         *)

Worked(t) ==
  \/ \E a \in Asks : job[a].row = t
  \/ job["worker"].row = t /\ job["worker"].pc \in LanePcs \cup {"fallback", "hung"}
WorkIsHeld == \A t \in Rows : row[t] = "processing" => Worked(t)

LEMMA WorkStays ==
  ASSUME TypeInv, [Next]_vars, NEW t \in Rows, Worked(t), row'[t] = "processing",
         row[t] = "processing"
  PROVE  Worked(t)'
<1> USE NamesAreDistinct, RestTyped DEF Worked
<1>1. CASE UNCHANGED job
  BY <1>1
<1>2. ASSUME NEW p \in Procs, Shape(p) PROVE Worked(t)'
  <2>1. CASE GoesOn(p) \/ LocksOn(p)
    <3>1. PICK pc \in LanePcs, l \in Locks : JobAt(p, pc, l)
      BY <2>1, AtStep DEF GoesOn, LocksOn
    <3> QED
      BY <3>1 DEF JobAt
  <2>2. CASE Rests(p) /\ p \in {"chat", "ctl"}
    BY <2>2 DEF Rests, JobRests
  <2>3. CASE p \in Asks /\ Settles(p)
    <3>1. job[p].row # t
      <4>1. PICK r \in {"completed", "failed"} :
              row' = IF job[p].row \in Rows THEN [row EXCEPT ![job[p].row] = r] ELSE row
        BY <2>3, Zenon DEF Settles
      <4> QED
        BY <4>1 DEF TypeInv, RowsTyped
    <3>2. \A q \in Procs \ {p} : job'[q] = job[q]
      BY <1>2, ShapeRole
    <3> QED
      BY <3>1, <3>2
  <2> QED
    BY <1>2, <2>1, <2>2, <2>3 DEF Shape, Rests
<1>3. ASSUME NEW p \in Procs, NEW j, Becomes(p, j), Idle(p) PROVE Worked(t)'
  <2>1. job[p] = Rest
    BY <1>3, AtStep DEF Idle, At, RoleOf
  <2>2. \A q \in Procs \ {p} : job'[q] = job[q]
    BY <1>3, JobChanges DEF Becomes, TypeInv
  <2> QED
    BY <2>1, <2>2
<1>4. CASE Hangs
  <2>1. job'["worker"].pc = "hung" /\ job'["worker"].row = job["worker"].row
        /\ \A q \in Procs \ {"worker"} : job'[q] = job[q]
    BY <1>4 DEF Hangs, TypeInv, JobsTyped, JobRec
  <2> QED
    BY <2>1
<1>5. CASE WorkerRests
  <2>1. \A q \in Procs \ {"worker"} : job'[q] = job[q]
    BY <1>5, JobChanges DEF WorkerRests, Becomes, TypeInv
  <2>2. CASE FallbackEnds \/ PingEnds
    <3>1. PICK st \in {"completed", "failed"} : row' = [row EXCEPT ![job["worker"].row] = st]
      BY <2>2, Zenon DEF FallbackEnds, PingEnds, Marks
    <3> QED
      BY <2>1, <3>1 DEF TypeInv, RowsTyped
  <2>3. CASE RunEnds
    BY <2>1, <2>3 DEF RunEnds, At, LanePcs
  <2> QED
    BY <1>5, <2>2, <2>3 DEF WorkerRests
<1>6. CASE PlacesPing
  BY <1>6, PingPlaced DEF At, LanePcs
<1>7. ASSUME NEW p \in Procs, PlacesAsk(p) PROVE Worked(t)'
  <2>1. /\ p \in {"chat", "worker"} /\ job[p].pc = "place" /\ job[NextAsk] = Rest
        /\ \A q \in Procs \ {p, NextAsk} : job'[q] = job[q]
    BY <1>7, AskPlaced DEF At
  <2>2. CASE \E a \in Asks : job[a].row = t
    <3>1. PICK a \in Asks : job[a].row = t
      BY <2>2
    <3>2. a # p /\ a # NextAsk
      BY <2>1, <3>1
    <3>3. job'[a] = job[a]
      BY <2>1, <3>2
    <3> QED
      BY <3>1, <3>3
  <2>3. CASE job["worker"].row = t /\ job["worker"].pc \in LanePcs \cup {"fallback", "hung"}
    <3>1. p # "worker" /\ NextAsk # "worker"
      BY <2>1, <2>3 DEF LanePcs
    <3> QED
      BY <2>1, <2>3, <3>1
  <2> QED
    BY <2>2, <2>3
<1>8. CASE Restart
  <2>1. Requeued[t] = "pending"
    BY DEF Requeued
  <2>2. row' = Requeued \/ row' = [Requeued EXCEPT ![saved.row] = "failed"]
    BY <1>8, Zenon DEF Restart, GivesUpSubmitted
  <2> QED
    BY <2>1, <2>2 DEF Requeued
<1> QED
  BY <1>1, <1>2, <1>3, <1>4, <1>5, <1>6, <1>7, <1>8, Moves
     DEF BeginsVerb, BeginsPrompt, BeginsPlacing, BeginsFallback

LEMMA WorkStep ==
  ASSUME TypeInv, WorkIsHeld, [Next]_vars
  PROVE  WorkIsHeld'
<1> SUFFICES ASSUME NEW t \in Rows, row'[t] = "processing" PROVE Worked(t)'
  BY DEF WorkIsHeld
<1> USE NamesAreDistinct DEF Worked
<1>1. CASE row'[t] = row[t]
  BY <1>1, WorkStays DEF WorkIsHeld
<1>2. CASE FallbackTakes(t)
  <2>1. job' = [job EXCEPT !["worker"] = [Rest EXCEPT !.pc = "fallback", !.why = None, !.row = t]]
    BY <1>2 DEF FallbackTakes, Takes
  <2>2. /\ [Rest EXCEPT !.pc = "fallback", !.why = None, !.row = t].pc = "fallback"
        /\ [Rest EXCEPT !.pc = "fallback", !.why = None, !.row = t].row = t
    BY Zenon DEF Rest
  <2>3. job'["worker"] = [Rest EXCEPT !.pc = "fallback", !.why = None, !.row = t]
    BY <2>1 DEF TypeInv, JobsTyped
  <2>4. job'["worker"].pc = "fallback" /\ job'["worker"].row = t
    BY <2>2, <2>3, Zenon
  <2> QED
    BY <2>4
<1>3. CASE PlacesPing /\ t = job["worker"].row
  BY <1>3, PingPlaced DEF LanePcs
<1>4. ASSUME NEW p \in Procs, PlacesAsk(p), t = job[p].row PROVE Worked(t)'
  <2>1. NextAsk \in Asks /\ job'[NextAsk] = Job("ensure", "ask", NextAsk, t)
    BY <1>4, AskPlaced
  <2>2. Job("ensure", "ask", NextAsk, t).row = t
    BY Zenon DEF Job
  <2> QED
    BY <2>1, <2>2
<1> QED
  BY <1>1, <1>2, <1>3, <1>4, RowStep DEF RowMoved

LEMMA WorkInit == Init => WorkIsHeld
BY DEF Init, WorkIsHeld, None

\* Between crashes and while commands interleave with runs, no message is left
\* in work that no process answers for.
THEOREM WorkIsAnsweredFor == Spec => []ProcessingIsWork
<1>1. TypeInv /\ WorkIsHeld => ProcessingIsWork
  BY NamesAreDistinct DEF WorkIsHeld, Worked, ProcessingIsWork
<1>2. TypeInv /\ WorkIsHeld /\ [Next]_vars => WorkIsHeld'
  BY WorkStep
<1> QED
  BY <1>1, <1>2, WorkInit, TypeInvariant, PTL DEF Spec

----------------------------------------------------------------------------
(* A prompt that was given up in a crash is final: no job, no record of an *)
(* active task, and no process that is still to begin has its row.         *)

Final(t) ==
  /\ row[t] = "failed" /\ active.row # t /\ saved.row # t
  /\ \A p \in Procs : job[p].row # t
ToldKept == \A t \in told : t \in Rows /\ Final(t)

\* Whose row a job takes over.
LEMMA JobRowStep ==
  ASSUME TypeInv, [Next]_vars, NEW p \in Procs
  PROVE  \/ job'[p].row \in {0, job[p].row, saved.row}
         \/ \E q \in Procs : job'[p].row = job[q].row
         \/ job'[p].row \in Rows /\ row[job'[p].row] = "pending"
<1> USE NamesAreDistinct, RestTyped
<1>0. \A pc, why, a, t : Job(pc, why, a, t).row = t
  BY Zenon DEF Job
<1>1. ASSUME NEW q \in Procs, Shape(q) PROVE job'[p].row \in {0, job[p].row}
  BY <1>1 DEF Shape, GoesOn, LocksOn, Rests, JobAt, JobRests
<1>2. ASSUME NEW q \in Procs, NEW j, Becomes(q, j) PROVE job'[p].row \in {job[p].row, j.row}
  BY <1>2, JobChanges DEF Becomes, TypeInv
<1>3. ASSUME NEW q \in Procs, BeginsVerb(q) \/ BeginsPrompt(q) PROVE job'[p].row \in {0, job[p].row}
  BY <1>0, <1>2, <1>3 DEF BeginsVerb, BeginsPrompt
<1>4. ASSUME NEW q \in Procs, BeginsPlacing(q)
      PROVE  \/ job'[p].row \in {0, job[p].row}
             \/ job'[p].row \in Rows /\ row[job'[p].row] = "pending"
  <2>1. PICK verb \in {"ask", "ping"}, t \in Rows \cup {0} :
          Becomes(q, Job("place", verb, None, t)) /\ (t \in Rows => row[t] = "pending")
    BY <1>4 DEF BeginsPlacing
  <2> QED
    BY <1>0, <1>2, <2>1
<1>5. ASSUME BeginsFallback
      PROVE  \/ job'[p].row = job[p].row
             \/ job'[p].row \in Rows /\ row[job'[p].row] = "pending"
  <2>1. PICK t \in Rows : FallbackTakes(t) /\ Becomes("worker", Job("fallback", None, None, t))
    BY <1>5 DEF BeginsFallback
  <2> QED
    BY <1>0, <1>2, <2>1 DEF FallbackTakes, Pending
<1>6. ASSUME Hangs PROVE job'[p].row = job[p].row
  BY <1>6 DEF Hangs, TypeInv, JobsTyped, JobRec
<1>7. ASSUME WorkerRests PROVE job'[p].row \in {0, job[p].row}
  BY <1>2, <1>7 DEF WorkerRests
<1>8. ASSUME PlacesPing PROVE job'[p].row = job[p].row
  BY <1>8, PingPlaced
<1>9. ASSUME NEW q \in Procs, PlacesAsk(q) PROVE job'[p].row \in {0, job[p].row, job[q].row}
  BY <1>0, <1>9, AskPlaced
<1>10. ASSUME Restart PROVE job'[p].row \in {0, job[p].row, saved.row}
  BY <1>0, <1>10, Restarted
<1> QED
  BY <1>1, <1>3, <1>4, <1>5, <1>6, <1>7, <1>8, <1>9, <1>10, Moves

LEMMA ToldStep ==
  ASSUME TypeInv, ToldKept, [Next]_vars
  PROVE  ToldKept' /\ \A t \in told : row'[t] = row[t]
<1> USE NamesAreDistinct
<1>1. ASSUME NEW t \in told PROVE row'[t] = row[t] /\ Final(t)' /\ t \in Rows
  <2>1. Final(t) /\ t \in Rows /\ t # 0
    BY DEF ToldKept
  <2>2. row'[t] = row[t]
    BY <2>1, RowStep DEF Final, RowMoved, None, Procs
  <2>3. active'.row # t /\ saved'.row # t
    BY <2>1, TaskStep DEF Final
  <2>4. ASSUME NEW p \in Procs PROVE job'[p].row # t
    BY <2>1, JobRowStep DEF Final
  <2> QED
    BY <2>1, <2>2, <2>3, <2>4 DEF Final
<1>2. ASSUME NEW t \in told', t \notin told PROVE Final(t)' /\ t \in Rows
  <2>1. Restart /\ GivesUpSubmitted /\ job' = Rested
    BY <1>2, ToldMoves, Zenon DEF Restart
  <2>2. t = saved.row /\ t \in Rows
    BY <1>2, <2>1 DEF GivesUpSubmitted
  <2>3. row' = [Requeued EXCEPT ![t] = "failed"]
    BY <2>1, <2>2 DEF GivesUpSubmitted
  <2>4. row'[t] = "failed"
    BY <2>2, <2>3 DEF Requeued
  <2>5. active'.row # t /\ saved'.row # t
    BY <2>1, <2>2 DEF GivesUpSubmitted, NoTask
  <2>6. ASSUME NEW p \in Procs PROVE job'[p].row # t
    <3>1. job'[p] = Rest \/ (p = "ctl" /\ job'[p] = job[p])
      BY <2>1 DEF Rested
    <3> QED
      BY <2>2, <3>1, RestTyped, AtStep DEF RoleOf
  <2> QED
    BY <2>2, <2>4, <2>5, <2>6 DEF Final
<1> QED
  BY <1>1, <1>2 DEF ToldKept

LEMMA ToldInit == Init => ToldKept
BY DEF Init, ToldKept

\* The row whose prompt the chat was told is not replayed is never given
\* another status: not by a run, a command or a second crash.
THEOREM ToldStaysTold == Spec => ToldIsFinal
<1>1. TypeInv /\ ToldKept /\ [Next]_vars => ToldKept' /\ [\A t \in told : row'[t] = row[t]]_vars
  BY ToldStep
<1> QED
  BY <1>1, ToldInit, TypeInvariant, PTL DEF Spec, ToldIsFinal

----------------------------------------------------------------------------
(* Sessions: every lock, and every lock a process has in hand, names a     *)
(* session of the bridge or one it was told to take, and whoever waits for *)
(* its session to come up finds none of the user's in its place.           *)

Known(l)     == l.nonce \in mine \cup {0} /\ l.pane \in mine \cup adopted \cup {0}
KnownNext(l) == l.nonce \in mine' \cup {0} /\ l.pane \in mine' \cup adopted' \cup {0}
Awaits(p) ==
  job[p].pc = "verify" =>
    job[p].held.nonce # 0 /\ (pane["tmux"].id = 0 \/ pane["tmux"].nonce # 0)
LocksKnown ==
  /\ Known(lock) /\ \A p \in Procs : Known(job[p].held) /\ Awaits(p)
  /\ \A b \in Backends : pane[b].nonce \in mine \cup {0}
OwnersKnown == LocksKnown /\ LeavesOthersAlone

LEMMA OwnedPane ==
  ASSUME TypeInv, LocksKnown, NEW b \in Backends, pane[b].nonce # 0
  PROVE  pane[b].id = pane[b].nonce /\ pane[b].id \in mine
BY DEF TypeInv, PanesTyped, LocksKnown

LEMMA SetsGrow ==
  ASSUME TypeInv, [Next]_vars
  PROVE  mine \subseteq mine' /\ adopted \subseteq adopted' /\ (\A l : Known(l) => KnownNext(l))
<1>1. mine \subseteq mine'
  BY MineMoves DEF StartOpens
<1>2. adopted \subseteq adopted'
  BY AdoptedMoves, Zenon DEF Claim
<1> QED
  BY <1>1, <1>2 DEF Known, KnownNext

LEMMA LockStep ==
  ASSUME TypeInv, OwnersKnown, [Next]_vars
  PROVE  KnownNext(lock')
<1> USE AtStep, LockFields, NoLockTyped DEF At
<1>1. \A l : Known(l) => KnownNext(l)
  BY SetsGrow
<1>2. Known(lock) /\ (\A p \in Procs : Known(job[p].held))
  BY DEF OwnersKnown, LocksKnown
<1>3. ASSUME NEW p \in Procs, Refresh(p) PROVE KnownNext(lock')
  BY <1>1, <1>2, <1>3 DEF Refresh
<1>4. ASSUME NEW p \in Procs, Claim(p) PROVE KnownNext(lock')
  <2>1. \/ lock' = lock
        \/ /\ lock' = [at |-> SelectedBackend, pane |-> pane[SelectedBackend].id, nonce |-> 0]
           /\ adopted' = adopted \cup {pane[SelectedBackend].id}
    BY <1>4, Zenon DEF Claim
  <2> QED
    BY <1>1, <1>2, <2>1 DEF Known, KnownNext
<1>5. ASSUME NEW p \in Procs, StartKeeps(p) PROVE KnownNext(lock')
  <2>1. lock' = [lock EXCEPT !.pane = pane["tmux"].id] /\ lock.nonce # 0 /\ pane["tmux"].nonce = lock.nonce
    BY <1>5, Zenon DEF StartKeeps, OwnedHere
  <2>2. pane["tmux"].id \in mine /\ lock'.pane = pane["tmux"].id /\ lock'.nonce = lock.nonce
    BY <2>1, OwnedPane DEF OwnersKnown, Backends
  <2> QED
    BY <1>2, <2>2, SetsGrow DEF Known, KnownNext
<1>6. ASSUME NEW p \in Procs, Verified(p) PROVE KnownNext(lock')
  <2>1. lock' = [job[p].held EXCEPT !.pane = pane["tmux"].id] /\ pane["tmux"].up /\ job[p].pc = "verify"
    BY <1>6, Zenon DEF Verified, Ready
  <2>2. pane["tmux"].nonce # 0
    BY <2>1 DEF OwnersKnown, LocksKnown, Awaits, TypeInv, PanesTyped, Backends
  <2>3. pane["tmux"].id \in mine /\ lock'.pane = pane["tmux"].id /\ lock'.nonce = job[p].held.nonce
    BY <2>1, <2>2, OwnedPane DEF OwnersKnown, Backends
  <2> QED
    BY <1>2, <2>3, SetsGrow DEF Known, KnownNext
<1>7. ASSUME NEW p \in Procs, Stops(p) PROVE KnownNext(lock')
  BY <1>1, <1>2, <1>7 DEF Stops, Known, KnownNext
<1>8. ASSUME NEW p \in {"chat", "ctl"}, CommandUse(p) \/ CommandUnlock(p) PROVE KnownNext(lock')
  BY <1>8 DEF CommandUse, CommandUnlock, KnownNext
<1> QED
  BY <1>1, <1>2, <1>3, <1>4, <1>5, <1>6, <1>7, <1>8, LockMoves

LEMMA NonceStep ==
  ASSUME TypeInv, OwnersKnown, [Next]_vars, NEW b \in Backends
  PROVE  pane'[b].nonce \in mine' \cup {0}
<1>1. pane[b].nonce \in mine' \cup {0}
  BY SetsGrow DEF OwnersKnown, LocksKnown
<1>2. opened \in Nat /\ MaxSessions \in Nat
  BY NamesAreDistinct DEF TypeInv, CountsTyped
<1>3. ASSUME pane'[b] = Opened(opened + 1), \E p \in Procs : StartOpens(p)
      PROVE  pane'[b].nonce \in mine'
  <2>1. pane'[b].nonce = opened + 1
    BY <1>3, Zenon DEF Opened, NoPane
  <2> QED
    BY <1>3, <2>1 DEF StartOpens
<1>4. ASSUME pane'[b] = [NoPane EXCEPT !.id = opened + 1, !.up = TRUE]
      PROVE  pane'[b].nonce = 0
  BY <1>4, Zenon DEF NoPane
<1> QED
  BY <1>1, <1>3, <1>4, PaneStep, PaneFields DEF PaneMoved, SameSession

LEMMA AwaitsKept ==
  ASSUME TypeInv, OwnersKnown, [Next]_vars, ~NameTaken, NEW p \in Procs, job[p].pc = "verify"
  PROVE  pane'["tmux"].id = 0 \/ pane'["tmux"].nonce # 0
<1> USE DEF Backends
<1>1. pane["tmux"].id = 0 \/ pane["tmux"].nonce # 0
  BY DEF OwnersKnown, LocksKnown, Awaits
<1>2. ~UserOpens("tmux")
  BY DEF UserOpens, At
<1>3. opened \in Nat
  BY AtStep
<1>4. Opened(opened + 1).nonce = opened + 1
  BY Zenon DEF Opened, NoPane
<1>5. PaneMoved("tmux")
  BY PaneStep
<1>6. \/ SameSession(pane'["tmux"], pane["tmux"])
      \/ pane'["tmux"].id = pane["tmux"].id /\ pane'["tmux"].nonce = pane["tmux"].nonce
      \/ pane'["tmux"] = NoPane
      \/ pane'["tmux"] = Opened(opened + 1)
  BY <1>2, <1>5, Zenon DEF PaneMoved
<1>7. NoPane.id = 0 /\ opened + 1 # 0
  <2>1. NoPane.id = 0
    BY DEF NoPane
  <2> QED
    BY <1>3, <2>1
<1>8. CASE SameSession(pane'["tmux"], pane["tmux"])
  BY <1>1, <1>8 DEF SameSession
<1> HIDE DEF Backends
<1>9. CASE pane'["tmux"] = Opened(opened + 1)
  BY <1>4, <1>7, <1>9, Zenon
<1> QED
  BY <1>1, <1>6, <1>7, <1>8, <1>9, Zenon

LEMMA HeldStep ==
  ASSUME TypeInv, OwnersKnown, [Next]_vars, ~NameTaken, NEW p \in Procs
  PROVE  KnownNext(job'[p].held) /\ Awaits(p)'
<1> USE NoLockTyped, RestTyped, NamesAreDistinct
<1>0. \A pc, why, a, t : Job(pc, why, a, t).held = NoLock /\ Job(pc, why, a, t).pc = pc
  BY Zenon DEF Job
<1>1. /\ KnownNext(job[p].held) /\ KnownNext(NoLock) /\ KnownNext(lock) /\ KnownNext(lock')
      /\ Awaits(p) /\ (job[p].pc = "verify" => pane'["tmux"].id = 0 \/ pane'["tmux"].nonce # 0)
  BY SetsGrow, LockStep, AwaitsKept DEF OwnersKnown, LocksKnown, Known, KnownNext
<1>2. CASE job'[p].held = job[p].held /\ job'[p].pc = job[p].pc
  BY <1>1, <1>2 DEF Known, KnownNext, Awaits
<1>3. CASE job'[p].held \in {job[p].held, NoLock} /\ job'[p].pc # "verify"
  BY <1>1, <1>3 DEF Known, KnownNext, Awaits
<1>4. ASSUME NEW q \in Procs, Shape(q) PROVE KnownNext(job'[p].held) /\ Awaits(p)'
  <2>1. CASE p # q \/ GoesOn(q) \/ Rests(q)
    BY <1>2, <1>3, <1>4, <2>1, ShapeRole DEF GoesOn, Rests, JobAt, JobRests
  <2>2. CASE p = q /\ LocksOn(q)
    <3>1. PICK pc \in LanePcs, l \in Locks :
            /\ JobAt(p, pc, l)
            /\ l \in {lock, lock'} \/ (StartOpens(p) /\ l.pane = 0 /\ l.nonce = opened + 1)
            /\ pc = "verify" => StartWaits(p) \/ StartOpens(p)
      BY <2>2 DEF LocksOn
    <3>2. job'[p].held = l /\ job'[p].pc = pc
      BY <3>1 DEF JobAt
    <3>3. KnownNext(l)
      BY <1>1, <3>1 DEF Known, KnownNext, StartOpens
    <3>4. CASE StartWaits(p)
      <4>1. job'[p].held = lock /\ pane'["tmux"] = pane["tmux"] /\ lock.nonce # 0
            /\ pane["tmux"].nonce = lock.nonce
        BY <3>4, AtStep DEF StartWaits, OwnedHere, TypeInv, JobsTyped, JobRec
      <4> QED
        BY <3>2, <3>3, <4>1 DEF Awaits, KnownNext
    <3>5. CASE StartOpens(p)
      <4>1. pane' = [pane EXCEPT !["tmux"] = Opened(opened + 1)] /\ opened \in Nat
            /\ job' = [job EXCEPT ![p].pc = "verify",
                        ![p].held = [at |-> "tmux", pane |-> 0, nonce |-> opened + 1]]
        BY <3>5, AtStep DEF StartOpens
      <4>2. pane'["tmux"] = Opened(opened + 1) /\ job'[p].held.nonce = opened + 1
        BY <4>1 DEF TypeInv, PanesTyped, Backends, JobsTyped, JobRec
      <4>3. pane'["tmux"].nonce = opened + 1
        BY <4>2, Zenon DEF Opened, NoPane
      <4> QED
        BY <3>2, <3>3, <4>1, <4>2, <4>3 DEF Awaits, KnownNext
    <3> QED
      BY <3>1, <3>2, <3>3, <3>4, <3>5 DEF Awaits, KnownNext
  <2> QED
    BY <1>4, <2>1, <2>2 DEF Shape
<1>5. ASSUME NEW q \in Procs, NEW j, Becomes(q, j), j.held = NoLock, j.pc # "verify"
      PROVE  KnownNext(job'[p].held) /\ Awaits(p)'
  BY <1>2, <1>3, <1>5, JobChanges DEF Becomes, TypeInv
<1>6. ASSUME NEW q \in Procs, BeginsVerb(q) \/ BeginsPrompt(q) \/ BeginsPlacing(q) \/ BeginsFallback
      PROVE  KnownNext(job'[p].held) /\ Awaits(p)'
  BY <1>0, <1>5, <1>6 DEF BeginsVerb, BeginsPrompt, BeginsPlacing, BeginsFallback
<1>7. ASSUME Hangs PROVE KnownNext(job'[p].held) /\ Awaits(p)'
  <2>1. job'[p].held = job[p].held /\ (job'[p].pc = job[p].pc \/ job'[p].pc = "hung")
    BY <1>7 DEF Hangs, TypeInv, JobsTyped, JobRec
  <2> QED
    BY <1>2, <1>3, <2>1
<1>8. ASSUME WorkerRests PROVE KnownNext(job'[p].held) /\ Awaits(p)'
  BY <1>5, <1>8 DEF WorkerRests
<1>9. ASSUME PlacesPing PROVE KnownNext(job'[p].held) /\ Awaits(p)'
  BY <1>2, <1>3, <1>9, PingPlaced
<1>10. ASSUME NEW q \in Procs, PlacesAsk(q) PROVE KnownNext(job'[p].held) /\ Awaits(p)'
  BY <1>0, <1>2, <1>3, <1>10, AskPlaced
<1>11. ASSUME Restart PROVE KnownNext(job'[p].held) /\ Awaits(p)'
  BY <1>0, <1>2, <1>3, <1>11, Restarted
<1> QED
  BY <1>2, <1>4, <1>6, <1>7, <1>8, <1>9, <1>10, <1>11, Moves

LEMMA OthersStep ==
  ASSUME TypeInv, OwnersKnown, [Next]_vars
  PROVE  LeavesOthersAlone'
<1> USE AtStep DEF Backends
<1>0. killed \subseteq mine' /\ typed \subseteq mine' \cup adopted'
  BY SetsGrow DEF OwnersKnown, LeavesOthersAlone
<1>1. ASSUME NEW p \in Procs, NotVerified(p) PROVE killed' \subseteq mine'
  <2>1. CASE killed' = killed
    BY <1>0, <2>1
  <2>2. CASE killed' # killed
    <3>1. /\ killed' = killed \cup {pane["tmux"].id} /\ pane["tmux"].nonce = job[p].held.nonce
          /\ job[p].pc = "verify"
      BY <1>1, <2>2, Zenon DEF NotVerified, At
    <3>2. pane["tmux"].nonce # 0
      BY <3>1 DEF OwnersKnown, LocksKnown, Awaits
    <3> QED
      BY <1>0, <3>1, <3>2, OwnedPane, SetsGrow DEF OwnersKnown
  <2> QED
    BY <2>1, <2>2
<1>2. ASSUME NEW p \in Procs, Stops(p) PROVE killed' \subseteq mine'
  <2>1. CASE killed' = killed
    BY <1>0, <2>1
  <2>2. CASE killed' # killed
    <3>1. /\ killed' = killed \cup ({pane["tmux"].id} \ {0})
          /\ lock.nonce # 0 /\ (pane["tmux"].id = 0 \/ pane["tmux"].nonce = lock.nonce)
      BY <1>2, <2>2, Zenon DEF Stops, Foreign
    <3> QED
      BY <1>0, <3>1, OwnedPane, SetsGrow DEF OwnersKnown
  <2> QED
    BY <2>1, <2>2
<1>3. ASSUME NEW p \in Procs, TypesAsk(p) \/ TypesPing(p) PROVE typed' \subseteq mine' \cup adopted'
  <2>1. CASE typed' = typed
    BY <1>0, <2>1
  <2>2. CASE typed' # typed
    <3>1. typed' = typed \cup {job[p].held.pane} /\ CanSubmit(job[p].held)
      BY <1>3, <2>2, Zenon DEF TypesAsk, TypesPing, Types
    <3>2. job[p].held.at \in Backends /\ pane[job[p].held.at].id = job[p].held.pane
          /\ pane[job[p].held.at].up
      BY <3>1, LockFields DEF CanSubmit, Ready
    <3>3. job[p].held.pane # 0
      BY <3>2 DEF TypeInv, PanesTyped
    <3>4. job[p].held.pane \in mine \cup adopted
      BY <3>3 DEF OwnersKnown, LocksKnown, Known, KnownNext
    <3> QED
      BY <1>0, <3>1, <3>4, SetsGrow
  <2> QED
    BY <2>1, <2>2
<1> QED
  BY <1>0, <1>1, <1>2, <1>3, KilledMoves, TypedMoves DEF LeavesOthersAlone

LEMMA OwnersInit ==
  ASSUME Init
  PROVE  OwnersKnown
BY RestTyped, NoLockTyped, PaneFields
   DEF Init, OwnersKnown, LocksKnown, LeavesOthersAlone, Known, Awaits

LEMMA OwnersStep ==
  ASSUME TypeInv, OwnersKnown, [Next]_vars, ~NameTaken
  PROVE  OwnersKnown'
<1>1. Known(lock)' /\ \A p \in Procs : Known(job[p].held)' /\ Awaits(p)'
  BY LockStep, HeldStep DEF Known, KnownNext
<1>2. \A b \in Backends : pane'[b].nonce \in mine' \cup {0}
  BY NonceStep
<1> QED
  BY <1>1, <1>2, OthersStep DEF OwnersKnown, LocksKnown

\* The bridge types only into sessions it opened or was told to take, and ends
\* only those it opened, as long as the user opens no session of the lane's
\* name while the bridge waits for its own.
THEOREM OthersAreLeftAlone == ~NameTaken => (Spec => []LeavesOthersAlone)
<1> SUFFICES ASSUME ~NameTaken PROVE Spec => []LeavesOthersAlone
  OBVIOUS
<1>1. TypeInv /\ OwnersKnown /\ [Next]_vars => OwnersKnown'
  BY OwnersStep
<1>2. OwnersKnown => LeavesOthersAlone
  BY DEF OwnersKnown
<1> QED
  BY <1>1, <1>2, OwnersInit, TypeInvariant, PTL DEF Spec
=============================================================================
