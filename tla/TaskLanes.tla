------------------------------ MODULE TaskLanes ------------------------------
(***************************************************************************)
(* The other lanes a queued message can take: the terminal lane, a Codex   *)
(* CLI the bridge types into (its own tmux session, or a session of the    *)
(* user's it was told to lock), and the fallback lane, a second app-server *)
(* for what the busy desktop turn holds up.                                *)
(*                                                                         *)
(* Who acts: the worker of the queue, the poll loop with the commands of   *)
(* the chat, bridgectl in a process of its own, and one run per prompt     *)
(* (runTerminalAskTask), which outlives the command that began it.  A step *)
(* is the code between two awaits; only the tmux commands that check a     *)
(* session and at once act on it are one step.                             *)
(***************************************************************************)
EXTENDS Naturals, Sequences, FiniteSets

CONSTANTS
  AskRows,      \* queued messages that ask for the terminal lane by name
  PingRows,     \* queued messages that ask whether it is alive
  ChatRows,     \* queued messages any lane could take
  Asks,         \* identities of prompts
  Commands,     \* commands the chat may send
  Controls,     \* commands bridgectl may be given
  MaxOps,       \* bound on commands
  MaxSessions,  \* bound on terminal sessions opened
  MaxFaults,    \* bound on crashes, ends of a session, sessions of the user's
  UserOwned,    \* terminal_lane.allow_user_owned_sessions
  NameTaken,    \* may the user open a session while the bridge waits for its own?
  CloseMidTurn  \* may the fallback lane be closed under a turn?

Rows == AskRows \cup PingRows \cup ChatRows
Verbs == {"use", "unlock", "lock", "start", "stop", "restart", "ping", "ask", "interrupt",
          "clear", "connect", "disconnect", "enable", "disable"}
ASSUME LanesAssumption ==
  /\ Rows \subseteq Nat \ {0}
  /\ AskRows \cap PingRows = {} /\ (AskRows \cup PingRows) \cap ChatRows = {}
  /\ Commands \subseteq Verbs /\ Controls \subseteq Verbs \ {"connect", "disconnect", "enable", "disable"}
  /\ {MaxOps, MaxSessions, MaxFaults} \subseteq Nat
  /\ IsFiniteSet(Asks) /\ Asks \cap {"chat", "worker", "ctl", "none"} = {}
  /\ UserOwned \in BOOLEAN /\ NameTaken \in BOOLEAN /\ CloseMidTurn \in BOOLEAN

None == "none"
Procs    == {"chat", "worker", "ctl"} \cup Asks
Backends == {"tmux", "iterm2"}
Ids      == 0..MaxSessions
Locks    == [at : Backends, pane : Ids, nonce : Ids]
NoLock   == [at |-> "tmux", pane |-> 0, nonce |-> 0]
Tasks    == [id : Asks, row : Rows \cup {0}, sent : BOOLEAN]
NoTask   == [id |-> None, row |-> 0, sent |-> FALSE]
NoPane   == [id |-> 0, nonce |-> 0, up |-> FALSE, turns |-> <<>>, shown |-> {}]
Rest     == [pc |-> "rest", why |-> None, held |-> NoLock, ask |-> None, row |-> 0, ok |-> FALSE]
Pcs == {"rest", "place", "ensure", "refresh", "claim", "start", "verify", "stop", "act",
        "typed", "wait", "report", "run", "fallback", "hung"}

VARIABLES
  row,        \* durable: queue status of the messages
  lock,       \* durable: terminal:codex_identity
  backend,    \* durable: terminal:backend_override
  saved,      \* durable: terminal:active_task
  chatMode,   \* durable: the chat talks to the terminal lane
  fallbackOn, \* durable: bridge:fallback_lane_enabled_override
  external,   \* durable: terminal:external_active_task, bridgectl's own mark
  active,     \* activeTerminalTask
  job,        \* what each process does
  pane,       \* the session of each backend
  mine, adopted, typed, killed, \* history: sessions by what was done to them
  told,       \* history: rows whose prompt was announced as not replayed
  used, opened, ops, faults \* identities used, and bounded counts

durable == <<row, lock, backend, saved, chatMode, fallbackOn, external>>
history == <<mine, adopted, typed, killed, told>>
bounded == <<used, opened, ops, faults>>
vars == <<durable, active, job, pane, history, bounded>>

Init ==
  /\ row = [t \in Rows |-> None] /\ lock = NoLock /\ backend = "tmux" /\ saved = NoTask
  /\ chatMode = FALSE /\ fallbackOn = TRUE /\ external = FALSE /\ active = NoTask
  /\ job = [p \in Procs |-> Rest] /\ pane = [b \in Backends |-> NoPane]
  /\ mine = {} /\ adopted = {} /\ typed = {} /\ killed = {} /\ told = {}
  /\ used = {} /\ opened = 0 /\ ops = 0 /\ faults = 0

At(p, pc)   == job[p].pc = pc
Idle(p)     == At(p, "rest")
To(p, pc)   == job' = [job EXCEPT ![p].pc = pc]
Ended(p, r) == job' = [job EXCEPT ![p].pc = "report", ![p].ok = r]
Left        == Cardinality(used) + Cardinality({p \in Procs : At(p, "place")}) < Cardinality(Asks)
NextAsk     == CHOOSE a \in Asks : a \notin used

(***************************************************************************)
(* The session of a backend                                                *)
(***************************************************************************)
\* isTmuxCodexSessionReady: the prompt shows and no turn runs.
Ready(q) == q.up /\ q.turns = <<>>
ItermReady(q) == q.up /\ q.turns = <<>>

\* findTmuxCodexSession with the pane of the lock, findItermCodexSession with
\* its tty.
Sees(l) == pane[l.at].up /\ pane[l.at].id = l.pane

\* getStatusForBackend: an owned session must carry the nonce of the lock.
Found(l) == Sees(l) /\ (l.nonce # 0 => pane[l.at].nonce = l.nonce)

\* getTerminalCodexStatus
LaneReady(l) == Found(l) /\ IF l.at = "tmux" THEN Ready(pane["tmux"]) ELSE ItermReady(pane["iterm2"])

Opened(n) == [NoPane EXCEPT !.id = n, !.nonce = n]
Foreign(q) == q.id # 0 /\ q.nonce # lock.nonce
Interrupted(q) == [q EXCEPT !.turns = <<>>]

SubmitTmux(p, l) ==
  /\ l.at = "tmux" /\ pane["tmux"].id = l.pane /\ Ready(pane["tmux"])
  /\ pane' = [pane EXCEPT !["tmux"].turns = Append(@, job[p].ask)]
SubmitIterm(p, l) ==
  /\ l.at = "iterm2" /\ pane["iterm2"].id = l.pane /\ ItermReady(pane["iterm2"])
  /\ pane' = [pane EXCEPT !["iterm2"].turns = Append(@, job[p].ask)]
CanSubmit(l) == pane[l.at].id = l.pane /\ Ready(pane[l.at])

\* The marker is on the screen of the session the prompt was typed into.
SeenTmux(p)  == job[p].held.at = "tmux" /\ pane["tmux"].id = job[p].held.pane
                /\ job[p].ask \in pane["tmux"].shown
SeenIterm(p) == job[p].held.at = "iterm2" /\ pane["iterm2"].id = job[p].held.pane
                /\ job[p].ask \in pane["iterm2"].shown

(***************************************************************************)
(* The world: sessions come up, answer, and go; users have sessions too    *)
(***************************************************************************)
Fault == faults < MaxFaults /\ faults' = faults + 1
Elsewhere == UNCHANGED <<durable, active, job>>
ComesUp ==
  /\ pane["tmux"].id # 0 /\ ~pane["tmux"].up
  /\ pane' = [pane EXCEPT !["tmux"].up = TRUE]
  /\ Elsewhere /\ UNCHANGED <<history, bounded>>
\* With its marker or without; one nobody waits for is not recorded.
TurnEnds(b) ==
  /\ pane[b].turns # <<>>
  /\ LET a == Head(pane[b].turns)
         awaited == \E p \in Procs : job[p].ask = a /\ job[p].pc \in {"typed", "wait"} IN
     \E answered \in {FALSE, awaited} :
       pane' = [pane EXCEPT ![b].turns = Tail(@),
                            ![b].shown = IF answered THEN @ \cup {a} ELSE @]
  /\ Elsewhere /\ UNCHANGED <<history, bounded>>
SessionEnds(b) ==
  /\ pane[b].id # 0 /\ Fault
  /\ pane' = [pane EXCEPT ![b] = NoPane]
  /\ Elsewhere /\ UNCHANGED <<history, used, opened, ops>>
UserOpens(b) ==
  /\ (b = "iterm2" => UserOwned) /\ pane[b].id = 0 /\ opened < MaxSessions /\ opened' = opened + 1 /\ Fault
  /\ NameTaken \/ \A p \in Procs : ~At(p, "verify")
  /\ pane' = [pane EXCEPT ![b] = [NoPane EXCEPT !.id = opened + 1, !.up = TRUE]]
  /\ Elsewhere /\ UNCHANGED <<history, used, ops>>

(***************************************************************************)
(* Verifying the lane: ensureTerminalCodexIdentity and what it calls       *)
(***************************************************************************)
\* Runs, and ping, interrupt and clear from the chat, verify twice in a row;
\* the repetition is a step of its own only after the lane was just taken.
Twice(p) == p \in Asks \/ (p = "chat" /\ job[p].why \in {"ping", "interrupt", "clear"})
Taken(p, l) == job' = [job EXCEPT ![p].pc = IF Twice(p) THEN "ensure" ELSE "act", ![p].held = l]

\* The lock is read, the session is looked at, and the lock written back.
EnsureLocked(p) ==
  /\ At(p, "ensure") /\ lock # NoLock
  /\ IF LaneReady(lock)
     THEN job' = [job EXCEPT ![p].pc = "refresh", ![p].held = lock]
     ELSE Ended(p, FALSE)
  /\ UNCHANGED <<durable, active, pane, history, bounded>>
Refresh(p) ==
  /\ At(p, "refresh") /\ lock' = job[p].held /\ To(p, "act")
  /\ UNCHANGED <<row, backend, saved, chatMode, fallbackOn, external, active, pane, history, bounded>>
EnsureUnlocked(p) ==
  /\ At(p, "ensure") /\ lock = NoLock
  /\ To(p, IF backend = "tmux" THEN "start" ELSE "claim")
  /\ UNCHANGED <<durable, active, pane, history, bounded>>

\* lockTerminalCodexIdentity: whatever session of the backend is ready.
SelectedBackend == IF lock = NoLock THEN backend ELSE lock.at
Claim(p) ==
  /\ At(p, "claim")
  /\ LET b == SelectedBackend  l == [at |-> b, pane |-> pane[b].id, nonce |-> 0] IN
     IF UserOwned /\ Ready(pane[b])
     THEN /\ lock' = l /\ adopted' = adopted \cup {pane[b].id}
          /\ Taken(p, l)
     ELSE Ended(p, FALSE) /\ UNCHANGED <<lock, adopted>>
  /\ UNCHANGED <<row, backend, saved, chatMode, fallbackOn, external, active, pane,
                 mine, typed, killed, told, bounded>>

\* startTerminalCodexWorker keeps a session that carries the nonce of the
\* lock, refuses any other, and opens one when there is none.
OwnedHere == pane["tmux"].up /\ lock.nonce # 0 /\ pane["tmux"].nonce = lock.nonce
StartRefused(p) ==
  /\ At(p, "start")
  /\ \/ backend # "tmux"
     \/ pane["tmux"].id # 0 /\ ~OwnedHere
     \/ OwnedHere /\ ~Ready(pane["tmux"]) /\ saved # NoTask
     \/ pane["tmux"].id = 0  \* tmux fails
  /\ Ended(p, FALSE)
  /\ UNCHANGED <<durable, active, pane, history, bounded>>
StartKeeps(p) ==
  /\ At(p, "start") /\ backend = "tmux" /\ OwnedHere /\ Ready(pane["tmux"])
  /\ LET l == [lock EXCEPT !.pane = pane["tmux"].id] IN lock' = l /\ Taken(p, l)
  /\ UNCHANGED <<row, backend, saved, chatMode, fallbackOn, external, active, pane, history, bounded>>
StartWaits(p) ==
  /\ At(p, "start") /\ backend = "tmux" /\ OwnedHere
  /\ ~Ready(pane["tmux"]) /\ saved = NoTask
  /\ job' = [job EXCEPT ![p].pc = "verify", ![p].held = lock]
  /\ UNCHANGED <<durable, active, pane, history, bounded>>
StartOpens(p) ==
  /\ At(p, "start") /\ backend = "tmux" /\ pane["tmux"].id = 0 /\ opened < MaxSessions
  /\ opened' = opened + 1 /\ mine' = mine \cup {opened + 1}
  /\ pane' = [pane EXCEPT !["tmux"] = Opened(opened + 1)]
  /\ job' = [job EXCEPT ![p].pc = "verify",
                        ![p].held = [at |-> "tmux", pane |-> 0, nonce |-> opened + 1]]
  /\ UNCHANGED <<durable, active, adopted, typed, killed, told, used, ops, faults>>

\* waitForTmuxTerminalReady, which asks for the name and not for the pane.
Verified(p) ==
  /\ At(p, "verify") /\ Ready(pane["tmux"])
  /\ LET l == [job[p].held EXCEPT !.pane = pane["tmux"].id] IN
     lock' = l /\ Taken(p, l)
  /\ UNCHANGED <<row, backend, saved, chatMode, fallbackOn, external, active, pane, history, bounded>>
\* Not in time: a session opened for the purpose is closed again.
NotVerified(p) ==
  /\ At(p, "verify") /\ ~Ready(pane["tmux"]) /\ Ended(p, FALSE)
  /\ LET q == pane["tmux"]  opens == job[p].held.pane = 0 IN
     IF opens /\ q.id # 0 /\ q.nonce = job[p].held.nonce
     THEN pane' = [pane EXCEPT !["tmux"] = NoPane] /\ killed' = killed \cup {q.id}
     ELSE UNCHANGED <<pane, killed>>
  /\ UNCHANGED <<durable, active, mine, adopted, typed, told, bounded>>

\* (variant) The session of that name is stopped, whoever opened it.
StopsByName(p) ==
  /\ At(p, "stop") /\ To(p, IF job[p].why = "restart" THEN "start" ELSE "act")
  /\ killed' = killed \cup ({pane["tmux"].id} \ {0})
  /\ pane' = [pane EXCEPT !["tmux"] = NoPane] /\ lock' = NoLock
  /\ UNCHANGED <<row, backend, saved, chatMode, fallbackOn, external, active,
                 mine, adopted, typed, told, bounded>>

\* stopTerminalCodexWorker: only the session with the nonce of the lock.
Stops(p) ==
  /\ At(p, "stop")
  /\ LET q == pane["tmux"] IN
     /\ IF lock.nonce # 0 /\ Foreign(q) THEN Ended(p, FALSE)
        ELSE To(p, IF job[p].why = "restart" THEN "start" ELSE "act")
     /\ IF lock.nonce # 0 /\ ~Foreign(q)
        THEN /\ lock' = NoLock /\ pane' = [pane EXCEPT !["tmux"] = NoPane]
             /\ killed' = killed \cup ({q.id} \ {0})
        ELSE UNCHANGED <<lock, pane, killed>>
  /\ UNCHANGED <<row, backend, saved, chatMode, fallbackOn, external, active,
                 mine, adopted, typed, told, bounded>>

(***************************************************************************)
(* Typing a prompt and waiting for its marker                              *)
(***************************************************************************)
Types(p, next) ==
  /\ At(p, "act")
  /\ IF CanSubmit(job[p].held)
     THEN /\ SubmitTmux(p, job[p].held) \/ SubmitIterm(p, job[p].held)
          /\ typed' = typed \cup {job[p].held.pane}
          /\ To(p, next)
     ELSE Ended(p, FALSE) /\ UNCHANGED <<pane, typed>>
  /\ UNCHANGED <<durable, active, mine, adopted, killed, told, bounded>>
TypesAsk(p)  == job[p].why = "ask" /\ Types(p, IF p \in Asks THEN "typed" ELSE "wait")
TypesPing(p) == job[p].why = "ping" /\ Types(p, "wait")

\* The run goes on only if the task is still the active one.
Submitted(p) ==
  /\ At(p, "typed")
  /\ IF active.id = p
     THEN /\ active' = [active EXCEPT !.sent = TRUE] /\ saved' = active'
          /\ To(p, "wait")
     ELSE Ended(p, FALSE) /\ UNCHANGED <<active, saved>>
  /\ UNCHANGED <<row, lock, backend, chatMode, fallbackOn, external, pane, history, bounded>>

Observes(p) ==
  /\ At(p, "wait") /\ (SeenTmux(p) \/ SeenIterm(p))
  /\ Ended(p, TRUE)
  /\ pane' = [b \in Backends |-> [pane[b] EXCEPT !.shown = @ \ {job[p].ask}]]
  /\ UNCHANGED <<durable, active, history, bounded>>
\* (variant) Given up only when the session is gone.
TimesOutWhenGone(p) ==
  /\ At(p, "wait") /\ pane[job[p].held.at].id # job[p].held.pane
  /\ IF p = "ctl" THEN external' = TRUE /\ job' = [job EXCEPT ![p] = Rest]
                  ELSE Ended(p, FALSE) /\ UNCHANGED external
  /\ UNCHANGED <<row, lock, backend, saved, chatMode, fallbackOn, active, pane, history, bounded>>
TimesOut(p) ==
  /\ At(p, "wait")
  /\ IF p = "ctl" THEN external' = TRUE /\ job' = [job EXCEPT ![p] = Rest]
                  ELSE Ended(p, FALSE) /\ UNCHANGED external
  /\ UNCHANGED <<row, lock, backend, saved, chatMode, fallbackOn, active, pane, history, bounded>>

\* (variant) Only the run of the active task settles its row.
SettlesIfActive(p) ==
  /\ At(p, "report") /\ p \in Asks
  /\ LET t == job[p].row  r == IF job[p].ok THEN "completed" ELSE "failed" IN
     row' = IF t \in Rows /\ active.id = p THEN [row EXCEPT ![t] = r] ELSE row
  /\ IF active.id = p THEN active' = NoTask /\ saved' = NoTask ELSE UNCHANGED <<active, saved>>
  /\ job' = [job EXCEPT ![p] = Rest]
  /\ UNCHANGED <<lock, backend, chatMode, fallbackOn, external, pane, history, bounded>>
\* (variant) Only the id of the active task is reset.
SettlesIdOnly(p) ==
  /\ At(p, "report") /\ p \in Asks
  /\ \E r \in (IF job[p].ok THEN {"completed", "failed"} ELSE {"failed"}) :
       row' = IF job[p].row \in Rows THEN [row EXCEPT ![job[p].row] = r] ELSE row
  /\ IF active.id = p THEN active' = [active EXCEPT !.id = None] /\ saved' = NoTask
                     ELSE UNCHANGED <<active, saved>>
  /\ job' = [job EXCEPT ![p] = Rest]
  /\ UNCHANGED <<lock, backend, chatMode, fallbackOn, external, pane, history, bounded>>

\* The finally block: the row whatever it says by now, the active task only
\* if it is still this one.
Settles(p) ==
  /\ At(p, "report") /\ p \in Asks
  /\ \E r \in (IF job[p].ok THEN {"completed", "failed"} ELSE {"failed"}) :
       row' = IF job[p].row \in Rows THEN [row EXCEPT ![job[p].row] = r] ELSE row
  /\ IF active.id = p THEN active' = NoTask /\ saved' = NoTask ELSE UNCHANGED <<active, saved>>
  /\ job' = [job EXCEPT ![p] = Rest]
  /\ UNCHANGED <<lock, backend, chatMode, fallbackOn, external, pane, history, bounded>>

(***************************************************************************)
(* Commands: of the chat (handleTerminalCommand, handleFallbackCommand) and *)
(* of bridgectl (commandTerminal), which knows the daemon's task only by   *)
(* its durable record                                                      *)
(***************************************************************************)
Free(p) == IF p = "chat" THEN active = NoTask ELSE saved = NoTask /\ ~external
Begin(p, pc, verb) == job' = [job EXCEPT ![p] = [Rest EXCEPT !.pc = pc, !.why = verb]]

Command(p, verb) ==
  /\ Idle(p)
  /\ ops < MaxOps /\ ops' = ops + 1 /\ (verb \in {"ask", "ping"} => Left)
  /\ verb \in (IF p = "chat" THEN Commands ELSE Controls)
  /\ UNCHANGED <<row, saved, active, pane, history, opened, faults>>

CommandUse(p) ==
  /\ Command(p, "use") /\ Free(p)
  /\ \E b \in Backends : (b = "iterm2" => UserOwned) /\ backend' = b
  /\ lock' = NoLock
  /\ UNCHANGED <<chatMode, fallbackOn, external, job, used>>
CommandUnlock(p) ==
  /\ Command(p, "unlock") /\ Free(p) /\ lock' = NoLock
  /\ UNCHANGED <<backend, chatMode, fallbackOn, external, job, used>>
\* The chat's lock command does not ask whether a task is active.
CommandLock(p) ==
  /\ Command(p, "lock") /\ (p = "ctl" => Free(p)) /\ Begin(p, "claim", "lock")
  /\ UNCHANGED <<lock, backend, chatMode, fallbackOn, external, used>>
CommandStart(p) ==
  /\ Command(p, "start") /\ Free(p) /\ Begin(p, "start", "start")
  /\ UNCHANGED <<lock, backend, chatMode, fallbackOn, external, used>>
CommandStop(p) ==
  /\ \E verb \in {"stop", "restart"} : Command(p, verb) /\ Begin(p, "stop", verb)
  /\ Free(p)
  /\ UNCHANGED <<lock, backend, chatMode, fallbackOn, external, used>>
CommandPing(p) ==
  /\ Command(p, "ping") /\ Free(p)
  /\ LET a == NextAsk IN
       /\ used' = used \cup {a}
       /\ job' = [job EXCEPT ![p] = [Rest EXCEPT !.pc = "ensure", !.why = "ping", !.ask = a]]
  /\ UNCHANGED <<lock, backend, chatMode, fallbackOn, external>>
\* interrupt and reset
CommandInterrupt(p) ==
  /\ Command(p, "interrupt") /\ Begin(p, "ensure", "interrupt")
  /\ UNCHANGED <<lock, backend, chatMode, fallbackOn, external, used>>
CommandClear(p) ==
  /\ Command(p, "clear") /\ (p = "ctl" => Free(p)) /\ Begin(p, "ensure", "clear")
  /\ UNCHANGED <<lock, backend, chatMode, fallbackOn, external, used>>
\* connect, chat on, and the same asked for in words
CommandConnect ==
  /\ Command("chat", "connect") /\ Free("chat") /\ Begin("chat", "ensure", "connect")
  /\ UNCHANGED <<lock, backend, chatMode, fallbackOn, external, used>>
CommandDisconnect ==
  /\ Command("chat", "disconnect") /\ chatMode' = FALSE
  /\ UNCHANGED <<lock, backend, fallbackOn, external, job, used>>
\* startTerminalAskFromTelegram sends a message before it marks the task.
CommandAsk ==
  /\ Command("chat", "ask") /\ Free("chat") /\ Begin("chat", "place", "ask")
  /\ UNCHANGED <<lock, backend, chatMode, fallbackOn, external, used>>
ControlAsk ==
  /\ Command("ctl", "ask") /\ Free("ctl") /\ external' = TRUE
  /\ LET a == NextAsk IN
       /\ used' = used \cup {a}
       /\ job' = [job EXCEPT !["ctl"] = [Rest EXCEPT !.pc = "ensure", !.why = "ask", !.ask = a]]
  /\ UNCHANGED <<lock, backend, chatMode, fallbackOn>>

\* clearActiveTerminalTask
ClearActive ==
  /\ active' = NoTask
  /\ row' = IF active.row \in Rows THEN [row EXCEPT ![active.row] = "cancelled"] ELSE row

\* What follows the verification, by command.
SendsInterrupt(p) ==
  /\ At(p, "act") /\ job[p].why = "interrupt"
  /\ LET l == job[p].held  q == pane[l.at] IN
     IF q.up /\ q.id = l.pane
     THEN /\ pane' = [pane EXCEPT ![l.at] = Interrupted(q)]
          /\ saved' = NoTask /\ job' = [job EXCEPT ![p] = Rest]
          /\ IF p = "chat" THEN ClearActive /\ UNCHANGED external
             ELSE external' = FALSE /\ UNCHANGED <<active, row>>
     ELSE Ended(p, FALSE) /\ UNCHANGED <<pane, saved, active, row, external>>
  /\ UNCHANGED <<lock, backend, chatMode, fallbackOn, history, bounded>>
SendsClear(p) ==
  /\ At(p, "act") /\ job[p].why = "clear"
  /\ LET l == job[p].held IN
     IF (p = "chat" => Free(p)) /\ CanSubmit(l)
     THEN pane' = [pane EXCEPT ![l.at].shown = {}] ELSE UNCHANGED pane
  /\ Ended(p, TRUE)
  /\ UNCHANGED <<durable, active, history, bounded>>
Connects(p) ==
  /\ At(p, "act") /\ job[p].why = "connect" /\ chatMode' = TRUE /\ Ended(p, TRUE)
  /\ UNCHANGED <<row, lock, backend, saved, fallbackOn, external, active, pane, history, bounded>>
Concludes(p) ==
  /\ At(p, "act") /\ job[p].why \in {"start", "stop", "restart", "lock"} /\ Ended(p, TRUE)
  /\ UNCHANGED <<durable, active, pane, history, bounded>>

\* The end of a command; bridgectl takes the mark of its prompt away, except
\* that of one that timed out, which lapses after a quarter of an hour.
Answers(p) ==
  /\ p \in {"chat", "ctl"} /\ At(p, "report") /\ job' = [job EXCEPT ![p] = Rest]
  /\ external' = IF p = "ctl" /\ job[p].why = "ask" THEN FALSE ELSE external
  /\ UNCHANGED <<row, lock, backend, saved, chatMode, fallbackOn, active, pane, history, bounded>>
MarkLapses ==
  /\ external /\ Idle("ctl") /\ external' = FALSE
  /\ UNCHANGED <<row, lock, backend, saved, chatMode, fallbackOn, active, job, pane, history, bounded>>

\* /fallback: closing the app-server does not settle the turn it was on.
FallbackCloses ==
  /\ At("worker", "fallback") => CloseMidTurn
  /\ job' = IF At("worker", "fallback") THEN [job EXCEPT !["worker"].pc = "hung"] ELSE job
FallbackSwitched ==
  /\ \/ Command("chat", "enable") /\ fallbackOn' = TRUE /\ UNCHANGED job
     \/ Command("chat", "disable") /\ fallbackOn' \in {FALSE, fallbackOn} /\ FallbackCloses
  /\ UNCHANGED <<lock, backend, chatMode, external, used>>

(***************************************************************************)
(* The worker: which lane the oldest pending message takes                 *)
(***************************************************************************)
TaskArrives(t) ==
  /\ row[t] = None /\ \A s \in Rows : s < t => row[s] # None
  /\ row' = [row EXCEPT ![t] = "pending"]
  /\ UNCHANGED <<lock, backend, saved, chatMode, fallbackOn, external, active, job, pane, history, bounded>>

Pending(t) == row[t] = "pending" /\ \A s \in Rows : row[s] = "pending" => t <= s
Marks(t, st) == row' = [row EXCEPT ![t] = st]
Takes(pc, why, t) == job' = [job EXCEPT !["worker"] = [Rest EXCEPT !.pc = pc, !.why = why, !.row = t]]

\* selectTerminalRouteForTask; held: the bound desktop turn holds the queue.
RouteForText(held) == active = NoTask /\ (chatMode \/ held)
ToTerminal(t, held) == t \in AskRows \cup PingRows \/ RouteForText(held)
\* What is held is taken only for a lane that is free of the desktop turn.
BypassesHold(t, held) == held => active = NoTask
ToFallback(t, held) == held /\ t \in ChatRows /\ fallbackOn

\* tryCompleteQueuedTerminalCodexTask: blocked (a call, an approval, a handoff,
\* sleep, another owner), busy, or not allowed there.
TerminalRefuses(t) ==
  /\ Idle("worker") /\ Pending(t)
  /\ \E held \in BOOLEAN : ToTerminal(t, held) /\ BypassesHold(t, held)
  /\ Marks(t, "failed")
  /\ UNCHANGED <<lock, backend, saved, chatMode, fallbackOn, external, active, job, pane, history, bounded>>
TerminalTakes(t) ==
  /\ Idle("worker") /\ Pending(t) /\ active = NoTask /\ Left
  /\ \E held \in BOOLEAN : ToTerminal(t, held)
  /\ Takes("place", IF t \in PingRows THEN "ping" ELSE "ask", t)
  /\ UNCHANGED <<durable, active, pane, history, bounded>>
FallbackTakes(t) ==
  /\ Idle("worker") /\ Pending(t) /\ ToFallback(t, TRUE)
  /\ Takes("fallback", None, t) /\ Marks(t, "processing")
  /\ UNCHANGED <<lock, backend, saved, chatMode, fallbackOn, external, active, pane, history, bounded>>
\* The turn of the bound session, in a step, however it ends.
PrimaryTakes(t) ==
  /\ Idle("worker") /\ Pending(t) /\ ~ToTerminal(t, FALSE)
  /\ Marks(t, "completed")
  /\ UNCHANGED <<lock, backend, saved, chatMode, fallbackOn, external, active, job, pane, history, bounded>>
FallbackEnds ==
  /\ At("worker", "fallback") /\ job' = [job EXCEPT !["worker"] = Rest]
  /\ Marks(job["worker"].row, "completed")
  /\ UNCHANGED <<lock, backend, saved, chatMode, fallbackOn, external, active, pane, history, bounded>>

\* After the notice: the task becomes the active one, whatever is by then.
Run(a, t) == [Rest EXCEPT !.pc = "ensure", !.why = "ask", !.ask = a, !.row = t]
PlacesAsk(p) ==
  /\ At(p, "place") /\ job[p].why = "ask"
  /\ LET a == NextAsk
         t == job[p].row
         next == IF p = "worker" THEN [job[p] EXCEPT !.pc = "run", !.ask = a] ELSE Rest IN
       /\ used' = used \cup {a}
       /\ active' = [id |-> a, row |-> t, sent |-> FALSE] /\ saved' = active'
       /\ job' = [job EXCEPT ![a] = Run(a, t), ![p] = next]
       /\ row' = IF t \in Rows THEN [row EXCEPT ![t] = "processing"] ELSE row
  /\ UNCHANGED <<lock, backend, chatMode, fallbackOn, external, pane, history, opened, ops, faults>>
PlacesPing ==
  /\ At("worker", "place") /\ job["worker"].why = "ping"
  /\ LET a == NextAsk IN
       /\ used' = used \cup {a}
       /\ job' = [job EXCEPT !["worker"].pc = "ensure", !["worker"].ask = a]
  /\ Marks(job["worker"].row, "processing")
  /\ UNCHANGED <<lock, backend, saved, chatMode, fallbackOn, external, active, pane, history,
                 opened, ops, faults>>
PingEnds ==
  /\ At("worker", "report")
  /\ Marks(job["worker"].row, IF job["worker"].ok THEN "completed" ELSE "failed")
  /\ job' = [job EXCEPT !["worker"] = Rest]
  /\ UNCHANGED <<lock, backend, saved, chatMode, fallbackOn, external, active, pane, history, bounded>>
RunEnds ==
  /\ At("worker", "run") /\ Idle(job["worker"].ask)
  /\ job' = [job EXCEPT !["worker"] = Rest]
  /\ UNCHANGED <<durable, active, pane, history, bounded>>

(***************************************************************************)
(* A crash, and what the next process does before it polls: rows in work   *)
(* are pending again, and the terminal task is taken up or given up        *)
(***************************************************************************)
Requeued == [t \in Rows |-> IF row[t] = "processing" THEN "pending" ELSE row[t]]
\* (variant) The row is left to the queue.
LeavesSubmitted ==
  /\ saved' = NoTask /\ active' = NoTask /\ row' = Requeued
  /\ told' = told \cup ({saved.row} \cap Rows)
\* recoverPersistedTerminalTask
GivesUpSubmitted ==
  /\ saved' = NoTask /\ active' = NoTask
  /\ row' = IF saved.row \in Rows THEN [Requeued EXCEPT ![saved.row] = "failed"] ELSE Requeued
  /\ told' = told \cup ({saved.row} \cap Rows)

Rested == [p \in Procs |-> IF p = "ctl" THEN job[p] ELSE Rest]
Restart ==
  /\ Fault
  /\ IF saved.sent
     THEN GivesUpSubmitted /\ job' = Rested
     ELSE /\ row' = Requeued /\ active' = saved /\ UNCHANGED <<saved, told>>
          /\ job' = IF saved = NoTask THEN Rested
                    ELSE [Rested EXCEPT ![saved.id] = Run(saved.id, saved.row)]
  /\ UNCHANGED <<lock, backend, chatMode, fallbackOn, external, pane, mine, adopted, typed, killed,
                 used, opened, ops>>

(***************************************************************************)
(* The specification                                                       *)
(***************************************************************************)
World == ComesUp \/ \E b \in Backends : TurnEnds(b) \/ SessionEnds(b) \/ UserOpens(b)
LaneStep(p) ==
  \/ EnsureLocked(p) \/ EnsureUnlocked(p) \/ Refresh(p) \/ Claim(p)
  \/ StartRefused(p) \/ StartKeeps(p) \/ StartWaits(p) \/ StartOpens(p) \/ Verified(p) \/ NotVerified(p)
  \/ Stops(p) \/ TypesAsk(p) \/ TypesPing(p) \/ Submitted(p) \/ Observes(p) \/ TimesOut(p) \/ Settles(p)
CommandStep(p) ==
  \/ SendsInterrupt(p) \/ SendsClear(p) \/ Connects(p) \/ Concludes(p) \/ Answers(p)
  \/ PlacesAsk(p)
CommandOf(p) ==
  \/ CommandUse(p) \/ CommandUnlock(p) \/ CommandLock(p) \/ CommandStart(p) \/ CommandStop(p)
  \/ CommandPing(p) \/ CommandInterrupt(p) \/ CommandClear(p)
CommandBegins ==
  \/ \E p \in {"chat", "ctl"} : CommandOf(p)
  \/ CommandConnect \/ CommandDisconnect \/ CommandAsk \/ ControlAsk \/ FallbackSwitched
WorkerTakes == \E t \in Rows :
  TerminalRefuses(t) \/ TerminalTakes(t) \/ FallbackTakes(t) \/ PrimaryTakes(t)
WorkerEnds == FallbackEnds \/ PlacesPing \/ PingEnds \/ RunEnds
Works(p) == LaneStep(p) \/ CommandStep(p)
Next ==
  \/ World \/ CommandBegins \/ MarkLapses \/ Restart \/ WorkerTakes \/ WorkerEnds
  \/ \E t \in Rows : TaskArrives(t)
  \/ \E p \in Procs : Works(p)

Spec == Init /\ [][Next]_vars
\* The daemon's own steps: every wait has a deadline.
Fairness ==
  /\ \A p \in Procs : WF_vars(Works(p))
  /\ WF_vars(WorkerTakes) /\ WF_vars(WorkerEnds)
FairSpec == Spec /\ Fairness

(***************************************************************************)
TypeOK ==
  /\ row \in [Rows -> {None, "pending", "processing", "completed", "failed", "cancelled"}]
  /\ lock \in Locks /\ backend \in Backends /\ {saved, active} \subseteq Tasks \cup {NoTask}
  /\ {chatMode, fallbackOn, external} \subseteq BOOLEAN
  /\ \A p \in Procs : /\ job[p].pc \in Pcs /\ job[p].why \in Verbs \cup {None}
                      /\ job[p].held \in Locks /\ job[p].row \in Rows \cup {0}
                      /\ job[p].ask \in Asks \cup {None} /\ job[p].ok \in BOOLEAN
  /\ \A b \in Backends : /\ pane[b].id \in Ids /\ pane[b].nonce \in {0, pane[b].id}
                         /\ pane[b].turns \in Seq(Asks) /\ pane[b].shown \subseteq Asks
  /\ told \subseteq Rows /\ used \subseteq Asks

\* The bridge types only into a session it opened or was told to lock, and ends
\* only a session it opened: every other one is the user's.
LeavesOthersAlone == killed \subseteq mine /\ typed \subseteq mine \cup adopted

\* A message in work is some process's work.
ProcessingIsWork ==
  \A t \in Rows : row[t] = "processing" => \E p \in Procs : job[p].row = t

\* A prompt the chat was told is not replayed stays as it was left.
ToldIsFinal == [][\A t \in told : row'[t] = row[t]]_vars

\* The worker never stays with a message for good.
WorkerMovesOn == []<>Idle("worker")
=============================================================================
