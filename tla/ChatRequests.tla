---------------------------- MODULE ChatRequests ----------------------------
(***************************************************************************)
(* What the operator is asked in the chat and what the operator sends: the *)
(* requests of the app-server that the daemon relays (approvals, questions *)
(* and tool calls), the rows and the maps that remember them, and the loop *)
(* that polls Telegram, claims the updates that have effects, and turns    *)
(* them into answers, commands and queued tasks.                           *)
(*                                                                         *)
(* An action is the code between two awaits.  Telegram keeps every update  *)
(* until a poll asks for a later one, so the updates are a sequence and    *)
(* the loop a position in it.  The worker and the app-server appear only   *)
(* as far as they decide whether a turn is there to ask and to be answered.*)
(***************************************************************************)
EXTENDS Integers, Sequences, FiniteSets, SequencesExt

CONSTANTS
  Lanes,        \* the lanes whose backends are in use
  MaxAsks,      \* bound on requests of the app-server
  MaxTurns,     \* bound on turns
  MaxExtra,     \* bound on updates other than the first answer to a prompt
  MaxSendFails, \* bound on Telegram calls that fail
  MaxLosses,    \* bound on app-servers lost
  MaxCrashes,   \* bound on crashes of the daemon
  EarlyAnswers, \* may an answer arrive before sendMessage has returned?
  IdsRestart    \* does an app-server number its requests from the start?

ASSUME RequestsAssumption ==
  /\ "primary" \in Lanes /\ Lanes \subseteq {"primary", "fallback"}
  /\ {MaxAsks, MaxTurns, MaxExtra, MaxSendFails, MaxLosses, MaxCrashes} \subseteq Nat
  /\ {EarlyAnswers, IdsRestart} \subseteq BOOLEAN

None  == "none"
Asks  == 1..MaxAsks
Kinds == {"approval", "permissions", "input", "tool"}
Approvals  == {"approval", "permissions"}
Updates    == 1..(MaxAsks + MaxExtra)
\* What an update is: a tap on a button of prompt `ask`, a text (perhaps a
\* reply to prompt `ask`; `plain` ones do not parse as an answer), the command
\* /interrupt, or a message with media.
Update == [kind : {"tap", "cancel", "text", "interrupt", "media"},
           ask : 0..MaxAsks, plain : BOOLEAN]
Effects == {"task", "answer", "command"}
Idle == [pc |-> None, ask |-> 0]
Await(pc, n) == [pc |-> pc, ask |-> n]

VARIABLES
  turn,    \* what runs a turn on each lane: a task, a call handoff or nothing
  active,  \* activeTask: the lane of the task the worker runs
  cut,     \* lanes whose turn was asked to stop
  link,    \* lanes whose app-server is connected
  nextId,  \* the next request id of each lane's app-server
  asked,   \* every request so far: its lane, its id, its kind
  open,    \* the requests the app-servers still wait for
  asks,    \* pendingApprovalRequests and pendingUserInputRequests
  sending, \* requests whose handler awaits: a tool, or the sendMessage of a prompt
  shown,   \* prompts in the chat, oldest first
  row,     \* durable: pending_approvals and pending_user_input_diagnostics
  inbox,   \* the updates Telegram has, in order of their ids
  claim,   \* durable: processed_telegram_updates
  offset,  \* the update that is polled for next
  saved,   \* durable: telegram:last_update_id
  queued,  \* durable: the updates that have a row in message_queue
  poll,    \* what the handler of the update under way awaits, and its request
  done,    \* history: how often each update had each effect
  got,     \* history: the prompts that the answers each request was given were meant for
  stopped, \* history: updates whose handling a crash cut short
  turns, extra, sendFails, losses, crashes  \* bounded by the constants

codex   == <<turn, active, cut, link, nextId, open>>
prompts == <<asked, asks, sending, shown, row>>
polling == <<claim, offset, saved, queued, poll>>
history == <<done, got, stopped>>
budget  == <<turns, extra, sendFails, losses, crashes>>
vars    == <<codex, prompts, inbox, polling, history, budget>>

Init ==
  /\ turn = [l \in Lanes |-> None] /\ active = None /\ cut = {} /\ link = Lanes
  /\ nextId = [l \in Lanes |-> 0] /\ asked = <<>> /\ open = {} /\ asks = {}
  /\ sending = [n \in {} |-> None] /\ shown = <<>> /\ row = [n \in Asks |-> None]
  /\ inbox = <<>> /\ claim = [i \in Updates |-> None] /\ offset = 1 /\ saved = 0
  /\ queued = {} /\ poll = Idle
  /\ done = [i \in Updates |-> [e \in Effects |-> 0]]
  /\ got = [n \in Asks |-> {}] /\ stopped = {}
  /\ turns = 0 /\ extra = 0 /\ sendFails = 0 /\ losses = 0 /\ crashes = 0

Shown == ToSet(shown)
IsApproval(n) == asked[n].kind \in Approvals
InputAsks == {n \in asks : asked[n].kind = "input"}
Without(f, n) == [m \in DOMAIN f \ {n} |-> f[m]]
With(f, n, v) == [m \in DOMAIN f \cup {n} |-> IF m = n THEN v ELSE f[m]]

(***************************************************************************)
(* The worker and the app-servers                                          *)
(***************************************************************************)
\* The worker sets activeTask and starts a turn on the lane it chose.
StartTask(l) ==
  /\ turns < MaxTurns /\ active = None /\ l \in link /\ turn[l] = None
  /\ active' = l /\ turn' = [turn EXCEPT ![l] = "task"]
  /\ turns' = turns + 1
  /\ UNCHANGED <<cut, link, nextId, open, prompts, inbox, polling, history, extra,
                 sendFails, losses, crashes>>

\* The finally block of processTask, after the texts and files were sent.
TaskSettles ==
  /\ active # None /\ turn[active] # "task"
  /\ active' = None
  /\ UNCHANGED <<turn, cut, link, nextId, open, prompts, inbox, polling, history, budget>>

\* appendCallArtifactToCodex runs a turn while there is no activeTask.
StartHandoff ==
  /\ turns < MaxTurns /\ active = None
  /\ "primary" \in link /\ turn["primary"] = None
  /\ ~\E n \in Asks : row[n] = "pending" /\ IsApproval(n)
  /\ turn' = [turn EXCEPT !["primary"] = "handoff"]
  /\ turns' = turns + 1
  /\ UNCHANGED <<active, cut, link, nextId, open, prompts, inbox, polling, history, extra,
                 sendFails, losses, crashes>>

OfLane(l) == {n \in open : asked[n].lane = l}

\* A turn ends when nothing it asked is open, or when it was told to stop.
TurnEnds(l) ==
  /\ turn[l] # None /\ (OfLane(l) = {} \/ l \in cut)
  /\ turn' = [turn EXCEPT ![l] = None]
  /\ cut' = cut \ {l} /\ open' = open \ OfLane(l)
  /\ UNCHANGED <<active, link, nextId, prompts, inbox, polling, history, budget>>

\* The app-server of a lane goes away; recovery loads another one.
LoseServer(l) ==
  /\ losses < MaxLosses /\ l \in link
  /\ link' = link \ {l} /\ turn' = [turn EXCEPT ![l] = None]
  /\ cut' = cut \ {l} /\ open' = open \ OfLane(l)
  /\ nextId' = IF IdsRestart THEN [nextId EXCEPT ![l] = 0] ELSE nextId
  /\ losses' = losses + 1
  /\ UNCHANGED <<active, prompts, inbox, polling, history, turns, extra, sendFails, crashes>>

RestoreServer(l) ==
  /\ l \notin link
  /\ link' = link \cup {l}
  /\ UNCHANGED <<turn, active, cut, nextId, open, prompts, inbox, polling, history, budget>>

\* interruptActiveTurn of the lane's backend: nothing without a pending turn.
Interrupted(l) == IF turn[l] # None THEN cut \cup {l} ELSE cut

\* (variant) The id goes back as the text that the row holds.
AddressedAsText(n) == {}

\* (variant) The app-servers of both lanes get it.
AddressedOnAnyLane(n) == {m \in open : asked[m].id = asked[n].id}

\* respondToServerRequest and rejectServerRequest: the answer goes to the lane's
\* present app-server, which knows the request by its id alone.
Addressed(n) == {m \in OfLane(asked[n].lane) : asked[m].id = asked[n].id}

(***************************************************************************)
(* Requests of the app-server                                              *)
(***************************************************************************)
MayAsk(l) == turn[l] # None /\ l \notin cut /\ nextId[l] < MaxAsks

\* handleServerRequest up to its first await: a tool runs, whoever has the turn, and
\* a prompt is sent for the active task.  Only an approval is remembered before that.
HandleServerRequest(l, kind) ==
  LET n == Len(asked) + 1
  IN /\ MayAsk(l) /\ n \in Asks /\ (kind = "tool" \/ active = l)
     /\ asked' = Append(asked, [lane |-> l, id |-> nextId[l], kind |-> kind])
     /\ nextId' = [nextId EXCEPT ![l] = @ + 1]
     /\ open' = open \cup {n} /\ sending' = With(sending, n, kind)
     /\ asks' = IF kind \in Approvals THEN asks \cup {n} ELSE asks
     /\ UNCHANGED <<turn, active, cut, link, shown, row, inbox, polling, history, budget>>

\* It is refused at once: no active task of the lane, a question without questions,
\* or a request of no supported kind.
RefuseServerRequest(l) ==
  /\ MayAsk(l)
  /\ nextId' = [nextId EXCEPT ![l] = @ + 1]
  /\ UNCHANGED <<turn, active, cut, link, open, prompts, inbox, polling, history, budget>>

\* The rest of handleDynamicToolCall: what was inspected, or why it could not be.
AnswerToolCall(n) ==
  /\ n \in DOMAIN sending /\ sending[n] = "tool"
  /\ sending' = Without(sending, n)
  /\ IF asked[n].lane \in link
     THEN /\ open' = open \ Addressed(n)
          /\ got' = [m \in Asks |-> IF m \in Addressed(n) THEN got[m] \cup {n} ELSE got[m]]
     ELSE UNCHANGED <<open, got>>
  /\ UNCHANGED <<turn, active, cut, link, nextId, asked, asks, shown, row, inbox, polling,
                 done, stopped, budget>>

\* The prompt is in the chat; sendMessage has not returned yet.
PromptShown(n) ==
  /\ n \in DOMAIN sending /\ sending[n] \in Approvals \cup {"input"}
  /\ sending' = [sending EXCEPT ![n] = "shown"]
  /\ shown' = Append(shown, n)
  /\ UNCHANGED <<codex, asked, asks, row, inbox, polling, history, budget>>

\* handleServerRequest or handleUserInputRequest after sendMessage.  The latter
\* reads the chat from activeTask!, and fails when the task has settled.
RegisterPrompt(n) ==
  /\ n \in DOMAIN sending /\ sending[n] = "shown"
  /\ sending' = Without(sending, n)
  /\ IF IsApproval(n)
     THEN row' = [row EXCEPT ![n] = "pending"] /\ UNCHANGED asks
     ELSE IF active # None
     THEN row' = [row EXCEPT ![n] = "pending"] /\ asks' = asks \cup {n}
     ELSE UNCHANGED <<row, asks>>
  /\ UNCHANGED <<codex, asked, shown, inbox, polling, history, budget>>

\* sendMessage fails, before or after the prompt is in the chat: only logged.
PromptFails(n) ==
  /\ sendFails < MaxSendFails /\ n \in DOMAIN sending /\ sending[n] # "tool"
  /\ sending' = Without(sending, n) /\ sendFails' = sendFails + 1
  /\ UNCHANGED <<codex, asked, asks, shown, row, inbox, polling, history, turns, extra,
                 losses, crashes>>

(***************************************************************************)
(* The operator                                                            *)
(***************************************************************************)
CanAnswer(n) == n \in Shown /\ (EarlyAnswers \/ n \notin DOMAIN sending)
AnswersTo(n) == IF asked[n].kind = "input" THEN {"text"}
                ELSE IF asked[n].kind = "permissions" THEN {"tap", "cancel"} ELSE {"tap"}

\* The first answer to a prompt.
AnswerPrompt(n) ==
  /\ CanAnswer(n) /\ ~\E i \in DOMAIN inbox : inbox[i].ask = n
  /\ \E kind \in AnswersTo(n) :
       inbox' = Append(inbox, [kind |-> kind, ask |-> n, plain |-> FALSE])
  /\ UNCHANGED <<codex, prompts, polling, history, budget>>

\* Anything else: another answer, a text that answers nothing, a command.
SendOther ==
  /\ extra < MaxExtra
  /\ \/ \E n \in Shown, plain \in BOOLEAN :
          /\ CanAnswer(n) /\ \E i \in DOMAIN inbox : inbox[i].ask = n
          /\ \E kind \in AnswersTo(n) :
               /\ plain => kind = "text"
               /\ inbox' = Append(inbox, [kind |-> kind, ask |-> n, plain |-> plain])
     \/ \E kind \in {"text", "interrupt", "media"}, plain \in BOOLEAN :
          /\ plain => kind = "text"
          /\ inbox' = Append(inbox, [kind |-> kind, ask |-> 0, plain |-> plain])
  /\ extra' = extra + 1
  /\ UNCHANGED <<codex, prompts, polling, history, turns, sendFails, losses, crashes>>

\* (variant) The latest question, whichever was replied to.
FindLatestUserInput(u) ==
  CHOOSE n \in InputAsks :
    \A m \in InputAsks : SelectLastInSeq(shown, LAMBDA x : x = m)
                           <= SelectLastInSeq(shown, LAMBDA x : x = n)

(***************************************************************************)
(* The poll loop.  poll is Idle between updates, and else what the handler *)
(* of update `offset` awaits.                                              *)
(***************************************************************************)
\* findPendingUserInputRequest: the question replied to, or else the latest.
FindPendingUserInput(u) ==
  IF u.ask \in InputAsks THEN u.ask
  ELSE CHOOSE n \in InputAsks :
         \A m \in InputAsks : SelectLastInSeq(shown, LAMBDA x : x = m)
                                <= SelectLastInSeq(shown, LAMBDA x : x = n)

\* sideEffectfulTextUpdateCategory, and the claim of every callback.
HasEffects(u) == \/ u.kind \in {"tap", "cancel", "interrupt"}
                 \/ u.kind = "text" /\ InputAsks # {}

\* (variant) The row is inserted or replaced.
AlwaysClaims(i) == TRUE

\* claimProcessedTelegramUpdate: the row is inserted once.
CanClaim(i) == claim[i] = None

\* (variant) update_id + 1 is saved, and 1 is added again.
PassOverTwo == offset' = offset + 2 /\ saved' = offset

\* The loop goes on with the next update and saves where it is.
PassOver == offset' = offset + 1 /\ saved' = offset

Count(i, e) == done' = [done EXCEPT ![i][e] = IF @ < 2 THEN @ + 1 ELSE @]

\* (variant) A duplicate is an error, and so is polled for again.
RefuseDuplicate ==
  /\ poll = Idle /\ offset \in DOMAIN inbox
  /\ HasEffects(inbox[offset]) /\ ~CanClaim(offset)
  /\ UNCHANGED vars

\* An update that was claimed before is passed over.
IgnoreDuplicate ==
  /\ poll = Idle /\ offset \in DOMAIN inbox
  /\ HasEffects(inbox[offset]) /\ ~CanClaim(offset)
  /\ PassOver
  /\ UNCHANGED <<codex, prompts, inbox, claim, queued, poll, history, budget>>

Claimed(i) ==
  /\ poll = Idle /\ i \in DOMAIN inbox /\ i = offset
  /\ HasEffects(inbox[i]) /\ CanClaim(i)
  /\ claim' = [claim EXCEPT ![i] = "processing"]

\* (variant) Only the map forgets the request.
SettleMapOnly(n, status) == asks' = asks \ {n} /\ row' = row

\* Request n is settled in the map; its row, if there is one, becomes `status`.
Settle(n, status) ==
  /\ asks' = asks \ {n}
  /\ row' = IF row[n] = None THEN row ELSE [row EXCEPT ![n] = status]

\* The answer of prompt n reaches the app-server.  `prompt` is the one it was meant for.
Answered(i, n, prompt) ==
  /\ open' = open \ Addressed(n)
  /\ got' = [m \in Asks |-> IF m \in Addressed(n) THEN got[m] \cup {prompt} ELSE got[m]]
  /\ Count(i, "answer")

\* resolveApproval: a button of a prompt that is not pending any more.
TapTooLate(i) ==
  LET u == inbox[i]
  IN /\ Claimed(i) /\ u.kind \in {"tap", "cancel"} /\ u.ask \notin asks
     /\ poll' = Await("answerCallback", u.ask)
     /\ UNCHANGED <<codex, prompts, inbox, offset, saved, queued, history, budget>>

\* ... a button that is answered; "cancel" also waits for the interrupt.
TapAnswers(i) ==
  LET u == inbox[i]
  IN /\ Claimed(i) /\ u.kind \in {"tap", "cancel"} /\ u.ask \in asks
     /\ asked[u.ask].lane \in link
     /\ Answered(i, u.ask, u.ask)
     /\ IF u.kind = "cancel"
        THEN /\ cut' = Interrupted(asked[u.ask].lane) /\ poll' = Await("interrupt", u.ask)
             /\ UNCHANGED <<asks, row>>
        ELSE Settle(u.ask, "resolved") /\ poll' = Await("answerCallback", u.ask) /\ UNCHANGED cut
     /\ UNCHANGED <<turn, active, link, nextId, asked, sending, shown, inbox, offset, saved, queued,
                    stopped, budget>>

\* ... or a button that cannot be: the request expires and the turn is stopped.
TapFails(i) ==
  LET u == inbox[i]
  IN /\ Claimed(i) /\ u.kind \in {"tap", "cancel"} /\ u.ask \in asks
     /\ asked[u.ask].lane \notin link
     /\ Settle(u.ask, "expired") /\ poll' = Await("answerCallback", u.ask)
     /\ UNCHANGED <<codex, asked, sending, shown, inbox, offset, saved, queued, history, budget>>

\* turn/interrupt has returned, or failed.
InterruptReturns ==
  /\ poll.pc = "interrupt"
  /\ \E status \in {"resolved", "expired"} : Settle(poll.ask, status)
  /\ poll' = [poll EXCEPT !.pc = "answerCallback"]
  /\ UNCHANGED <<codex, asked, sending, shown, inbox, claim, offset, saved, queued, history,
                 budget>>

\* resolvePendingUserInput: a text that answers the question, or does not parse,
\* or cannot be sent.  The question stays pending in the last two.  A reply is meant
\* for the prompt it replies to, even when that is settled and another question gets it.
TextAnswers(i) ==
  LET u == inbox[i]
      n == FindPendingUserInput(u)
  IN /\ Claimed(i) /\ u.kind = "text" /\ ~u.plain /\ asked[n].lane \in link
     /\ Answered(i, n, IF u.ask = 0 THEN n ELSE u.ask)
     /\ Settle(n, "resolved") /\ poll' = Await("confirm", n)
     /\ UNCHANGED <<turn, active, cut, link, nextId, asked, sending, shown, inbox, offset,
                    saved, queued, stopped, budget>>

TextDoesNotParse(i) ==
  /\ Claimed(i) /\ inbox[i].kind = "text" /\ inbox[i].plain
  /\ poll' = Await("reply", 0)
  /\ UNCHANGED <<codex, prompts, inbox, offset, saved, queued, history, budget>>

TextFails(i) ==
  LET n == FindPendingUserInput(inbox[i])
  IN /\ Claimed(i) /\ inbox[i].kind = "text" /\ ~inbox[i].plain
     /\ asked[n].lane \notin link
     /\ row' = [row EXCEPT ![n] = "failed"] /\ poll' = Await("reply", 0)
     /\ UNCHANGED <<codex, asked, asks, sending, shown, inbox, offset, saved, queued, history, budget>>

\* handleCommand; the one command here is /interrupt.
Command(i) ==
  /\ Claimed(i) /\ inbox[i].kind = "interrupt"
  /\ Count(i, "command") /\ cut' = Interrupted("primary")
  /\ poll' = Await("reply", 0)
  /\ UNCHANGED <<turn, active, link, nextId, open, prompts, inbox, offset, saved, queued, got,
                 stopped, budget>>

\* enqueueTask: update_id is unique, and a second insertion is passed over.
Enqueue(i) ==
  /\ poll = Idle /\ i \in DOMAIN inbox /\ i = offset /\ ~HasEffects(inbox[i])
  /\ IF i \in queued
     THEN PassOver /\ UNCHANGED <<queued, poll, done>>
     ELSE /\ queued' = queued \cup {i} /\ Count(i, "task")
          /\ poll' = Await("placeholder", 0) /\ UNCHANGED <<offset, saved>>
  /\ UNCHANGED <<codex, prompts, inbox, claim, got, stopped, budget>>

\* completeProcessedTelegramUpdate and failProcessedTelegramUpdate.
EndClaim(status) == claim' = [claim EXCEPT ![offset] = status]

\* The awaited Telegram call returns: the handling is complete.  After the note
\* on a command that failed, the claim stays failed.
CallReturns ==
  /\ poll.pc \in {"answerCallback", "reply", "confirm", "placeholder", "apology"}
  /\ poll' = Idle /\ PassOver
  /\ IF poll.pc \in {"answerCallback", "reply", "confirm"}
     THEN EndClaim("completed") ELSE UNCHANGED claim
  /\ UNCHANGED <<codex, prompts, inbox, queued, history, budget>>

\* It fails.  A failed confirmation is taken for an answer that failed; a callback,
\* a placeholder and an apology end the batch, and the update is polled for again.
CallFails ==
  /\ sendFails < MaxSendFails /\ sendFails' = sendFails + 1
  /\ \/ /\ poll.pc = "confirm"
        /\ row' = [row EXCEPT ![poll.ask] = "failed"]
        /\ poll' = Await("reply", 0) /\ UNCHANGED claim
     \/ /\ poll.pc \in {"reply", "answerCallback"}
        /\ EndClaim("failed")
        /\ poll' = IF poll.pc = "reply" THEN Await("apology", 0) ELSE Idle
        /\ UNCHANGED row
     \/ /\ poll.pc \in {"apology", "placeholder"}
        /\ poll' = Idle /\ UNCHANGED <<claim, row>>
  /\ UNCHANGED <<codex, asked, asks, sending, shown, inbox, offset, saved, queued, history,
                 turns, extra, losses, crashes>>

\* Where pollLoop starts.
FirstOffset == saved + 1

(***************************************************************************)
(* Crash and restart                                                       *)
(***************************************************************************)
\* The maps, the handlers and the sessions are gone.  The next daemon expires the
\* rows it finds (recoverInterruptedWork, recoverPendingUserInputDiagnostics), and
\* polls from the update after the one saved last.
Crash ==
  /\ crashes < MaxCrashes /\ crashes' = crashes + 1
  /\ turn' = [l \in Lanes |-> None] /\ active' = None /\ cut' = {} /\ link' = Lanes
  /\ open' = {} /\ asks' = {} /\ sending' = [n \in {} |-> None]
  /\ nextId' = IF IdsRestart THEN [l \in Lanes |-> 0] ELSE nextId
  /\ row' = [n \in Asks |-> IF row[n] # "pending" THEN row[n]
                            ELSE IF IsApproval(n) THEN "expired" ELSE "recovered_failed"]
  /\ poll' = Idle /\ offset' = FirstOffset
  /\ stopped' = IF poll = Idle THEN stopped ELSE stopped \cup {offset}
  /\ UNCHANGED <<asked, shown, inbox, claim, saved, queued, done, got, turns, extra,
                 sendFails, losses>>

HandleUpdate ==
  \/ IgnoreDuplicate \/ CallReturns \/ InterruptReturns
  \/ \E i \in Updates : \/ TapTooLate(i) \/ TapAnswers(i) \/ TapFails(i)
                        \/ TextAnswers(i) \/ TextDoesNotParse(i) \/ TextFails(i)
                        \/ Command(i) \/ Enqueue(i)

Daemon ==
  \/ HandleUpdate
  \/ \E l \in Lanes : StartTask(l)
  \/ TaskSettles \/ StartHandoff
  \/ \E n \in Asks : AnswerToolCall(n) \/ RegisterPrompt(n)

Next ==
  \/ Daemon \/ CallFails \/ Crash \/ SendOther
  \/ \E l \in Lanes : TurnEnds(l) \/ LoseServer(l) \/ RestoreServer(l)
  \/ \E l \in Lanes : \/ RefuseServerRequest(l)
                      \/ \E kind \in Kinds : HandleServerRequest(l, kind)
  \/ \E n \in Asks : PromptShown(n) \/ PromptFails(n) \/ AnswerPrompt(n)

Spec == Init /\ [][Next]_vars

\* The event loop runs what is ready, Telegram answers, and the operator answers
\* each prompt once.
Fairness ==
  /\ WF_vars(HandleUpdate)
  /\ \A n \in Asks : /\ WF_vars(PromptShown(n)) /\ WF_vars(RegisterPrompt(n))
                     /\ WF_vars(AnswerPrompt(n))

FairSpec == Spec /\ Fairness

-----------------------------------------------------------------------------
(***************************************************************************)
(* Properties                                                              *)
(***************************************************************************)
TypeOK ==
  /\ turn \in [Lanes -> {None, "task", "handoff"}] /\ active \in Lanes \cup {None}
  /\ cut \subseteq Lanes /\ link \subseteq Lanes /\ nextId \in [Lanes -> 0..MaxAsks]
  /\ asked \in Seq([lane : Lanes, id : 0..MaxAsks, kind : Kinds]) /\ Len(asked) <= MaxAsks
  /\ {open, asks} \subseteq SUBSET (1..Len(asked))
  /\ DOMAIN sending \subseteq 1..Len(asked)
  /\ \A n \in DOMAIN sending : sending[n] \in {asked[n].kind, "shown"}
  /\ shown \in Seq(1..Len(asked))
  /\ row \in [Asks -> {None, "pending", "resolved", "expired", "failed", "recovered_failed"}]
  /\ inbox \in Seq(Update) /\ offset \in 1..(Len(inbox) + 1) /\ saved \in 0..Len(inbox)
  /\ claim \in [Updates -> {None, "processing", "completed", "failed"}]
  /\ queued \subseteq DOMAIN inbox
  /\ poll.pc # None => offset \in DOMAIN inbox

\* A command or a tap takes effect at most once, and a text is queued at most once
\* and answers at most once, whatever fails, crashes and is delivered again.
ActsOnce ==
  \A i \in DOMAIN inbox : \A e \in Effects : done[i][e] <= 1

\* A request is given what was meant for its own prompt.  It is given what was meant
\* for another one only when both are questions, it is pending, and the other is not:
\* no answer to a pending prompt goes astray, and none reaches an approval or a tool.
AnswerIsItsOwn ==
  [][\A n \in Asks : \A p \in got'[n] \ got[n] :
       \/ p = n
       \/ asked[p].kind = "input" /\ p \notin InputAsks /\ n \in InputAsks]_vars

\* The prompt of a question says "Reply to this message with your answer.":
\* a reply to a prompt is an answer to that prompt or to none.  The code does not keep
\* this, since a reply that finds no question is taken for the latest one.
ReplyStaysWithItsPrompt == \A n \in Asks : got[n] \subseteq {n}

\* A row that is pending, and so holds up calls, handoffs and changes of mode, has
\* its request in the map: an answer of the operator can settle it.
RowIsResolvable == \A n \in Asks : row[n] = "pending" => n \in asks

\* A request whose prompt is in the chat and remembered does not stay open.
AskIsAnswered ==
  \A n \in Asks : (n \in asks /\ n \in Shown /\ n \in open) ~> n \notin open

\* Every update is got past.
PollMovesOn == \A i \in Updates : i \in DOMAIN inbox ~> saved >= i
=============================================================================
