--------------------------- MODULE CallLifecycle ---------------------------
(***************************************************************************)
(* The bridge daemon's side of one live call: the call record, the call's  *)
(* files, the Telegram items captured during the call, the finalization    *)
(* that turns them into a handoff, and the append of that handoff to the   *)
(* Codex thread, at once or later from the queue of pending handoffs.      *)
(*                                                                         *)
(* Four activities interleave at their awaits: the chain that handles the  *)
(* gateway's messages one after the other, the Telegram poll loop, the     *)
(* queue worker, and the append turn that outlives whoever stopped waiting *)
(* for it.  finalizeCall runs inside the first two, or at start-up.        *)
(***************************************************************************)
EXTENDS CallChannel, FiniteSets

CONSTANTS
  Items,         \* Telegram items sent during the call
  MaxCrashes,    \* bound on crashes of the daemon
  EarlyHangup,   \* the user may hang up before the call is active
  ContextFails,  \* building the context pack may fail or time out
  StageStalls,   \* staging an item may outlast a finalization's wait for it
  AppendSlow     \* the append may fail, or outlast the wait for it

ASSUME CallAssumption ==
  /\ IsFiniteSet(Items)
  /\ MaxCrashes \in Nat
  /\ {EarlyHangup, ContextFails, StageStalls, AppendSlow} \subseteq BOOLEAN

Call    == [status : {"none", "starting", "active", "finalizing", "ended"}, appended : BOOLEAN]
NoCall  == [status |-> "none", appended |-> FALSE]
Content == [items : SUBSET Items, spoken : BOOLEAN]
Nothing == [items |-> {}, spoken |-> FALSE]
NoItem  == "no item"

VARIABLES
  call,       \* durable: the active call record of the settings table
  file,       \* durable: the status in the call's state.json
  ledger,     \* durable: its attachments, and whether its transcript holds anything
  inbox,      \* durable: the call_inbox rows
  handoff,    \* durable: what handoff.json holds
  claim,      \* durable: the call_handoff_appends row; "stale": in progress for 5 minutes
  pending,    \* durable: the handoff is in bridge:pending_call_handoffs
  usage,      \* durable: how often the call is counted for its day, and the mark of it
  chainPc,    \* where the handler of the gateway's messages is
  chainCall,  \* the call record it read before its await
  chainEvent, \* the event it appends
  pollPc,     \* where the handler of a Telegram update is
  item,       \* what became of each Telegram item
  finPc,      \* where finalizeCall is
  finCall,    \* its currentCall
  finBy,      \* who runs it
  flushing,   \* the worker waits for the append of the pending handoff
  append,     \* the append promise: "none", "sync" (before turn/start) or "turn"
  busy,       \* a task, an approval, another owner or a desktop turn has the session
  crashes,
  appends,    \* history: handoff turns Codex accepted
  cleared     \* history: a finalization ran to its end

files    == <<file, ledger, handoff>>
database == <<call, inbox, claim, pending, usage>>
chain    == <<chainPc, chainCall, chainEvent>>
poll     == <<pollPc, item>>
fin      == <<finPc, finCall, finBy>>
worker   == <<flushing, append, busy>>
past     == <<crashes, appends, cleared>>
bridge   == <<files, database, up, chain, poll, fin, worker, past>>

CallTypeOK ==
  /\ call \in Call /\ chainCall \in Call /\ finCall \in Call
  /\ file \in {"none", "starting", "active", "ended"}
  /\ ledger \in Content /\ handoff \in Content
  /\ inbox \subseteq Items
  /\ claim \in {"none", "in_progress", "stale", "appended", "failed"}
  /\ pending \in BOOLEAN /\ flushing \in BOOLEAN /\ busy \in BOOLEAN
  /\ usage \in [count : Nat, marked : BOOLEAN]
  /\ chainPc \in {"idle", "ready", "context", "pack", "event", "finalize"}
  /\ chainEvent \in CallEvent
  /\ pollPc \in {"idle", "staging", "attaching", "hangup"}
  /\ item \in [Items -> {"unsent", "staging", "captured", "refused"}]
  /\ finPc \in {"none", "stages", "store", "listing", "summarize", "handoff", "waiting", "recap"}
  /\ finBy \in {"nobody", "chain", "poll", "start"}
  /\ append \in {"none", "sync", "turn"}
  /\ crashes \in 0..MaxCrashes /\ appends \in Nat /\ cleared \in BOOLEAN

CallInit ==
  /\ call = NoCall /\ chainCall = NoCall /\ finCall = NoCall
  /\ file = "none" /\ ledger = Nothing /\ handoff = Nothing
  /\ inbox = {} /\ claim = "none" /\ pending = FALSE
  /\ usage = [count |-> 0, marked |-> FALSE]
  /\ chainPc = "idle" /\ chainEvent = "ended"
  /\ pollPc = "idle" /\ item = [i \in Items |-> "unsent"]
  /\ finPc = "none" /\ finBy = "nobody"
  /\ flushing = FALSE /\ append = "none" /\ busy = FALSE
  /\ crashes = 0 /\ appends = 0 /\ cleared = FALSE

----------------------------------------------------------------------------
(* Helpers.                                                                *)

Live(c) == c.status \in {"starting", "active"}

\* A recap that was sent is recorded and the record cleared in one go, so a record
\* that is there always needs finalization.
NeedsFinalization(c) == c.status # "none"

\* Start-up finalizes an interrupted call before the worker and the poll loop start.
Booting == finBy = "start"

\* CallStore runs the mutations of a call one after the other; of those, only that of
\* finalize spans more than one step.
Locked == finPc \in {"listing", "summarize"}

\* updateActiveCallIfCurrent
UpdateIfCurrent(c) == call' = IF call = NoCall THEN call ELSE c

\* The entry of finalizeCall, for whoever has read the record c: a second finalization
\* of the call returns at once.  Its first steps run without an await.
Finalize(c, who) ==
  /\ NeedsFinalization(c)
  /\ finPc = "none"
  /\ call' = [c EXCEPT !.status = "finalizing"]
  /\ finCall' = call'
  /\ finBy' = who
  /\ finPc' = "stages"

\* Whoever ran finalizeCall goes on.
EndFinalize ==
  /\ finPc' = "none" /\ finBy' = "nobody" /\ finCall' = NoCall
  /\ chainPc' = IF finBy = "chain" THEN "idle" ELSE chainPc
  /\ pollPc' = IF finBy = "poll" THEN "idle" ELSE pollPc

----------------------------------------------------------------------------
(* The chain of the gateway's messages.                                    *)

ChainIdle == up /\ chainPc = "idle"

TakePrepare ==
  /\ ChainIdle
  /\ BridgeTakes("prepare")
  /\ chainPc' = "ready"
  /\ UNCHANGED <<toGateway, gatewayLog, files, database, up, chainCall, chainEvent, poll, fin, worker, past>>

\* requireReadyForCallStart or the day's budget stands in the way.
RefuseCall ==
  /\ chainPc = "ready"
  /\ chainPc' = "idle"
  /\ ToGateway("refused")
  /\ UNCHANGED <<toBridge, gatewayLog, files, database, up, chainCall, chainEvent, poll, fin, worker, past>>

CreateCall ==
  /\ chainPc = "ready"
  /\ ~NeedsFinalization(call)
  /\ call' = [status |-> "starting", appended |-> FALSE]
  /\ file' = "starting"
  /\ ledger' = Nothing
  /\ chainPc' = "context"
  /\ UNCHANGED <<channel, handoff, inbox, claim, pending, usage, up, chainCall, chainEvent, poll, fin, worker, past>>

\* The context pack is there: the record is read, and stored with it after an await.
ContextBuilt ==
  /\ chainPc = "context"
  /\ Live(call)
  /\ chainCall' = call
  /\ chainPc' = "pack"
  /\ UNCHANGED <<channel, files, database, up, chainEvent, poll, fin, worker, past>>

\* The call was hung up meanwhile, or the pack could not be built.  The record would be
\* cleared if it needed no finalization, but a starting call does.
ContextMissing ==
  /\ chainPc = "context"
  /\ ~Live(call) \/ ContextFails
  /\ chainPc' = "idle"
  /\ call' = IF NeedsFinalization(call) THEN call ELSE NoCall
  /\ ToGateway("refused")
  /\ UNCHANGED <<toBridge, gatewayLog, files, inbox, claim, pending, usage, up, chainCall, chainEvent, poll, fin, worker, past>>

ContextStored ==
  /\ chainPc = "pack"
  /\ ~Locked
  /\ UpdateIfCurrent(chainCall)
  /\ chainPc' = "idle"
  /\ ToGateway("allowed")
  /\ UNCHANGED <<toBridge, gatewayLog, files, inbox, claim, pending, usage, up, chainCall, chainEvent, poll, fin, worker, past>>

\* handleGatewayCallEvent: an event is for the active call or for nobody.
TakeEvent(e) ==
  /\ ChainIdle
  /\ BridgeTakes(e)
  /\ \/ /\ call = NoCall
        /\ UNCHANGED chain
     \/ /\ call # NoCall
        /\ chainCall' = call
        /\ chainEvent' = e
        /\ chainPc' = "event"
  /\ UNCHANGED <<toGateway, gatewayLog, files, database, up, poll, fin, worker, past>>

\* Variant: the event's kind becomes the status.
FileAfterKind(e) == e

\* applyEventToPersistedState
FileAfter(e) == IF e = "started" THEN "active" ELSE file

\* What appendEvent makes of the record: what the handler read before, with the status
\* of the file, unless the call is gone.
AppendedRecord ==
  IF call = NoCall THEN call ELSE [chainCall EXCEPT !.status = FileAfter(chainEvent)]

\* appendEvent, and after call.ended the finalization, unless one is on its way.
AppendEvent ==
  /\ chainPc = "event"
  /\ ~Locked
  /\ file' = FileAfter(chainEvent)
  /\ ledger' = [ledger EXCEPT !.spoken = @ \/ chainEvent = "spoken"]
  /\ \/ /\ chainEvent = "ended"
        /\ Finalize([chainCall EXCEPT !.status = file'], "chain")
        /\ chainPc' = "finalize"
     \/ /\ chainEvent # "ended" \/ finPc # "none"
        /\ call' = AppendedRecord
        /\ chainPc' = "idle"
        /\ UNCHANGED fin
  /\ UNCHANGED <<channel, handoff, inbox, claim, pending, usage, up, chainCall, chainEvent, poll, worker, past>>

TakeGatewayHangup ==
  /\ ChainIdle
  /\ BridgeTakes("hangup")
  /\ \/ /\ Finalize(call, "chain")
        /\ chainPc' = "finalize"
     \/ /\ ~NeedsFinalization(call) \/ finPc # "none"
        /\ UNCHANGED <<call, fin, chainPc>>
  /\ UNCHANGED <<toGateway, gatewayLog, files, inbox, claim, pending, usage, up, chainCall, chainEvent, poll, worker, past>>

Chain ==
  \/ TakePrepare \/ RefuseCall \/ CreateCall \/ ContextBuilt \/ ContextMissing \/ ContextStored
  \/ (\E e \in CallEvent : TakeEvent(e)) \/ AppendEvent \/ TakeGatewayHangup

----------------------------------------------------------------------------
(* The poll loop: /hangup, and what the user sends during the call.        *)

PollIdle == up /\ pollPc = "idle" /\ ~Booting

HangUp ==
  /\ PollIdle
  /\ Live(call)
  /\ EarlyHangup \/ call.status = "active"
  /\ Finalize(call, "poll")
  /\ pollPc' = "hangup"
  /\ ToGateway("hangup")
  /\ UNCHANGED <<toBridge, gatewayLog, files, inbox, claim, pending, usage, up, chain, item, worker, past>>

StageItem(i) ==
  /\ PollIdle
  /\ Live(call)
  /\ item[i] = "unsent"
  /\ item' = [item EXCEPT ![i] = "staging"]
  /\ pollPc' = "staging"
  /\ UNCHANGED <<channel, files, database, up, chain, fin, worker, past>>

\* The download or the transcript is there: the row is inserted, the file comes next.
StageInserts(i) ==
  /\ pollPc = "staging" /\ item[i] = "staging"
  /\ inbox' = inbox \cup {i}
  /\ pollPc' = "attaching"
  /\ UNCHANGED <<channel, files, call, claim, pending, usage, up, chain, item, fin, worker, past>>

StageFails(i) ==
  /\ pollPc = "staging" /\ item[i] = "staging"
  /\ item' = [item EXCEPT ![i] = "refused"]
  /\ pollPc' = "idle"
  /\ UNCHANGED <<channel, files, database, up, chain, fin, worker, past>>

\* callAcceptsInboxItems
AcceptsItems == file \in {"starting", "active"}

\* attachInboxItem: the item joins the ledger and the user is told that it will be in the
\* handoff, or the call has ended, the row is deleted and the user told to send it again.
AttachItem(i) ==
  /\ pollPc = "attaching" /\ item[i] = "staging"
  /\ ~Locked
  /\ \/ /\ AcceptsItems
        /\ ledger' = [ledger EXCEPT !.items = @ \cup {i}]
        /\ item' = [item EXCEPT ![i] = "captured"]
        /\ UNCHANGED inbox
     \/ /\ ~AcceptsItems
        /\ inbox' = inbox \ {i}
        /\ item' = [item EXCEPT ![i] = "refused"]
        /\ UNCHANGED ledger
  /\ pollPc' = "idle"
  /\ UNCHANGED <<channel, file, handoff, call, claim, pending, usage, up, chain, fin, worker, past>>

PollSteps ==
  HangUp \/ \E i \in Items : StageItem(i) \/ StageInserts(i) \/ StageFails(i) \/ AttachItem(i)

----------------------------------------------------------------------------
(* finalizeCall, after its first steps.                                    *)

Staging == pollPc \in {"staging", "attaching"}

StagesSettle ==
  /\ finPc = "stages"
  /\ ~Staging
  /\ finPc' = "store"
  /\ UNCHANGED <<channel, files, database, up, chain, poll, finCall, finBy, worker, past>>

\* The wait for the stages times out and the finalization with it: the record stays.
StagesTimeOut ==
  /\ StageStalls
  /\ finPc = "stages"
  /\ Staging
  /\ EndFinalize
  /\ UNCHANGED <<channel, files, database, up, chainCall, chainEvent, item, worker, past>>

\* hydrateFromGatewayEvents: what the gateway logged and the daemon never got counts.
SpokenAnywhere == ledger.spoken \/ "spoken" \in gatewayLog

StoreEnds ==
  /\ finPc = "store"
  /\ ledger' = [ledger EXCEPT !.spoken = SpokenAnywhere]
  /\ file' = "ended"
  /\ UpdateIfCurrent([finCall EXCEPT !.status = "ended"])
  /\ finPc' = "listing"
  /\ UNCHANGED <<channel, handoff, inbox, claim, pending, usage, up, chain, poll, finCall, finBy, worker, past>>

\* Variant: the attachments are those that still have a row.
RowsOnly == inbox

\* The rows of the inbox join the attachments the ledger has.
ListedItems == ledger.items \cup inbox

StoreLists ==
  /\ finPc = "listing"
  /\ handoff' = [ledger EXCEPT !.items = ListedItems]
  /\ finPc' = "summarize"
  /\ UNCHANGED <<channel, file, ledger, database, up, chain, poll, finCall, finBy, worker, past>>

\* Variant: every finalization counts the call.
UsageCountedAgain == [count |-> usage.count + 1, marked |-> TRUE]

\* recordRealtimeCallUsageOnce
UsageCounted ==
  IF usage.marked THEN usage ELSE [count |-> usage.count + 1, marked |-> TRUE]

StoreReturns ==
  /\ finPc = "summarize"
  /\ call' = finCall
  /\ usage' = UsageCounted
  /\ finPc' = "handoff"
  /\ UNCHANGED <<channel, files, inbox, claim, pending, up, chain, poll, finCall, finBy, worker, past>>

\* canAttemptCallHandoffAppend
Ready == ~busy /\ append # "turn"

\* Variant: a claim is taken whatever the row says.
MayClaimAlways == TRUE

\* beginCallHandoffAppend: a claim is taken unless the handoff was appended or another
\* append has been in progress for less than five minutes.
MayClaim == claim \in {"none", "stale", "failed"}

BeginAppend ==
  /\ claim' = "in_progress"
  /\ append' = "sync"

MarkAppended ==
  /\ finCall' = [finCall EXCEPT !.appended = TRUE]
  /\ UpdateIfCurrent(finCall')
  /\ finPc' = "recap"

\* Variant: the handoff that could not be appended is not queued.
DeferForgets ==
  /\ UNCHANGED pending
  /\ finPc' = "recap"

Defer ==
  /\ pending' = TRUE
  /\ finPc' = "recap"

\* There is nothing to append, or the record says that it was.
SkipAppend ==
  /\ finPc = "handoff"
  /\ handoff = Nothing \/ finCall.appended
  /\ finPc' = "recap"
  /\ UNCHANGED <<channel, files, database, up, chain, poll, finCall, finBy, worker, past>>

AttemptAppend ==
  /\ finPc = "handoff"
  /\ handoff # Nothing /\ ~finCall.appended
  /\ \/ /\ Ready /\ MayClaim
        /\ BeginAppend
        /\ finPc' = "waiting"
        /\ UNCHANGED <<call, pending, finCall>>
     \/ /\ Ready /\ ~MayClaim /\ claim = "appended"
        /\ MarkAppended
        /\ UNCHANGED <<claim, pending, append>>
     \/ /\ ~Ready \/ (~MayClaim /\ claim = "in_progress")
        /\ Defer
        /\ UNCHANGED <<call, claim, append, finCall>>
  /\ UNCHANGED <<channel, files, inbox, usage, up, chain, poll, finBy, flushing, busy, past>>

\* The recap is sent or given up; then the record and the inbox are cleared.
ClearCall ==
  /\ finPc = "recap"
  /\ call' = NoCall
  /\ inbox' = {}
  /\ cleared' = TRUE
  /\ EndFinalize
  /\ UNCHANGED <<channel, files, claim, pending, usage, up, chainCall, chainEvent, item, worker, crashes, appends>>

Finalization ==
  \/ StagesSettle \/ StagesTimeOut \/ StoreEnds \/ StoreLists \/ StoreReturns
  \/ SkipAppend \/ AttemptAppend \/ ClearCall

----------------------------------------------------------------------------
(* The append turn, and the worker that flushes a pending handoff.         *)

\* Whoever still waits for the append when it fails queues it or leaves it queued.
WaitersDefer ==
  /\ pending' = (pending \/ finPc = "waiting")
  /\ finPc' = IF finPc = "waiting" THEN "recap" ELSE finPc
  /\ flushing' = FALSE

AppendStarts ==
  /\ append = "sync"
  /\ ~busy
  /\ append' = "turn"
  /\ appends' = appends + 1
  /\ UNCHANGED <<channel, files, database, up, chain, poll, fin, flushing, busy, crashes, cleared>>

\* codex.sync or turn/start fails, or another turn came first.
AppendFails ==
  /\ append = "sync"
  /\ busy \/ AppendSlow
  /\ append' = "none"
  /\ claim' = "failed"
  /\ WaitersDefer
  /\ UNCHANGED <<channel, files, call, inbox, usage, up, chain, poll, finCall, finBy, busy, past>>

\* The turn has ended: the row says so before anybody who waits goes on.
AppendCompletes ==
  /\ append = "turn"
  /\ append' = "none"
  /\ claim' = "appended"
  /\ pending' = (pending /\ ~flushing)
  /\ flushing' = FALSE
  /\ \/ finPc = "waiting" /\ MarkAppended
     \/ finPc # "waiting" /\ UNCHANGED <<call, finPc, finCall>>
  /\ UNCHANGED <<channel, files, inbox, usage, up, chain, poll, finBy, busy, past>>

\* Fifteen seconds have passed; the append goes on.
WaitTimesOut ==
  /\ AppendSlow
  /\ append # "none"
  /\ finPc = "waiting" \/ flushing
  /\ WaitersDefer
  /\ UNCHANGED <<channel, files, call, inbox, claim, usage, up, chain, poll, finCall, finBy, append, busy, past>>

\* flushPendingCallHandoffs
FlushPending ==
  /\ up /\ ~Booting
  /\ pending /\ ~flushing
  /\ ~Live(call)
  /\ Ready
  /\ \/ /\ MayClaim
        /\ BeginAppend
        /\ flushing' = TRUE
        /\ UNCHANGED pending
     \/ /\ ~MayClaim /\ claim = "appended"
        /\ pending' = FALSE
        /\ UNCHANGED <<claim, append, flushing>>
  /\ UNCHANGED <<channel, files, call, inbox, usage, up, chain, poll, fin, busy, past>>

Appending == AppendStarts \/ AppendFails \/ AppendCompletes \/ WaitTimesOut \/ FlushPending

\* Five minutes are over for a claim whose append was lost, or still runs.
ClaimAges ==
  /\ claim = "in_progress"
  /\ append # "sync"
  /\ claim' = "stale"
  /\ UNCHANGED <<channel, files, call, inbox, pending, usage, up, chain, poll, fin, worker, past>>

SessionTaken ==
  /\ busy' = ~busy
  /\ UNCHANGED <<channel, files, database, up, chain, poll, fin, flushing, append, past>>

----------------------------------------------------------------------------
(* The daemon's end and start.                                             *)

\* The messages on the socket are lost.  A finalization that is about to count the call
\* writes the count before the mark, and may stop between the two.
CrashBridge ==
  /\ up
  /\ crashes < MaxCrashes
  /\ crashes' = crashes + 1
  /\ up' = FALSE
  /\ toBridge' = << >>
  /\ usage' \in {usage} \cup
       (IF finPc = "summarize" /\ ~usage.marked THEN {[usage EXCEPT !.count = @ + 1]} ELSE {})
  /\ chainPc' = "idle" /\ chainCall' = NoCall
  /\ pollPc' = "idle"
  /\ item' = [i \in Items |-> IF item[i] = "staging" THEN "unsent" ELSE item[i]]
  /\ finPc' = "none" /\ finCall' = NoCall /\ finBy' = "nobody"
  /\ flushing' = FALSE /\ append' = "none"
  /\ UNCHANGED <<toGateway, gatewayLog, files, call, inbox, claim, pending, chainEvent, busy, appends, cleared>>

\* recoverInterruptedCall
RestartBridge ==
  /\ ~up
  /\ up' = TRUE
  /\ \/ Finalize(call, "start")
     \/ ~NeedsFinalization(call) /\ UNCHANGED <<call, fin>>
  /\ UNCHANGED <<channel, files, inbox, claim, pending, usage, chain, poll, worker, past>>

Bridge ==
  \/ Chain \/ PollSteps \/ Finalization \/ Appending
  \/ ClaimAges \/ SessionTaken \/ CrashBridge \/ RestartBridge

----------------------------------------------------------------------------
(* Properties.                                                             *)

\* What the user was told is captured "will be included in the handoff" is in it once the
\* call is over, whatever the finalization was doing when the item came.
CapturedItemsReachHandoff ==
  cleared /\ call = NoCall => \A i \in Items : item[i] = "captured" => i \in handoff.items

\* A call's handoff is never in nobody's hands: the record is cleared only when the
\* handoff was appended or waits in the queue, whatever timed out, failed or crashed.
HandoffIsKept ==
  cleared /\ call = NoCall /\ finPc = "none" /\ handoff # Nothing =>
    claim = "appended" \/ pending

\* The handoff is appended to the thread once, although the finalization and the worker
\* both retry it and neither waits for it to end.
HandedOffOnce == appends <= 1

\* Across crashes, too: once the row says appended, nothing appends it again.
AppendedIsFinal ==
  [][claim = "appended" => claim' = "appended" /\ appends' = appends]_<<claim, appends>>

\* Every finalization of the call, and there may be several, counts it once in all.
CountedOnce == usage.count <= 1 /\ (cleared => usage.count = 1)

\* A call that was cleared does not come back, however late its last events arrive.
ClearedStaysCleared == [][cleared /\ call = NoCall => call' = NoCall]_<<call, cleared>>

\* The record of a call, which holds the Telegram queue, is eventually cleared.
CallClears == call # NoCall ~> call = NoCall
============================================================================
