--------------------------- MODULE LiveCall_proofs ---------------------------
(***************************************************************************)
(* Theorems about LiveCall, for any items, any number of crashes, and      *)
(* whatever may fail, be late or be hung up.                               *)
(***************************************************************************)
EXTENDS LiveCall, TLAPS

----------------------------------------------------------------------------
(* Which actions change what.                                              *)

DaemonSteps ==
  \/ TakePrepare \/ RefuseCall \/ CreateCall \/ ContextBuilt \/ ContextMissing
  \/ ContextStored \/ (\E e \in CallEvent : TakeEvent(e)) \/ AppendEvent \/ TakeGatewayHangup
  \/ HangUp \/ (\E i \in Items : StageItem(i) \/ StageInserts(i) \/ StageFails(i) \/ AttachItem(i))
  \/ StagesSettle \/ StagesTimeOut \/ StoreEnds \/ StoreLists \/ StoreReturns \/ SkipAppend
  \/ AttemptAppend \/ ClearCall \/ AppendStarts \/ AppendFails \/ AppendCompletes
  \/ WaitTimesOut \/ FlushPending \/ ClaimAges \/ SessionTaken \/ CrashBridge \/ RestartBridge

LEMMA Steps ==
  ASSUME [Next]_vars
  PROVE  UNCHANGED vars \/ (Gateway /\ UNCHANGED bridge) \/ (DaemonSteps /\ UNCHANGED gateway)
BY DEF Next, Over, Bridge, Chain, PollSteps, Finalization, Appending, DaemonSteps

LEMMA CallMoves ==
  ASSUME [Next]_vars
  PROVE  \/ UNCHANGED <<call, finPc, finCall, finBy>>
         \/ CreateCall \/ ContextMissing \/ ContextStored \/ AppendEvent \/ TakeGatewayHangup
         \/ HangUp \/ StagesSettle \/ StagesTimeOut \/ StoreEnds \/ StoreLists \/ StoreReturns
         \/ SkipAppend \/ AttemptAppend \/ ClearCall \/ AppendFails \/ AppendCompletes
         \/ WaitTimesOut \/ CrashBridge \/ RestartBridge
BY Steps
   DEF vars, bridge, database, fin, DaemonSteps, TakePrepare, RefuseCall, ContextBuilt,
       TakeEvent, StageItem, StageInserts, StageFails, AttachItem, AppendStarts, FlushPending,
       ClaimAges, SessionTaken

LEMMA ChainMoves ==
  ASSUME [Next]_vars
  PROVE  \/ UNCHANGED chain
         \/ TakePrepare \/ RefuseCall \/ CreateCall \/ ContextBuilt \/ ContextMissing
         \/ ContextStored \/ (\E e \in CallEvent : TakeEvent(e)) \/ AppendEvent
         \/ TakeGatewayHangup \/ StagesTimeOut \/ ClearCall \/ CrashBridge
BY Steps
   DEF vars, bridge, chain, DaemonSteps, HangUp, StageItem, StageInserts, StageFails, AttachItem,
       StagesSettle, StoreEnds, StoreLists, StoreReturns, SkipAppend, AttemptAppend,
       AppendStarts, AppendFails, AppendCompletes, WaitTimesOut, FlushPending, ClaimAges,
       SessionTaken, RestartBridge

LEMMA PollMoves ==
  ASSUME [Next]_vars
  PROVE  \/ UNCHANGED poll
         \/ HangUp \/ StagesTimeOut \/ ClearCall \/ CrashBridge
         \/ \E i \in Items : StageItem(i) \/ StageInserts(i) \/ StageFails(i) \/ AttachItem(i)
BY Steps
   DEF vars, bridge, poll, DaemonSteps, TakePrepare, RefuseCall, CreateCall, ContextBuilt,
       ContextMissing, ContextStored, TakeEvent, AppendEvent, TakeGatewayHangup, StagesSettle,
       StoreEnds, StoreLists, StoreReturns, SkipAppend, AttemptAppend, AppendStarts,
       AppendFails, AppendCompletes, WaitTimesOut, FlushPending, ClaimAges, SessionTaken,
       RestartBridge

LEMMA FilesMove ==
  ASSUME [Next]_vars
  PROVE  \/ UNCHANGED <<files, inbox>>
         \/ CreateCall \/ AppendEvent \/ StoreEnds \/ StoreLists \/ ClearCall
         \/ \E i \in Items : StageInserts(i) \/ AttachItem(i)
BY Steps
   DEF vars, bridge, files, database, DaemonSteps, TakePrepare, RefuseCall, ContextBuilt,
       ContextMissing, ContextStored, TakeEvent, TakeGatewayHangup, HangUp, StageItem,
       StageFails, StagesSettle, StagesTimeOut, StoreReturns, SkipAppend, AttemptAppend,
       AppendStarts, AppendFails, AppendCompletes, WaitTimesOut, FlushPending, ClaimAges,
       SessionTaken, CrashBridge, RestartBridge

LEMMA AppendMoves ==
  ASSUME [Next]_vars
  PROVE  \/ UNCHANGED <<claim, pending, append, flushing, appends>>
         \/ AttemptAppend \/ AppendStarts \/ AppendFails \/ AppendCompletes \/ WaitTimesOut
         \/ FlushPending \/ ClaimAges \/ CrashBridge
BY Steps
   DEF vars, bridge, database, worker, past, DaemonSteps, TakePrepare, RefuseCall, CreateCall,
       ContextBuilt, ContextMissing, ContextStored, TakeEvent, AppendEvent, TakeGatewayHangup,
       HangUp, StageItem, StageInserts, StageFails, AttachItem, StagesSettle, StagesTimeOut,
       StoreEnds, StoreLists, StoreReturns, SkipAppend, ClearCall, SessionTaken, RestartBridge

LEMMA CountsMove ==
  ASSUME [Next]_vars
  PROVE  \/ UNCHANGED <<usage, crashes, cleared>>
         \/ StoreReturns \/ ClearCall \/ CrashBridge
BY Steps
   DEF vars, bridge, database, past, DaemonSteps, TakePrepare, RefuseCall, CreateCall,
       ContextBuilt, ContextMissing, ContextStored, TakeEvent, AppendEvent, TakeGatewayHangup,
       HangUp, StageItem, StageInserts, StageFails, AttachItem, StagesSettle, StagesTimeOut,
       StoreEnds, StoreLists, SkipAppend, AttemptAppend, AppendStarts, AppendFails,
       AppendCompletes, WaitTimesOut, FlushPending, ClaimAges, SessionTaken, RestartBridge

LEMMA ChannelMoves ==
  ASSUME [Next]_vars
  PROVE  \/ UNCHANGED <<channel, gateway, up>>
         \/ Gateway /\ UNCHANGED bridge
         \/ UNCHANGED gateway /\
            \/ TakePrepare \/ RefuseCall \/ ContextMissing \/ ContextStored
            \/ (\E e \in CallEvent : TakeEvent(e)) \/ TakeGatewayHangup \/ HangUp
            \/ CrashBridge \/ RestartBridge
BY Steps
   DEF vars, bridge, DaemonSteps, CreateCall, ContextBuilt, AppendEvent, StageItem,
       StageInserts, StageFails, AttachItem, StagesSettle, StagesTimeOut, StoreEnds,
       StoreLists, StoreReturns, SkipAppend, AttemptAppend, ClearCall, AppendStarts,
       AppendFails, AppendCompletes, WaitTimesOut, FlushPending, ClaimAges, SessionTaken

----------------------------------------------------------------------------
(* Type correctness.                                                       *)

LEMMA RecordFields ==
  ASSUME NEW c \in Call
  PROVE  /\ c.status \in {"none", "starting", "active", "finalizing", "ended"}
         /\ c.appended \in BOOLEAN
         /\ c = [status |-> c.status, appended |-> c.appended]
         /\ \A s \in {"starting", "active", "finalizing", "ended", "none"} :
              /\ [c EXCEPT !.status = s] \in Call
              /\ [c EXCEPT !.status = s].status = s
              /\ [c EXCEPT !.status = s].appended = c.appended
         /\ [c EXCEPT !.appended = TRUE] \in Call
         /\ [c EXCEPT !.appended = TRUE].status = c.status
         /\ [c EXCEPT !.appended = TRUE].appended = TRUE
BY DEF Call

LEMMA NoCallTyped == NoCall \in Call /\ NoCall.status = "none" /\ NoCall.appended = FALSE
BY DEF NoCall, Call

CallTyped == call \in Call /\ chainCall \in Call /\ finCall \in Call
FileTyped == file \in {"none", "starting", "active", "ended"}

LEMMA CallTypedStep ==
  ASSUME CallTyped, FileTyped, [Next]_vars
  PROVE  CallTyped' /\ FileTyped'
<1> USE NoCallTyped, RecordFields DEF CallTyped, FileTyped
<1>1. FileTyped'
  BY FilesMove DEF files, CreateCall, AppendEvent, FileAfter, StoreEnds, StoreLists, ClearCall,
     StageInserts, AttachItem
<1>2. \A c : UpdateIfCurrent(c) => call' \in {NoCall, c}
  BY DEF UpdateIfCurrent
<1>3. ASSUME NEW c \in Call, NEW who, Finalize(c, who) PROVE call' \in Call /\ finCall' \in Call
  <2>1. [c EXCEPT !.status = "finalizing"] \in Call
    OBVIOUS
  <2> QED
    BY <1>3, <2>1 DEF Finalize
<1>4. AppendedRecord \in Call
  BY DEF AppendedRecord, FileAfter
<1>5. call' \in Call /\ finCall' \in Call
  <2>1. CASE AppendEvent
    <3>1. [chainCall EXCEPT !.status = file'] \in Call
      BY <1>1
    <3> QED
      BY <1>3, <1>4, <2>1, <3>1 DEF AppendEvent, fin
  <2>2. CASE CreateCall \/ ContextMissing
    <3>1. [status |-> "starting", appended |-> FALSE] \in Call
      BY DEF Call
    <3>2. CASE CreateCall
      BY <3>1, <3>2 DEF CreateCall, fin
    <3>3. CASE ContextMissing
      BY <3>3 DEF ContextMissing, fin
    <3> QED
      BY <2>2, <3>2, <3>3
  <2>3. CASE ContextStored
    BY <1>2, <2>3 DEF ContextStored, fin
  <2>4. CASE TakeGatewayHangup \/ HangUp \/ RestartBridge
    BY <1>3, <2>4 DEF TakeGatewayHangup, HangUp, RestartBridge, fin
  <2>5. CASE StoreEnds
    <3>1. [finCall EXCEPT !.status = "ended"] \in Call
      OBVIOUS
    <3> QED
      BY <1>2, <2>5, <3>1 DEF StoreEnds
  <2>6. CASE AttemptAppend \/ AppendCompletes
    <3>1. [finCall EXCEPT !.appended = TRUE] \in Call
      OBVIOUS
    <3>2. CASE MarkAppended
      BY <1>2, <3>1, <3>2 DEF MarkAppended
    <3> QED
      BY <2>6, <3>2 DEF AttemptAppend, AppendCompletes
  <2>7. CASE StagesTimeOut \/ ClearCall \/ CrashBridge \/ StoreReturns
    BY <2>7 DEF StagesTimeOut, ClearCall, CrashBridge, StoreReturns, EndFinalize, database
  <2>8. CASE StagesSettle \/ StoreLists \/ SkipAppend \/ AppendFails \/ WaitTimesOut
    BY <2>8 DEF StagesSettle, StoreLists, SkipAppend, AppendFails, WaitTimesOut, database
  <2> QED
    BY <2>1, <2>2, <2>3, <2>4, <2>5, <2>6, <2>7, <2>8, CallMoves
<1>6. chainCall' \in Call
  <2>1. CASE \E e \in CallEvent : TakeEvent(e)
    BY <2>1 DEF TakeEvent, chain
  <2>2. CASE CrashBridge \/ ContextBuilt \/ AppendEvent
    BY <2>2 DEF CrashBridge, ContextBuilt, AppendEvent
  <2>3. CASE TakePrepare \/ RefuseCall \/ CreateCall \/ ContextMissing \/ ContextStored
    BY <2>3 DEF TakePrepare, RefuseCall, CreateCall, ContextMissing, ContextStored
  <2>4. CASE TakeGatewayHangup \/ StagesTimeOut \/ ClearCall
    BY <2>4 DEF TakeGatewayHangup, StagesTimeOut, ClearCall
  <2> QED
    BY <2>1, <2>2, <2>3, <2>4, ChainMoves DEF chain
<1> QED
  BY <1>1, <1>5, <1>6

\* What Finalize and EndFinalize leave typed is their processes' places; the places
\* of the rest are the literals the steps name.
PlacesTyped ==
  /\ chainPc \in {"idle", "ready", "context", "pack", "event", "finalize"}
  /\ chainEvent \in CallEvent
  /\ pollPc \in {"idle", "staging", "attaching", "hangup"}
  /\ finPc \in {"none", "stages", "store", "listing", "summarize", "handoff", "waiting", "recap"}
  /\ finBy \in {"nobody", "chain", "poll", "start"}

LEMMA PlacesTypedStep == ASSUME PlacesTyped, [Next]_vars PROVE PlacesTyped'
<1> USE DEF PlacesTyped
<1>1. chainPc' \in {"idle", "ready", "context", "pack", "event", "finalize"} /\ chainEvent' \in CallEvent
  <2>1. CASE \E e \in CallEvent : TakeEvent(e)
    BY <2>1 DEF TakeEvent, chain
  <2>2. CASE CrashBridge \/ ContextBuilt \/ AppendEvent \/ TakePrepare \/ RefuseCall \/ CreateCall
    BY <2>2 DEF CrashBridge, ContextBuilt, AppendEvent, TakePrepare, RefuseCall, CreateCall
  <2>3. CASE ContextMissing \/ ContextStored \/ TakeGatewayHangup
    BY <2>3 DEF ContextMissing, ContextStored, TakeGatewayHangup
  <2>4. CASE StagesTimeOut \/ ClearCall
    BY <2>4 DEF StagesTimeOut, ClearCall, EndFinalize
  <2> QED
    BY <2>1, <2>2, <2>3, <2>4, ChainMoves DEF chain
<1>2. pollPc' \in {"idle", "staging", "attaching", "hangup"}
  BY PollMoves DEF poll, HangUp, StagesTimeOut, ClearCall, EndFinalize, CrashBridge, StageItem,
     StageInserts, StageFails, AttachItem
<1>3. \A c, who : Finalize(c, who) => finPc' = "stages" /\ finBy' = who
  BY DEF Finalize
<1>4. /\ finPc' \in {"none", "stages", "store", "listing", "summarize", "handoff", "waiting", "recap"}
      /\ finBy' \in {"nobody", "chain", "poll", "start"}
  <2>1. CASE CreateCall \/ ContextMissing \/ ContextStored
    BY <2>1 DEF CreateCall, ContextMissing, ContextStored, fin
  <2>2. CASE AppendEvent \/ TakeGatewayHangup
    BY <1>3, <2>2 DEF AppendEvent, TakeGatewayHangup, fin
  <2>3. CASE HangUp \/ RestartBridge
    BY <1>3, <2>3 DEF HangUp, RestartBridge, fin
  <2>4. CASE StagesSettle \/ StagesTimeOut \/ StoreEnds \/ StoreLists \/ StoreReturns
    BY <2>4 DEF StagesSettle, StagesTimeOut, StoreEnds, StoreLists, StoreReturns, EndFinalize
  <2>5. CASE SkipAppend \/ AttemptAppend \/ ClearCall \/ CrashBridge
    BY <2>5 DEF SkipAppend, AttemptAppend, ClearCall, CrashBridge, EndFinalize, MarkAppended, Defer
  <2>6. CASE AppendFails \/ AppendCompletes \/ WaitTimesOut
    BY <2>6 DEF AppendFails, AppendCompletes, WaitTimesOut, WaitersDefer, MarkAppended
  <2> QED
    BY <2>1, <2>2, <2>3, <2>4, <2>5, <2>6, CallMoves
<1> QED
  BY <1>1, <1>2, <1>4

ContentsTyped ==
  /\ ledger \in Content /\ handoff \in Content /\ inbox \subseteq Items
  /\ item \in [Items -> {"unsent", "staging", "captured", "refused"}]

LEMMA ContentFields ==
  ASSUME NEW l \in Content
  PROVE  /\ l.items \subseteq Items /\ l.spoken \in BOOLEAN
         /\ l = [items |-> l.items, spoken |-> l.spoken]
BY DEF Content

LEMMA ContentsTypedStep == ASSUME ContentsTyped, [Next]_vars PROVE ContentsTyped'
<1> USE ContentFields DEF ContentsTyped
<1>0. Nothing \in Content
  BY DEF Nothing, Content
<1>1. item' \in [Items -> {"unsent", "staging", "captured", "refused"}]
  BY PollMoves DEF poll, HangUp, StagesTimeOut, ClearCall, CrashBridge, StageItem,
     StageInserts, StageFails, AttachItem
<1>2. inbox' \subseteq Items
  BY FilesMove DEF CreateCall, AppendEvent, StoreEnds, StoreLists, ClearCall, StageInserts,
     AttachItem, database
<1>3. ledger' \in Content
  <2>1. CASE AppendEvent
    BY <2>1 DEF AppendEvent, Content
  <2>2. CASE StoreEnds
    BY <2>2 DEF StoreEnds, SpokenAnywhere, Content
  <2>3. ASSUME NEW i \in Items, AttachItem(i) PROVE ledger' \in Content
    BY <2>3 DEF AttachItem, Content
  <2> QED
    BY <1>0, <2>1, <2>2, <2>3, FilesMove DEF files, CreateCall, StoreLists, ClearCall, StageInserts
<1>4. handoff' \in Content
  <2>1. CASE StoreLists
    BY <2>1 DEF StoreLists, ListedItems, Content
  <2> QED
    BY <2>1, FilesMove DEF files, CreateCall, AppendEvent, StoreEnds, ClearCall, StageInserts, AttachItem
<1> QED
  BY <1>1, <1>2, <1>3, <1>4

AppendTyped ==
  /\ claim \in {"none", "in_progress", "stale", "appended", "failed"}
  /\ append \in {"none", "sync", "turn"} /\ appends \in Nat
  /\ pending \in BOOLEAN /\ flushing \in BOOLEAN /\ busy \in BOOLEAN

LEMMA BooleansTypedStep ==
  ASSUME pending \in BOOLEAN, flushing \in BOOLEAN, busy \in BOOLEAN, [Next]_vars
  PROVE  pending' \in BOOLEAN /\ flushing' \in BOOLEAN /\ busy' \in BOOLEAN
<1>1. pending' \in BOOLEAN /\ flushing' \in BOOLEAN
  BY AppendMoves, Zenon DEF AttemptAppend, Defer, BeginAppend, AppendStarts, AppendFails,
     AppendCompletes, WaitTimesOut, WaitersDefer, FlushPending, ClaimAges, CrashBridge, database, worker
<1>2. busy' \in BOOLEAN
  <2>1. \/ busy' = busy \/ SessionTaken
    BY Steps, Zenon
   DEF vars, bridge, worker, DaemonSteps, TakePrepare, RefuseCall, CreateCall,
       ContextBuilt, ContextMissing, ContextStored, TakeEvent, AppendEvent, TakeGatewayHangup,
       HangUp, StageItem, StageInserts, StageFails, AttachItem, StagesSettle, StagesTimeOut,
       StoreEnds, StoreLists, StoreReturns, SkipAppend, AttemptAppend, ClearCall, AppendStarts,
       AppendFails, AppendCompletes, WaitTimesOut, FlushPending, ClaimAges, CrashBridge, RestartBridge
  <2> QED
    BY <2>1, Zenon DEF SessionTaken
<1> QED
  BY <1>1, <1>2

LEMMA AppendTypedStep == ASSUME AppendTyped, [Next]_vars PROVE AppendTyped'
<1>1. pending' \in BOOLEAN /\ flushing' \in BOOLEAN /\ busy' \in BOOLEAN
  BY BooleansTypedStep DEF AppendTyped
<1>2. /\ claim' \in {"none", "in_progress", "stale", "appended", "failed"}
      /\ append' \in {"none", "sync", "turn"} /\ appends' \in Nat
  <2>1. CASE AttemptAppend
    BY <2>1 DEF AppendTyped, AttemptAppend, BeginAppend, past
  <2>2. CASE AppendStarts \/ AppendFails \/ AppendCompletes
    BY <2>2 DEF AppendTyped, AppendStarts, AppendFails, AppendCompletes, database, past
  <2>3. CASE WaitTimesOut \/ FlushPending
    BY <2>3 DEF AppendTyped, WaitTimesOut, FlushPending, BeginAppend, past
  <2>4. CASE ClaimAges \/ CrashBridge
    BY <2>4 DEF AppendTyped, ClaimAges, CrashBridge, past, worker
  <2> QED
    BY <2>1, <2>2, <2>3, <2>4, AppendMoves DEF AppendTyped
<1> QED
  BY <1>1, <1>2 DEF AppendTyped

CountsTyped ==
  /\ usage \in [count : Nat, marked : BOOLEAN]
  /\ crashes \in 0..MaxCrashes /\ cleared \in BOOLEAN

LEMMA CountsTypedStep == ASSUME CountsTyped, [Next]_vars PROVE CountsTyped'
<1> USE DEF CountsTyped
<1>1. CASE StoreReturns
  BY <1>1 DEF StoreReturns, UsageCounted, past
<1>2. CASE ClearCall
  BY <1>2 DEF ClearCall
<1>3. CASE CrashBridge
  <2>1. [usage EXCEPT !.count = @ + 1] \in [count : Nat, marked : BOOLEAN]
    OBVIOUS
  <2>2. usage' \in [count : Nat, marked : BOOLEAN]
    BY <1>3, <2>1 DEF CrashBridge
  <2> QED
    BY <1>3, <2>2, CallAssumption DEF CrashBridge
<1> QED
  BY <1>1, <1>2, <1>3, CountsMove

SessionTyped ==
  /\ session \in {"none", "asked", "secret", "prepared", "connected", "left", "over"}
  /\ ending \in BOOLEAN /\ forced \in BOOLEAN /\ started \in BOOLEAN
ChannelTyped ==
  /\ toBridge \in Seq(BridgeMessage) /\ toGateway \in Seq(GatewayMessage)
  /\ gatewayLog \subseteq CallEvent /\ up \in BOOLEAN

LEMMA SessionTypedStep == ASSUME SessionTyped, [Next]_vars PROVE SessionTyped'
<1> USE DEF SessionTyped
<1>1. CASE Gateway
  BY <1>1, Zenon DEF Gateway, Bootstrap, BridgeAllows, BridgeRefuses, BootstrapGivesUp, SessionCreated,
     LateAnswer, BrowserConnects, BrowserReports, BrowserLeaves, BrowserFinalizes, EndSession,
     FinalizeDeadline, RequestShutdown, TakeHangup, gateway
<1>2. CASE UNCHANGED gateway
  BY <1>2 DEF gateway
<1> QED
  BY <1>1, <1>2, ChannelMoves

\* What the gateway makes of the two queues.
LEMMA GatewaySends ==
  ASSUME Gateway
  PROVE  /\ UNCHANGED toGateway \/ (toGateway # << >> /\ toGateway' = Tail(toGateway))
         /\ \/ Bootstrap /\ toBridge' = Append(toBridge, "prepare")
            \/ /\ session = "none" => UNCHANGED toBridge
               /\ \/ UNCHANGED toBridge
                  \/ \E m \in BridgeMessage \ {"prepare"} : ToBridge(m)
         /\ session = "none" => session' = "none" \/ Bootstrap
BY DEF Gateway, Bootstrap, BridgeAllows, BridgeRefuses, BootstrapGivesUp, SessionCreated,
   LateAnswer, BrowserConnects, BrowserReports, BrowserLeaves, BrowserFinalizes, EndSession,
   FinalizeDeadline, RequestShutdown, TakeHangup, gateway, channel, ToBridge, GatewayTakes,
   BridgeMessage, HasSession

\* What the daemon makes of the two queues.
LEMMA DaemonSends ==
  ASSUME [Next]_vars, UNCHANGED gateway, ~(Gateway /\ UNCHANGED bridge)
  PROVE  /\ UNCHANGED toGateway \/ \E m \in GatewayMessage : ToGateway(m)
         /\ \/ UNCHANGED <<toBridge, up>>
            \/ UNCHANGED up /\ \E m \in BridgeMessage : BridgeTakes(m)
            \/ up' \in BOOLEAN /\ toBridge' \in {toBridge, << >>}
         /\ UNCHANGED gatewayLog
<1> USE DEF GatewayMessage, BridgeMessage
<1>1. CASE RefuseCall \/ ContextMissing \/ ContextStored \/ HangUp
  BY <1>1 DEF RefuseCall, ContextMissing, ContextStored, HangUp
<1>2. CASE TakePrepare \/ TakeGatewayHangup
  BY <1>2 DEF TakePrepare, TakeGatewayHangup, database
<1>3. CASE \E e \in CallEvent : TakeEvent(e)
  BY <1>3 DEF TakeEvent, CallEvent
<1>4. CASE CrashBridge \/ RestartBridge
  BY <1>4 DEF CrashBridge, RestartBridge, channel
<1> QED
  BY <1>1, <1>2, <1>3, <1>4, ChannelMoves DEF channel

LEMMA ChannelTypedStep == ASSUME ChannelTyped, [Next]_vars PROVE ChannelTyped'
<1> USE DEF ChannelTyped
<1>1. CASE Gateway /\ UNCHANGED bridge
  <2>1. gatewayLog' \subseteq CallEvent /\ up' = up
    BY <1>1 DEF Gateway, Bootstrap, BridgeAllows, BridgeRefuses, BootstrapGivesUp, SessionCreated,
       LateAnswer, BrowserConnects, BrowserReports, BrowserLeaves, BrowserFinalizes, EndSession,
       FinalizeDeadline, RequestShutdown, TakeHangup, channel, bridge, CallEvent
  <2>2. toBridge' \in Seq(BridgeMessage) /\ toGateway' \in Seq(GatewayMessage)
    <3>1. toGateway # << >> => Tail(toGateway) \in Seq(GatewayMessage)
      OBVIOUS
    <3>2. \A m \in BridgeMessage : Append(toBridge, m) \in Seq(BridgeMessage)
      OBVIOUS
    <3>3. "prepare" \in BridgeMessage
      BY DEF BridgeMessage
    <3> QED
      BY <1>1, <3>1, <3>2, <3>3, GatewaySends DEF ToBridge
  <2> QED
    BY <2>1, <2>2
<1>2. CASE UNCHANGED gateway /\ ~(Gateway /\ UNCHANGED bridge)
  <2>1. toGateway' \in Seq(GatewayMessage)
    BY <1>2, DaemonSends DEF ToGateway
  <2>2. toBridge' \in Seq(BridgeMessage) /\ up' \in BOOLEAN
    <3>1. toBridge # << >> => Tail(toBridge) \in Seq(BridgeMessage)
      OBVIOUS
    <3>2. CASE UNCHANGED up /\ \E m \in BridgeMessage : BridgeTakes(m)
      BY <3>1, <3>2 DEF BridgeTakes
    <3>3. CASE up' \in BOOLEAN /\ toBridge' \in {toBridge, << >>}
      <4>1. << >> \in Seq(BridgeMessage)
        OBVIOUS
      <4> QED
        BY <3>3, <4>1
    <3> QED
      BY <1>2, <3>2, <3>3, DaemonSends
  <2> QED
    BY <1>2, <2>1, <2>2, DaemonSends
<1> QED
  BY <1>1, <1>2, Steps DEF vars, gateway

TypeInv ==
  /\ CallTyped /\ FileTyped /\ PlacesTyped /\ ContentsTyped /\ AppendTyped /\ CountsTyped
  /\ SessionTyped /\ ChannelTyped

LEMMA TypeInit == ASSUME Init PROVE TypeInv
<1> USE DEF Init, ChannelInit, GatewayInit, CallInit
<1>1. CallTyped /\ FileTyped
  BY NoCallTyped DEF CallTyped, FileTyped
<1>2. PlacesTyped /\ SessionTyped
  BY DEF PlacesTyped, SessionTyped, CallEvent
<1>5. ChannelTyped
  BY DEF ChannelTyped
<1>3. ContentsTyped /\ AppendTyped
  BY DEF ContentsTyped, AppendTyped, Nothing, Content
<1>4. CountsTyped
  <2>1. usage \in [count : Nat, marked : BOOLEAN] /\ cleared \in BOOLEAN
    OBVIOUS
  <2>2. crashes \in 0..MaxCrashes
    BY CallAssumption
  <2> QED
    BY <2>1, <2>2 DEF CountsTyped
<1> QED
  BY <1>1, <1>2, <1>3, <1>4, <1>5 DEF TypeInv

LEMMA TypeStep == ASSUME TypeInv, [Next]_vars PROVE TypeInv'
BY CallTypedStep, PlacesTypedStep, ContentsTypedStep, AppendTypedStep, CountsTypedStep,
   SessionTypedStep, ChannelTypedStep DEF TypeInv

LEMMA TypeInvariant == Spec => []TypeInv
BY TypeInit, TypeStep, PTL DEF Spec

\* Type correctness: both sides of a call, their queues, its records and its files stay
\* what the code takes them for, whatever fails, crashes or comes late.
THEOREM CallIsTyped == Spec => []TypeOK
<1>1. TypeInv => TypeOK
  BY DEF TypeInv, CallTyped, FileTyped, PlacesTyped, ContentsTyped, AppendTyped, CountsTyped,
     SessionTyped, ChannelTyped, TypeOK, ChannelTypeOK, GatewayTypeOK, CallTypeOK
<1> QED
  BY <1>1, TypeInvariant, PTL

----------------------------------------------------------------------------
(* The append.                                                             *)

\* An append that is about to start its turn holds the claim, and one whose turn runs
\* holds it still or is said to have held it for too long.
ClaimIsHeld ==
  /\ append = "sync" => claim = "in_progress"
  /\ append = "turn" => claim \in {"in_progress", "stale"}

\* A turn is counted against a crash, or it is the one under way or the one that ended.
AppendsAreCounted ==
  appends <= crashes + (IF append = "turn" \/ claim = "appended" THEN 1 ELSE 0)

AppendInv == TypeInv /\ ClaimIsHeld /\ AppendsAreCounted

LEMMA AppendStep ==
  ASSUME AppendInv, [Next]_vars
  PROVE  ClaimIsHeld' /\ AppendsAreCounted' /\ (claim = "appended" => claim' = "appended" /\ appends' = appends)
<1> USE DEF AppendInv, ClaimIsHeld, AppendsAreCounted
<1>0. appends \in Nat /\ crashes \in Nat
  BY CallAssumption DEF TypeInv, AppendTyped, CountsTyped
<1>1. CASE AttemptAppend
  BY <1>0, <1>1, CountsMove DEF AttemptAppend, BeginAppend, Ready, MayClaim, past
<1>2. CASE AppendStarts
  BY <1>0, <1>2 DEF AppendStarts, database
<1>3. CASE AppendFails
  BY <1>0, <1>3 DEF AppendFails, past
<1>4. CASE AppendCompletes
  BY <1>0, <1>4 DEF AppendCompletes, past
<1>5. CASE WaitTimesOut
  BY <1>0, <1>5 DEF WaitTimesOut, past
<1>6. CASE FlushPending
  BY <1>0, <1>6 DEF FlushPending, BeginAppend, Ready, MayClaim, past
<1>7. CASE ClaimAges
  BY <1>0, <1>7 DEF ClaimAges, past, worker
<1>8. CASE CrashBridge
  BY <1>0, <1>8 DEF CrashBridge
<1>9. CASE UNCHANGED <<claim, pending, append, flushing, appends>> /\ ~CrashBridge
  <2>1. crashes' = crashes
    BY <1>9, CountsMove DEF StoreReturns, ClearCall, past
  <2> QED
    BY <1>9, <2>1
<1> QED
  BY <1>1, <1>2, <1>3, <1>4, <1>5, <1>6, <1>7, <1>8, <1>9, AppendMoves

LEMMA AppendInvariant == Spec => []AppendInv
<1>1. Init => AppendInv
  <2>1. Init => ClaimIsHeld /\ AppendsAreCounted
    BY DEF Init, CallInit, ClaimIsHeld, AppendsAreCounted
  <2> QED
    BY <2>1, TypeInit DEF AppendInv
<1>2. AppendInv /\ [Next]_vars => AppendInv'
  BY AppendStep, TypeStep DEF AppendInv
<1> QED
  BY <1>1, <1>2, PTL DEF Spec

\* Once the database says that the handoff was appended, it stays said, and no further
\* turn with it is started: by no finalization, no flush of the worker, and no restart.
THEOREM AppendedStaysAppended == Spec => AppendedIsFinal
<1>1. AppendInv /\ [Next]_vars =>
        [claim = "appended" => claim' = "appended" /\ appends' = appends]_<<claim, appends>>
  BY AppendStep
<1> QED
  BY <1>1, AppendInvariant, PTL DEF Spec, AppendedIsFinal

\* The handoff is accepted as a turn at most once in each life of the daemon: only a
\* crash in the middle of a turn, whose end nobody records, can lead to another.
AppendedOncePerLife == appends <= crashes + 1

THEOREM OneAppendPerLife == Spec => []AppendedOncePerLife
<1>1. AppendInv => AppendedOncePerLife
  BY CallAssumption DEF AppendInv, TypeInv, AppendTyped, CountsTyped, AppendsAreCounted, AppendedOncePerLife
<1> QED
  BY <1>1, AppendInvariant, PTL

\* Without a crash the handoff is appended to the thread once, although finalization and
\* worker both retry it, and stop waiting while it goes on.
THEOREM HandoffIsAppendedOnce == MaxCrashes = 0 => (Spec => []HandedOffOnce)
<1> SUFFICES ASSUME MaxCrashes = 0 PROVE Spec => []HandedOffOnce
  OBVIOUS
<1>1. TypeInv /\ AppendedOncePerLife => HandedOffOnce
  BY DEF TypeInv, AppendTyped, CountsTyped, AppendedOncePerLife, HandedOffOnce
<1> QED
  BY <1>1, TypeInvariant, OneAppendPerLife, PTL

----------------------------------------------------------------------------
(* The count of calls for the day.                                         *)

\* A count is marked, or the daemon died before it was; whoever is past the store has
\* seen to it.
CallIsCounted ==
  /\ usage.count <= crashes + (IF usage.marked THEN 1 ELSE 0)
  /\ usage.marked => usage.count >= 1
  /\ finPc \in {"handoff", "waiting", "recap"} \/ cleared => usage.marked

CountInv == TypeInv /\ CallIsCounted

LEMMA CountStep == ASSUME CountInv, [Next]_vars PROVE CallIsCounted'
<1> USE DEF CountInv, CallIsCounted
<1>0. /\ usage \in [count : Nat, marked : BOOLEAN] /\ crashes \in Nat
      /\ usage.count \in Nat /\ usage.marked \in BOOLEAN
  BY CallAssumption DEF TypeInv, CountsTyped
<1>1. CASE StoreReturns
  BY <1>0, <1>1 DEF StoreReturns, UsageCounted, past
<1>2. CASE ClearCall
  BY <1>0, <1>2 DEF ClearCall, EndFinalize
<1>3. CASE CrashBridge
  <2>1. CASE usage' = usage
    BY <1>0, <1>3, <2>1 DEF CrashBridge
  <2>2. CASE usage' # usage
    <3>1. ~usage.marked /\ usage' = [usage EXCEPT !.count = @ + 1]
      BY <1>3, <2>2 DEF CrashBridge
    <3>2. usage'.count = usage.count + 1 /\ usage'.marked = usage.marked
      BY <1>0, <3>1
    <3> QED
      BY <1>0, <1>3, <3>1, <3>2 DEF CrashBridge
  <2> QED
    BY <2>1, <2>2
<1>4. CASE UNCHANGED <<usage, crashes, cleared>> /\ ~StoreReturns /\ ~ClearCall /\ ~CrashBridge
  <2>1. \A c, who : Finalize(c, who) => finPc' = "stages"
    BY DEF Finalize
  <2>2. finPc' \in {"handoff", "waiting", "recap"} => finPc \in {"handoff", "waiting", "recap"}
    <3>1. CASE CreateCall \/ ContextMissing \/ ContextStored
      BY <3>1 DEF CreateCall, ContextMissing, ContextStored, fin
    <3>2. CASE AppendEvent \/ TakeGatewayHangup \/ HangUp \/ RestartBridge
      BY <2>1, <3>2 DEF AppendEvent, TakeGatewayHangup, HangUp, RestartBridge, fin
    <3>3. CASE StagesSettle \/ StagesTimeOut \/ StoreEnds \/ StoreLists
      BY <3>3 DEF StagesSettle, StagesTimeOut, StoreEnds, StoreLists, EndFinalize
    <3>4. CASE SkipAppend \/ AttemptAppend
      BY <3>4 DEF SkipAppend, AttemptAppend
    <3>5. CASE AppendFails \/ AppendCompletes \/ WaitTimesOut
      BY <3>5 DEF AppendFails, AppendCompletes, WaitTimesOut, WaitersDefer, MarkAppended
    <3> QED
      BY <1>4, <3>1, <3>2, <3>3, <3>4, <3>5, CallMoves
  <2> QED
    BY <1>4, <2>2
<1> QED
  BY <1>1, <1>2, <1>3, <1>4, CountsMove

LEMMA CountInvariant == Spec => []CountInv
<1>1. Init => CountInv
  <2>1. Init => CallIsCounted
    BY CallAssumption DEF Init, CallInit, CallIsCounted
  <2> QED
    BY <2>1, TypeInit DEF CountInv
<1>2. CountInv /\ [Next]_vars => CountInv'
  BY CountStep, TypeStep DEF CountInv
<1> QED
  BY <1>1, <1>2, PTL DEF Spec

\* Every finalization of a call, and there may be several, counts it once in all; it is
\* counted by the time its record is cleared.  A daemon that dies between the count and
\* its mark counts the call again, hence the hypothesis.
THEOREM CallIsCountedOnce == MaxCrashes = 0 => (Spec => []CountedOnce)
<1> SUFFICES ASSUME MaxCrashes = 0 PROVE Spec => []CountedOnce
  OBVIOUS
<1>1. CountInv => CountedOnce
  BY DEF CountInv, TypeInv, CountsTyped, CallIsCounted, CountedOnce
<1> QED
  BY <1>1, CountInvariant, PTL

----------------------------------------------------------------------------
(* Who finalizes, and what the record says meanwhile.                      *)

\* finalizeCall runs inside the handler of a gateway message, inside that of a Telegram
\* update, or at start-up before the first of those; a dead daemon runs no handler.
FinalizerIsBusy ==
  /\ finPc = "none" <=> finBy = "nobody"
  /\ finBy = "chain" <=> chainPc = "finalize"
  /\ finBy = "poll" <=> pollPc = "hangup"
  /\ finBy = "start" => pollPc = "idle"
  /\ ~up => chainPc = "idle" /\ pollPc = "idle"

LEMMA FinalizerStep == ASSUME FinalizerIsBusy, [Next]_vars PROVE FinalizerIsBusy'
<1> USE DEF FinalizerIsBusy
<1>1. CASE UNCHANGED vars \/ (Gateway /\ UNCHANGED bridge)
  BY <1>1 DEF vars, bridge, chain, poll, fin
<1>2. CASE TakePrepare \/ RefuseCall \/ CreateCall \/ ContextBuilt
  BY <1>2 DEF TakePrepare, RefuseCall, CreateCall, ContextBuilt, ChainIdle, poll, fin
<1>3. CASE ContextMissing \/ ContextStored \/ \E e \in CallEvent : TakeEvent(e)
  BY <1>3 DEF ContextMissing, ContextStored, TakeEvent, ChainIdle, chain, poll, fin
<1>4. \A c, who : Finalize(c, who) => finPc = "none" /\ finPc' = "stages" /\ finBy' = who
  BY DEF Finalize
<1>5. CASE AppendEvent \/ TakeGatewayHangup
  BY <1>4, <1>5 DEF AppendEvent, TakeGatewayHangup, ChainIdle, poll, fin
<1>6. CASE HangUp \/ RestartBridge
  BY <1>4, <1>6 DEF HangUp, RestartBridge, PollIdle, chain, poll, fin
<1>7. CASE \E i \in Items : StageItem(i) \/ StageInserts(i) \/ StageFails(i) \/ AttachItem(i)
  BY <1>7 DEF StageItem, StageInserts, StageFails, AttachItem, PollIdle, Booting, chain, fin
<1>8. CASE StagesTimeOut \/ ClearCall
  BY <1>8 DEF StagesTimeOut, ClearCall, EndFinalize
<1>9. CASE StagesSettle \/ StoreEnds \/ StoreLists \/ StoreReturns
  BY <1>9 DEF StagesSettle, StoreEnds, StoreLists, StoreReturns, chain, poll
<1>10. CASE SkipAppend \/ AttemptAppend
  BY <1>10 DEF SkipAppend, AttemptAppend, MarkAppended, Defer, chain, poll
<1>11. CASE AppendStarts \/ FlushPending \/ ClaimAges \/ SessionTaken
  BY <1>11 DEF AppendStarts, FlushPending, ClaimAges, SessionTaken, chain, poll, fin
<1>12. CASE AppendFails \/ AppendCompletes \/ WaitTimesOut
  BY <1>12 DEF AppendFails, AppendCompletes, WaitTimesOut, WaitersDefer, MarkAppended, chain, poll
<1>13. CASE CrashBridge
  BY <1>13 DEF CrashBridge
<1> QED
  BY <1>1, <1>2, <1>3, <1>5, <1>6, <1>7, <1>8, <1>9, <1>10, <1>11, <1>12, <1>13, Steps DEF DaemonSteps

\* A record that is there has files; what a handler holds of it is a record that was
\* there; and a finalization works on one that stays there until it is done.
CallIsFiled ==
  /\ call.status = "none" => call = NoCall
  /\ call.status # "none" => file # "none"
  /\ chainPc \in {"pack", "event"} => chainCall.status # "none" /\ file # "none"
  /\ finPc # "none" => finCall.status = "finalizing" /\ call.status # "none"
  /\ finBy = "chain" => call.status \in {"finalizing", "ended"}

LEMMA FiledStep ==
  ASSUME CallTyped, FileTyped, FinalizerIsBusy, CallIsFiled, [Next]_vars
  PROVE  CallIsFiled' /\ (call'.status = "none" => call.status = "none" \/ ClearCall)
<1> USE NoCallTyped, RecordFields DEF CallTyped, CallIsFiled
<1>1. file # "none" => file' # "none"
  BY FilesMove DEF files, CreateCall, AppendEvent, FileAfter, StoreEnds, StoreLists, ClearCall,
     StageInserts, AttachItem
<1>2. ASSUME NEW c \in Call, c.status # "none", UpdateIfCurrent(c)
      PROVE  /\ call'.status = "none" => call' = NoCall
             /\ call'.status = "none" <=> call.status = "none"
             /\ call.status # "none" => call' = c
  BY <1>2 DEF UpdateIfCurrent
<1>3. ASSUME NEW c \in Call, NEW who, Finalize(c, who)
      PROVE  /\ call'.status = "finalizing" /\ finCall' = call' /\ c.status # "none"
             /\ finPc = "none" /\ finPc' = "stages" /\ finBy' = who
  <2>1. [c EXCEPT !.status = "finalizing"].status = "finalizing"
    OBVIOUS
  <2> QED
    BY <1>3, <2>1 DEF Finalize, NeedsFinalization
<1>4. CASE UNCHANGED <<call, chain, fin>>
  BY <1>1, <1>4 DEF chain, fin
<1>5. CASE TakePrepare \/ RefuseCall
  BY <1>1, <1>5 DEF TakePrepare, RefuseCall, database, fin
<1>6. CASE ContextBuilt \/ \E e \in CallEvent : TakeEvent(e)
  BY <1>1, <1>6 DEF ContextBuilt, TakeEvent, Live, database, chain, fin
<1>7. CASE CreateCall
  BY <1>7 DEF CreateCall, NeedsFinalization, fin
<1>8. CASE ContextMissing
  BY <1>1, <1>8 DEF ContextMissing, NeedsFinalization, fin
<1>9. CASE ContextStored
  BY <1>1, <1>2, <1>9 DEF ContextStored, FinalizerIsBusy, fin
<1>10. CASE AppendEvent
  <2>1. file' # "none" /\ file' \in {"starting", "active", "ended"}
    BY <1>1, <1>10 DEF AppendEvent, FileAfter, FileTyped
  <2>2. [chainCall EXCEPT !.status = file'] \in Call /\ [chainCall EXCEPT !.status = file'].status = file'
    BY <2>1
  <2>3. CASE Finalize([chainCall EXCEPT !.status = file'], "chain") /\ chainPc' = "finalize"
    BY <1>3, <2>1, <2>2, <2>3
  <2>4. CASE call' = AppendedRecord /\ chainPc' = "idle" /\ UNCHANGED fin
    <3>1. AppendedRecord = IF call = NoCall THEN call ELSE [chainCall EXCEPT !.status = file']
      BY <1>10 DEF AppendEvent, AppendedRecord
    <3>2. finBy # "chain"
      BY <1>10 DEF AppendEvent, FinalizerIsBusy
    <3> QED
      BY <2>1, <2>2, <2>4, <3>1, <3>2 DEF fin
  <2> QED
    BY <1>10, <2>3, <2>4 DEF AppendEvent
<1>11. CASE TakeGatewayHangup \/ HangUp \/ RestartBridge
  BY <1>1, <1>3, <1>4, <1>11 DEF TakeGatewayHangup, HangUp, RestartBridge, NeedsFinalization, chain, fin
<1>12. CASE StagesTimeOut \/ ClearCall
  BY <1>1, <1>12 DEF StagesTimeOut, ClearCall, EndFinalize, database
<1>13. CASE StagesSettle \/ StoreLists \/ SkipAppend
  BY <1>1, <1>13 DEF StagesSettle, StoreLists, SkipAppend, database, chain
<1>14. CASE StoreEnds
  <2>1. [finCall EXCEPT !.status = "ended"] \in Call /\ [finCall EXCEPT !.status = "ended"].status = "ended"
    OBVIOUS
  <2>2. finPc = "store" /\ finPc' = "listing" /\ UpdateIfCurrent([finCall EXCEPT !.status = "ended"])
    BY <1>14 DEF StoreEnds
  <2>3. call'.status = "ended"
    <3>1. call # NoCall
      BY <2>2
    <3> QED
      BY <2>1, <2>2, <3>1 DEF UpdateIfCurrent
  <2> QED
    BY <1>1, <1>14, <2>2, <2>3 DEF StoreEnds, chain
<1>15. CASE StoreReturns
  BY <1>1, <1>15 DEF StoreReturns, chain
<1>16. CASE AttemptAppend \/ AppendCompletes
  <2>1. [finCall EXCEPT !.appended = TRUE] \in Call
        /\ [finCall EXCEPT !.appended = TRUE].status = finCall.status
    OBVIOUS
  <2>2. finPc # "none" /\ UpdateIfCurrent([finCall EXCEPT !.appended = TRUE])
        => call'.status = "finalizing"
    BY <1>2, <2>1
  <2>3. CASE UNCHANGED <<call, finCall>>
    BY <1>1, <1>16, <2>3 DEF AttemptAppend, AppendCompletes, chain
  <2>4. CASE MarkAppended /\ finPc # "none"
    BY <1>1, <1>16, <2>1, <2>2, <2>4 DEF AttemptAppend, AppendCompletes, MarkAppended, chain
  <2> QED
    BY <1>16, <2>3, <2>4 DEF AttemptAppend, AppendCompletes
<1>17. CASE AppendFails \/ WaitTimesOut
  BY <1>1, <1>17 DEF AppendFails, WaitTimesOut, WaitersDefer, chain
<1>18. CASE CrashBridge
  BY <1>1, <1>18 DEF CrashBridge
<1> QED
  BY <1>4, <1>5, <1>6, <1>7, <1>8, <1>9, <1>10, <1>11, <1>12, <1>13, <1>14, <1>15, <1>16, <1>17, <1>18,
     CallMoves, ChainMoves DEF fin

\* The gateway asks for one call, as the first thing it ever says; until that call is
\* created there are no files of it.
AskedOnce ==
  /\ chainPc = "ready" => file = "none"
  /\ \A i \in 1..Len(toBridge) :
       toBridge[i] = "prepare" => i = 1 /\ file = "none" /\ chainPc = "idle"
  /\ session = "none" => toBridge = << >> /\ file = "none" /\ chainPc = "idle"

LEMMA AskedStep ==
  ASSUME TypeInv, CallIsFiled, AskedOnce, [Next]_vars
  PROVE  AskedOnce' /\ (file = "none" => CreateCall \/ file' = "none")
<1> USE DEF AskedOnce
<1>0. toBridge \in Seq(BridgeMessage)
  BY DEF TypeInv, ChannelTyped
<1>1. file = "none" => CreateCall \/ file' = "none"
  BY FilesMove DEF files, AppendEvent, StoreEnds, StoreLists, ClearCall, StageInserts, AttachItem,
     CallIsFiled
<1> SUFFICES AskedOnce'
  BY <1>1
<1>2. CASE Gateway /\ UNCHANGED bridge
  <2>1. UNCHANGED <<file, chainPc>>
    BY <1>2 DEF bridge, files, chain
  <2>0. session' = "none" => session = "none"
    BY <1>2 DEF Gateway, Bootstrap, BridgeAllows, BridgeRefuses, BootstrapGivesUp,
       SessionCreated, LateAnswer, BrowserConnects, BrowserReports, BrowserLeaves,
       BrowserFinalizes, EndSession, FinalizeDeadline, RequestShutdown, TakeHangup, gateway
  <2>2. CASE UNCHANGED toBridge
    BY <2>0, <2>1, <2>2
  <2>3. CASE Bootstrap /\ toBridge' = Append(toBridge, "prepare")
    BY <1>0, <2>1, <2>3 DEF Bootstrap
  <2>4. CASE session # "none" /\ \E m \in BridgeMessage \ {"prepare"} : ToBridge(m)
    <3>1. PICK m \in BridgeMessage \ {"prepare"} : ToBridge(m)
      BY <2>4
    <3>2. Len(toBridge') = Len(toBridge) + 1
          /\ \A i \in 1..Len(toBridge') : toBridge'[i] = IF i = Len(toBridge) + 1 THEN m ELSE toBridge[i]
      BY <1>0, <3>1 DEF ToBridge
    <3> QED
      BY <1>0, <2>0, <2>1, <2>4, <3>1, <3>2
  <2> QED
    BY <1>2, <2>2, <2>3, <2>4, GatewaySends
<1>3. ASSUME UNCHANGED <<session, toBridge>>, file = "none" => file' = "none", chainPc = "idle" => chainPc' = "idle",
             chainPc' = "ready" => chainPc = "ready"
      PROVE  AskedOnce'
  BY <1>3
<1>4. ASSUME NEW m \in BridgeMessage, BridgeTakes(m), UNCHANGED <<session, file>>,
             chainPc = "idle", chainPc' = "ready" => m = "prepare"
      PROVE  AskedOnce'
  <2>1. Len(toBridge') = Len(toBridge) - 1 /\ \A i \in 1..Len(toBridge') : toBridge'[i] = toBridge[i + 1]
    BY <1>0, <1>4 DEF BridgeTakes
  <2>2. \A i \in 1..Len(toBridge') : i + 1 \in 1..Len(toBridge) /\ i + 1 # 1
    BY <1>0, <2>1
  <2>3. \A i \in 1..Len(toBridge') : toBridge'[i] # "prepare"
    BY <2>1, <2>2
  <2>4. 1 \in 1..Len(toBridge) /\ toBridge[1] = m /\ session # "none"
    BY <1>0, <1>4 DEF BridgeTakes
  <2> QED
    BY <1>4, <2>3, <2>4
<1>5. CASE DaemonSteps /\ UNCHANGED gateway /\ ~(Gateway /\ UNCHANGED bridge)
  <2>0. UNCHANGED session
    BY <1>5 DEF gateway
  <2>1. CASE TakePrepare
    <3>1. "prepare" \in BridgeMessage
      BY DEF BridgeMessage
    <3> QED
      BY <1>4, <2>0, <2>1, <3>1 DEF TakePrepare, ChainIdle, files
  <2>2. CASE TakeGatewayHangup
    <3>1. "hangup" \in BridgeMessage /\ chainPc' # "ready"
      BY <2>2 DEF BridgeMessage, TakeGatewayHangup, ChainIdle
    <3> QED
      BY <1>4, <2>0, <2>2, <3>1 DEF TakeGatewayHangup, ChainIdle, files
  <2>3. CASE \E e \in CallEvent : TakeEvent(e)
    <3>0. PICK e \in CallEvent : TakeEvent(e)
      BY <2>3
    <3>1. e \in BridgeMessage /\ chainPc' # "ready"
      BY <3>0 DEF BridgeMessage, CallEvent, TakeEvent, ChainIdle, chain
    <3> QED
      BY <1>4, <2>0, <3>0, <3>1 DEF TakeEvent, ChainIdle, files
  <2>4. CASE CreateCall
    <3>1. chainPc = "ready" /\ chainPc' = "context" /\ UNCHANGED toBridge
      BY <2>4 DEF CreateCall, channel
    <3>2. session' # "none" /\ chainPc' # "ready"
      BY <2>0, <3>1
    <3>3. \A i \in 1..Len(toBridge') : toBridge'[i] # "prepare"
      BY <3>1
    <3> QED
      BY <3>2, <3>3
  <2>5. CASE CrashBridge
    <3>1. toBridge' = << >> /\ file' = file /\ chainPc' = "idle"
      BY <2>5 DEF CrashBridge, files
    <3> QED
      BY <2>0, <3>1
  <2>6. CASE ~TakePrepare /\ ~TakeGatewayHangup /\ ~CreateCall /\ ~CrashBridge
             /\ ~(\E e \in CallEvent : TakeEvent(e))
    <3>1. UNCHANGED toBridge
      BY <1>5, <2>6, ChannelMoves
         DEF RefuseCall, ContextMissing, ContextStored, HangUp, RestartBridge, channel
    <3>2. (chainPc = "idle" => chainPc' = "idle") /\ (chainPc' = "ready" => chainPc = "ready")
      BY <2>6, ChainMoves DEF chain, RefuseCall, ContextBuilt, ContextMissing, ContextStored,
         AppendEvent, StagesTimeOut, ClearCall, EndFinalize
    <3> QED
      BY <1>1, <1>3, <2>0, <2>6, <3>1, <3>2
  <2> QED
    BY <2>1, <2>2, <2>3, <2>4, <2>5, <2>6
<1>6. CASE UNCHANGED vars
  BY <1>6 DEF vars, channel, gateway, bridge, files, chain
<1> QED
  BY <1>1, <1>2, <1>5, <1>6, Steps

----------------------------------------------------------------------------
(* Nobody loses the handoff.                                               *)

\* A record says that its handoff was appended only if the database says so.
MarksAgree == \A c \in {call, chainCall, finCall} : c.appended => claim = "appended"

\* The handoff was appended, or waits in the queue of pending handoffs.
Kept == claim = "appended" \/ pending

\* Whoever is about to clear the record, or has cleared it, has seen to that.
NobodyForgets == handoff # Nothing /\ (call = NoCall \/ finPc = "recap") => Kept

RecordsInv ==
  /\ AppendInv
  /\ FinalizerIsBusy /\ CallIsFiled /\ AskedOnce
  /\ MarksAgree /\ NobodyForgets

LEMMA MarksStep ==
  ASSUME CallTyped, FileTyped, MarksAgree, claim = "appended" => claim' = "appended", [Next]_vars
  PROVE  MarksAgree'
<1> USE NoCallTyped, RecordFields DEF CallTyped, MarksAgree
<1>0. \A b \in {call.appended, chainCall.appended, finCall.appended} : b => claim' = "appended"
  OBVIOUS
<1>1. chainCall' \in {chainCall, call, NoCall}
  BY ChainMoves DEF chain, TakePrepare, RefuseCall, CreateCall, ContextBuilt, ContextMissing,
     ContextStored, TakeEvent, AppendEvent, TakeGatewayHangup, StagesTimeOut, ClearCall, CrashBridge
<1>2. \A c : UpdateIfCurrent(c) => call' \in {call, c}
  BY DEF UpdateIfCurrent
<1>3. ASSUME NEW c \in Call, NEW who, Finalize(c, who)
      PROVE  call'.appended = c.appended /\ finCall' = call'
  <2>1. [c EXCEPT !.status = "finalizing"].appended = c.appended
    OBVIOUS
  <2> QED
    BY <1>3, <2>1 DEF Finalize
<1>4. (call'.appended => claim' = "appended") /\ (finCall'.appended => claim' = "appended")
  <2>1. CASE UNCHANGED <<call, finCall>>
    BY <2>1
  <2>2. CASE CreateCall
    BY <2>2 DEF CreateCall, fin
  <2>3. CASE ContextMissing \/ ContextStored
    BY <1>2, <2>3 DEF ContextMissing, ContextStored, fin
  <2>4. CASE AppendEvent
    <3>1. file' \in {"none", "starting", "active", "ended"}
      BY <2>4 DEF AppendEvent, FileAfter, FileTyped
    <3>2. [chainCall EXCEPT !.status = file'] \in Call
          /\ [chainCall EXCEPT !.status = file'].appended = chainCall.appended
      BY <3>1 DEF Call
    <3>3. CASE Finalize([chainCall EXCEPT !.status = file'], "chain")
      <4>1. [[chainCall EXCEPT !.status = file'] EXCEPT !.status = "finalizing"].appended
              = chainCall.appended
        BY <3>1 DEF Call
      <4>2. call'.appended = chainCall.appended /\ finCall' = call'
        BY <3>3, <4>1 DEF Finalize
      <4> QED
        BY <1>0, <4>2
    <3>4. CASE call' = AppendedRecord /\ UNCHANGED fin
      <4>1. AppendedRecord \in {call, [chainCall EXCEPT !.status = file']}
        BY <2>4 DEF AppendEvent, AppendedRecord
      <4>2. call'.appended \in {call.appended, chainCall.appended} /\ finCall' = finCall
        BY <3>2, <3>4, <4>1 DEF fin
      <4> QED
        BY <1>0, <4>2
    <3> QED
      BY <2>4, <3>3, <3>4 DEF AppendEvent
  <2>5. CASE TakeGatewayHangup \/ HangUp \/ RestartBridge
    BY <1>3, <2>1, <2>5 DEF TakeGatewayHangup, HangUp, RestartBridge, fin
  <2>6. CASE StoreEnds
    <3>1. [finCall EXCEPT !.status = "ended"].appended = finCall.appended
      OBVIOUS
    <3>2. call' \in {call, [finCall EXCEPT !.status = "ended"]} /\ finCall' = finCall
      BY <2>6 DEF StoreEnds, UpdateIfCurrent
    <3>3. call'.appended \in {call.appended, finCall.appended}
      BY <3>1, <3>2
    <3> QED
      BY <1>0, <3>2, <3>3
  <2>7. CASE MarkAppended /\ claim' = "appended"
    BY <2>7
  <2>8. CASE StagesTimeOut \/ ClearCall \/ CrashBridge \/ StoreReturns
    BY <2>8 DEF StagesTimeOut, ClearCall, CrashBridge, StoreReturns, EndFinalize, database
  <2> QED
    BY <2>1, <2>2, <2>3, <2>4, <2>5, <2>6, <2>7, <2>8, CallMoves
       DEF StagesSettle, StoreLists, SkipAppend, AttemptAppend, AppendFails, AppendCompletes,
           WaitTimesOut, database
<1> QED
  BY <1>1, <1>4

LEMMA KeptStep == ASSUME AppendInv, Kept, [Next]_vars PROVE Kept'
<1>1. claim = "appended" => claim' = "appended"
  BY AppendStep
<1> QED
  BY <1>1, AppendMoves, Zenon DEF Kept, AttemptAppend, Defer, AppendStarts, AppendFails, AppendCompletes,
     WaitTimesOut, WaitersDefer, FlushPending, ClaimAges, CrashBridge, database


LEMMA RecapComes ==
  ASSUME AppendInv, MarksAgree, [Next]_vars, finPc # "recap", finPc' = "recap", handoff # Nothing
  PROVE  Kept'
<1>0. claim = "appended" => claim' = "appended"
  BY AppendStep
<1>1. CASE CreateCall \/ ContextMissing \/ ContextStored
  BY <1>1 DEF CreateCall, ContextMissing, ContextStored, fin
<1>2. CASE AppendEvent \/ TakeGatewayHangup \/ HangUp \/ RestartBridge
  BY <1>2 DEF AppendEvent, TakeGatewayHangup, HangUp, RestartBridge, Finalize, fin
<1>3. CASE StagesSettle \/ StagesTimeOut \/ StoreEnds \/ StoreLists \/ StoreReturns
  BY <1>3 DEF StagesSettle, StagesTimeOut, StoreEnds, StoreLists, StoreReturns, EndFinalize
<1>4. CASE SkipAppend
  BY <1>0, <1>4 DEF SkipAppend, MarksAgree, Kept
<1>5. CASE AttemptAppend
  BY <1>0, <1>5 DEF AttemptAppend, Defer, Kept
<1>6. CASE AppendFails \/ WaitTimesOut
  <2>1. finPc = "waiting" /\ pending' = (pending \/ finPc = "waiting")
    BY <1>6 DEF AppendFails, WaitTimesOut, WaitersDefer
  <2> QED
    BY <2>1, Zenon DEF Kept
<1>7. CASE AppendCompletes
  BY <1>7 DEF AppendCompletes, Kept
<1>8. CASE ClearCall \/ CrashBridge
  BY <1>8 DEF ClearCall, CrashBridge, EndFinalize
<1> QED
  BY <1>1, <1>2, <1>3, <1>4, <1>5, <1>6, <1>7, <1>8, CallMoves

LEMMA ForgetsStep == ASSUME RecordsInv, [Next]_vars PROVE NobodyForgets'
<1> USE DEF RecordsInv
<1>1. CASE Kept
  BY <1>1, KeptStep DEF NobodyForgets
<1>2. CASE StoreLists
  <2>1. finPc = "listing" /\ finPc' = "summarize" /\ call' = call
    BY <1>2 DEF StoreLists, database
  <2>2. call # NoCall
    BY <2>1, NoCallTyped DEF CallIsFiled
  <2> QED
    BY <2>1, <2>2 DEF NobodyForgets
<1>3. CASE ~Kept /\ ~StoreLists
  <2>1. handoff' = handoff
    BY <1>3, FilesMove DEF files, CreateCall, AppendEvent, StoreEnds, ClearCall, StageInserts, AttachItem
  <2>2. CASE handoff = Nothing
    BY <2>1, <2>2 DEF NobodyForgets
  <2>3. CASE handoff # Nothing
    <3>1. call # NoCall /\ finPc # "recap"
      BY <1>3, <2>3 DEF NobodyForgets
    <3>2. call'.status # "none"
      BY <3>1, FiledStep DEF CallIsFiled, AppendInv, TypeInv, ClearCall
    <3>3. call' # NoCall
      BY <3>2, NoCallTyped
    <3> QED
      BY <2>3, <3>1, <3>3, RecapComes DEF NobodyForgets
  <2> QED
    BY <2>2, <2>3
<1> QED
  BY <1>1, <1>2, <1>3

LEMMA RecordsInvariant == Spec => []RecordsInv
<1>1. Init => RecordsInv
  <2> SUFFICES ASSUME Init PROVE RecordsInv
    OBVIOUS
  <2> USE NoCallTyped DEF Init, ChannelInit, GatewayInit, CallInit
  <2>1. AppendInv
    <3>1. ClaimIsHeld /\ AppendsAreCounted
      BY DEF ClaimIsHeld, AppendsAreCounted
    <3> QED
      BY <3>1, TypeInit DEF AppendInv
  <2>2. FinalizerIsBusy /\ CallIsFiled /\ MarksAgree
    BY DEF FinalizerIsBusy, CallIsFiled, MarksAgree
  <2>3. AskedOnce /\ NobodyForgets
    BY DEF AskedOnce, NobodyForgets
  <2> QED
    BY <2>1, <2>2, <2>3 DEF RecordsInv
<1>2. RecordsInv /\ [Next]_vars => RecordsInv'
  <2> SUFFICES ASSUME RecordsInv, [Next]_vars PROVE RecordsInv'
    OBVIOUS
  <2> USE DEF RecordsInv
  <2>1. AppendInv' /\ (claim = "appended" => claim' = "appended")
    BY AppendStep, TypeStep DEF AppendInv
  <2>2. TypeInv /\ CallTyped /\ FileTyped
    BY DEF AppendInv, TypeInv
  <2>3. FinalizerIsBusy' /\ CallIsFiled' /\ AskedOnce'
    BY <2>2, FinalizerStep, FiledStep, AskedStep
  <2>4. MarksAgree' /\ NobodyForgets'
    BY <2>1, <2>2, MarksStep, ForgetsStep
  <2> QED
    BY <2>1, <2>3, <2>4
<1> QED
  BY <1>1, <1>2, PTL DEF Spec

\* A call's handoff is never in nobody's hands: when the record is cleared the handoff was
\* appended, or it waits in the queue, whatever timed out, failed, crashed or came late.
THEOREM HandoffIsNeverLost == Spec => []HandoffIsKept
<1>1. RecordsInv => HandoffIsKept
  BY DEF RecordsInv, NobodyForgets, Kept, HandoffIsKept
<1> QED
  BY <1>1, RecordsInvariant, PTL

----------------------------------------------------------------------------
(* What the user was told is captured.                                     *)

CapturedItems == {i \in Items : item[i] = "captured"}

\* A captured item is in the ledger of the call and, from the listing of its attachments
\* on, in the handoff: nobody stages an item while a finalization lists them.
CaptureIsKept ==
  /\ CapturedItems \subseteq ledger.items
  /\ file = "none" => CapturedItems = {}
  /\ Staging => finPc \in {"none", "stages"} /\ call # NoCall
  /\ call = NoCall \/ finPc \in {"summarize", "handoff", "waiting", "recap"}
       => CapturedItems \subseteq handoff.items

CaptureInv == RecordsInv /\ CaptureIsKept

LEMMA StagingStep ==
  ASSUME CaptureInv, [Next]_vars, Staging'
  PROVE  finPc' \in {"none", "stages"} /\ call' # NoCall
<1> USE DEF CaptureInv, RecordsInv
<1>0. CallTyped /\ FileTyped
  BY DEF AppendInv, TypeInv
<1>1. ASSUME NEW i \in Items, StageItem(i)
      PROVE  finPc' = "none" /\ call' # NoCall
  <2>1. Live(call) /\ pollPc = "idle" /\ finBy # "start" /\ UNCHANGED <<call, finPc>>
    BY <1>1 DEF StageItem, PollIdle, Booting, fin, database
  <2>2. finBy = "nobody"
    BY <2>1, <1>0 DEF FinalizerIsBusy, CallIsFiled, Live, AppendInv, TypeInv, PlacesTyped
  <2> QED
    BY <2>1, <2>2, NoCallTyped DEF FinalizerIsBusy, Live
<1>2. CASE Staging
  <2>1. finPc \in {"none", "stages"} /\ call # NoCall /\ call.status # "none"
    BY <1>2 DEF CaptureIsKept, CallIsFiled
  <2>2. ~ClearCall /\ call' # NoCall
    BY <1>0, <2>1, FiledStep, NoCallTyped DEF ClearCall
  <2>3. finPc' \in {"none", "stages"}
    BY <1>2, <2>1, <2>2, CallMoves
       DEF fin, CreateCall, ContextMissing, ContextStored, AppendEvent, TakeGatewayHangup, HangUp,
           RestartBridge, Finalize, StagesSettle, StagesTimeOut, EndFinalize, StoreEnds, StoreLists,
           StoreReturns, SkipAppend, AttemptAppend, AppendFails, AppendCompletes, WaitTimesOut,
           WaitersDefer, CrashBridge
  <2> QED
    BY <2>2, <2>3
<1>3. CASE ~Staging
  <2>1. \E i \in Items : StageItem(i)
    BY <1>3, PollMoves DEF Staging, poll, HangUp, StagesTimeOut, ClearCall, EndFinalize, CrashBridge,
       StageInserts, StageFails, AttachItem
  <2> QED
    BY <1>1, <2>1
<1> QED
  BY <1>2, <1>3

LEMMA CaptureStep == ASSUME CaptureInv, [Next]_vars PROVE CaptureIsKept'
<1> USE DEF CaptureInv, RecordsInv
<1>0. /\ CallTyped /\ FileTyped /\ TypeInv
      /\ item \in [Items -> {"unsent", "staging", "captured", "refused"}]
      /\ ledger \in Content /\ handoff \in Content
      /\ CapturedItems \subseteq ledger.items
      /\ file = "none" => CapturedItems = {}
  BY DEF AppendInv, TypeInv, ContentsTyped, CaptureIsKept
<1>1. Staging' => finPc' \in {"none", "stages"} /\ call' # NoCall
  BY StagingStep
<1>2. ASSUME NEW i \in Items, AttachItem(i) PROVE CaptureIsKept'
  <2>1. UNCHANGED <<call, finPc, file>> /\ finPc \in {"none", "stages"} /\ call # NoCall
    BY <1>2 DEF AttachItem, CaptureIsKept, Staging, files, database, fin
  <2>2. CASE AcceptsItems
    <3>1. ledger'.items = ledger.items \cup {i}
      BY <1>0, <1>2, <2>2 DEF AttachItem, Content
    <3>2. CapturedItems' \subseteq CapturedItems \cup {i}
      BY <1>0, <1>2, <2>2 DEF AttachItem, CapturedItems
    <3> QED
      BY <1>0, <1>1, <2>1, <2>2, <3>1, <3>2 DEF CaptureIsKept, AcceptsItems
  <2>3. CASE ~AcceptsItems
    <3>1. ledger' = ledger /\ CapturedItems' \subseteq CapturedItems
      BY <1>0, <1>2, <2>3 DEF AttachItem, CapturedItems
    <3> QED
      BY <1>0, <1>1, <2>1, <3>1 DEF CaptureIsKept
  <2> QED
    BY <2>2, <2>3
<1>3. CASE ~\E i \in Items : AttachItem(i)
  <2>1. CapturedItems' \subseteq CapturedItems
    BY <1>0, <1>3, PollMoves
       DEF CapturedItems, poll, HangUp, StagesTimeOut, ClearCall, CrashBridge, StageItem,
           StageInserts, StageFails
  <2>2. CapturedItems' \subseteq ledger'.items
    <3>1. CASE CreateCall
      BY <1>0, <2>1, <3>1 DEF CreateCall, AskedOnce
    <3>2. CASE AppendEvent \/ StoreEnds
      <4>1. ledger'.items = ledger.items
        BY <1>0, <3>2 DEF AppendEvent, StoreEnds, Content
      <4> QED
        BY <1>0, <2>1, <4>1
    <3>3. CASE UNCHANGED ledger
      BY <1>0, <2>1, <3>3
    <3> QED
      BY <1>3, <3>1, <3>2, <3>3, FilesMove DEF files, StoreLists, ClearCall, StageInserts
  <2>3. file' = "none" => CapturedItems' = {}
    BY <1>0, <2>1, FilesMove DEF files, CreateCall, AppendEvent, FileAfter, StoreEnds, StoreLists,
       ClearCall, StageInserts, AttachItem
  <2>4. ASSUME call' = NoCall \/ finPc' \in {"summarize", "handoff", "waiting", "recap"}
        PROVE  CapturedItems' \subseteq handoff'.items
    <3>1. CASE StoreLists
      <4>1. handoff'.items = ledger.items \cup inbox
        BY <1>0, <3>1 DEF StoreLists, ListedItems, Content
      <4> QED
        BY <1>0, <2>1, <4>1
    <3>2. CASE ~StoreLists
      <4>1. handoff' = handoff
        BY <3>2, FilesMove DEF files, CreateCall, AppendEvent, StoreEnds, ClearCall, StageInserts, AttachItem
      <4>2. call = NoCall \/ finPc \in {"summarize", "handoff", "waiting", "recap"}
        <5>1. CASE call' = NoCall
          BY <1>0, <5>1, FiledStep, NoCallTyped DEF CallIsFiled, ClearCall
        <5>2. CASE finPc' \in {"summarize", "handoff", "waiting", "recap"}
          BY <3>2, <5>2, CallMoves
             DEF fin, CreateCall, ContextMissing, ContextStored, AppendEvent, TakeGatewayHangup, HangUp,
                 RestartBridge, Finalize, StagesSettle, StagesTimeOut, EndFinalize, StoreEnds,
                 StoreReturns, SkipAppend, AttemptAppend, AppendFails, AppendCompletes, WaitTimesOut,
                 WaitersDefer, MarkAppended, ClearCall, CrashBridge
        <5> QED
          BY <2>4, <5>1, <5>2
      <4> QED
        BY <2>1, <4>1, <4>2 DEF CaptureIsKept
    <3> QED
      BY <3>1, <3>2
  <2> QED
    BY <1>1, <2>2, <2>3, <2>4 DEF CaptureIsKept
<1> QED
  BY <1>2, <1>3

LEMMA CaptureInvariant == Spec => []CaptureInv
<1>1. Init => CaptureIsKept
  BY DEF Init, CallInit, CaptureIsKept, CapturedItems, Staging
<1>2. CaptureInv /\ [Next]_vars => CaptureIsKept'
  BY CaptureStep
<1>3. CaptureInv <=> RecordsInv /\ CaptureIsKept
  BY DEF CaptureInv
<1> QED
  BY <1>1, <1>2, <1>3, RecordsInvariant, PTL DEF Spec

\* What the user was told is captured "will be included in the handoff" is in it once the
\* call is over, whatever the finalization was doing when the item came.
THEOREM CapturedIsHandedOver == Spec => []CapturedItemsReachHandoff
<1>1. CaptureInv => CapturedItemsReachHandoff
  BY DEF CaptureInv, CaptureIsKept, CapturedItems, CapturedItemsReachHandoff
<1> QED
  BY <1>1, CaptureInvariant, PTL
=============================================================================
