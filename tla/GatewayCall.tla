---------------------------- MODULE GatewayCall ----------------------------
(***************************************************************************)
(* The realtime gateway's side of one live call: the bootstrap request of  *)
(* the Mini App, the session it creates, the browser that connects to it,  *)
(* and the ways it ends: the browser's finalize request, a timer, a hangup *)
(* over HTTP, or the grace period after the browser left.                  *)
(***************************************************************************)
EXTENDS CallChannel

CONSTANT
  BootstrapFails    \* the client secret may be refused, the request may time out or be cancelled

ASSUME GatewayAssumption == BootstrapFails \in BOOLEAN

VARIABLES
  session,    \* "none", "asked", "secret", "prepared", "connected", "left" or "over"
  ending,     \* endingReason is set
  forced,     \* the browser was sent call.force_end
  started     \* the browser reported call.started

gateway == <<session, ending, forced, started>>

GatewayTypeOK ==
  /\ session \in {"none", "asked", "secret", "prepared", "connected", "left", "over"}
  /\ ending \in BOOLEAN
  /\ forced \in BOOLEAN
  /\ started \in BOOLEAN

GatewayInit ==
  /\ session = "none"
  /\ ending = FALSE /\ forced = FALSE /\ started = FALSE

\* A session of the calls map.
HasSession == session \in {"prepared", "connected", "left"}

\* The bootstrap handler asks the bridge for the context of the call; without a
\* connected bridge it fails.
Bootstrap ==
  /\ session = "none"
  /\ up
  /\ session' = "asked"
  /\ ToBridge("prepare")
  /\ UNCHANGED <<toGateway, gatewayLog, ending, forced, started>>

BridgeAllows ==
  /\ session = "asked"
  /\ GatewayTakes("allowed")
  /\ session' = "secret"
  /\ UNCHANGED <<toBridge, gatewayLog, ending, forced, started>>

BridgeRefuses ==
  /\ session = "asked"
  /\ GatewayTakes("refused")
  /\ session' = "over"
  /\ UNCHANGED <<toBridge, gatewayLog, ending, forced, started>>

\* The request times out or its client goes away, before or after the answer, or no
\* client secret is issued: the bridge is told to hang up, if it is connected.
BootstrapGivesUp ==
  /\ BootstrapFails
  /\ session \in {"asked", "secret"}
  /\ session' = "over"
  /\ \/ up /\ ToBridge("hangup")
     \/ ~up /\ UNCHANGED toBridge
  /\ UNCHANGED <<toGateway, gatewayLog, ending, forced, started>>

SessionCreated ==
  /\ session = "secret"
  /\ session' = "prepared"
  /\ UNCHANGED <<channel, ending, forced, started>>

\* The answer to a bootstrap that has given up is dropped.
LateAnswer ==
  /\ session # "asked"
  /\ GatewayTakes("allowed") \/ GatewayTakes("refused")
  /\ UNCHANGED <<toBridge, gatewayLog, gateway>>

\* The browser authenticates its socket, for the first time or within the grace
\* period: the timer that would have ended the call is cancelled.
BrowserConnects ==
  /\ session \in {"prepared", "left"}
  /\ ~ending
  /\ session' = "connected"
  /\ forced' = FALSE
  /\ UNCHANGED <<channel, ending, started>>

\* A call.event of the browser is logged and forwarded, unless the call is ending.
BrowserReports(e) ==
  /\ session = "connected"
  /\ ~ending
  /\ e \notin gatewayLog
  /\ e = "started" \/ started
  /\ started' = TRUE
  /\ gatewayLog' = gatewayLog \cup {e}
  /\ ToBridge(e)
  /\ UNCHANGED <<toGateway, session, ending, forced>>

BrowserLeaves ==
  /\ session = "connected"
  /\ session' = "left"
  /\ UNCHANGED <<channel, ending, forced, started>>

\* Variant: the end is logged and the bridge is not told.
EndSessionUnreported(logged) ==
  /\ gatewayLog' = gatewayLog \cup logged \cup {"ended"}
  /\ UNCHANGED toBridge
  /\ session' = "over"

\* emitTerminalEvent and clearCallSession.
EndSession(logged) ==
  /\ gatewayLog' = gatewayLog \cup logged \cup {"ended"}
  /\ ToBridge("ended")
  /\ session' = "over"

\* POST /api/call/finalize carries what the browser still knows of the conversation.
BrowserFinalizes ==
  /\ session \in {"connected", "left"}
  /\ \E rest \in SUBSET {"spoken"} : EndSession(IF started THEN rest ELSE {})
  /\ UNCHANGED <<toGateway, ending, forced, started>>

\* The finalize grace, or the deadline after call.force_end, has passed.
FinalizeDeadline ==
  /\ session = "left" \/ (session = "connected" /\ ending)
  /\ EndSession({})
  /\ UNCHANGED <<toGateway, ending, forced, started>>

\* requestCallShutdown, for the expiry of a prepared session, the start timeout, the
\* longest duration or a hangup over HTTP: a connected browser is asked to end,
\* otherwise the call ends.
RequestShutdown ==
  /\ HasSession /\ ~ending
  /\ ending' = TRUE
  /\ \/ /\ session = "connected"
        /\ forced' = TRUE
        /\ UNCHANGED <<channel, session>>
     \/ /\ session # "connected"
        /\ EndSession({})
        /\ UNCHANGED <<toGateway, forced>>
  /\ UNCHANGED started

\* call.hangup of the bridge: a connected browser is asked to end, nothing else.
TakeHangup ==
  /\ GatewayTakes("hangup")
  /\ forced' = (forced \/ session = "connected")
  /\ UNCHANGED <<toBridge, gatewayLog, session, ending, started>>

Gateway ==
  \/ Bootstrap \/ BridgeAllows \/ BridgeRefuses \/ BootstrapGivesUp \/ SessionCreated
  \/ LateAnswer \/ BrowserConnects \/ (\E e \in {"started", "spoken"} : BrowserReports(e))
  \/ BrowserLeaves \/ BrowserFinalizes \/ FinalizeDeadline \/ RequestShutdown
  \/ TakeHangup
============================================================================
