---------------------------- MODULE CallChannel ----------------------------
(***************************************************************************)
(* What the realtime gateway and the bridge daemon share during one live   *)
(* call: the control WebSocket, one queue of messages each way, and the    *)
(* gateway's own event log, which the daemon reads when it finalizes.      *)
(***************************************************************************)
EXTENDS Naturals, Sequences

VARIABLES
  toBridge,     \* messages of the gateway the daemon has not taken yet
  toGateway,    \* messages of the daemon the gateway has not taken yet
  gatewayLog,   \* durable: gateway-events.ndjson, as the set of kinds of events in it
  up            \* the daemon runs and is connected to the gateway

channel == <<toBridge, toGateway, gatewayLog>>

BridgeMessage  == {"prepare", "started", "spoken", "ended", "hangup"}
GatewayMessage == {"allowed", "refused", "hangup"}
CallEvent      == {"started", "spoken", "ended"}

ChannelTypeOK ==
  /\ toBridge \in Seq(BridgeMessage)
  /\ toGateway \in Seq(GatewayMessage)
  /\ gatewayLog \subseteq CallEvent
  /\ up \in BOOLEAN

ChannelInit ==
  /\ toBridge = << >>
  /\ toGateway = << >>
  /\ gatewayLog = {}
  /\ up = TRUE

\* The gateway keeps an event for a daemon that is not connected.
ToBridge(m)  == toBridge' = Append(toBridge, m)
ToGateway(m) == toGateway' = Append(toGateway, m)

\* The next message from the gateway is m and the daemon takes it.
BridgeTakes(m) ==
  /\ toBridge # << >> /\ Head(toBridge) = m
  /\ toBridge' = Tail(toBridge)

GatewayTakes(m) ==
  /\ toGateway # << >> /\ Head(toGateway) = m
  /\ toGateway' = Tail(toGateway)
============================================================================
