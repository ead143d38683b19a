------------------------------ MODULE LiveCall ------------------------------
(***************************************************************************)
(* One live call from the Mini App's bootstrap to the cleared call record: *)
(* the gateway's session and the daemon's lifecycle, joined by the control *)
(* socket.                                                                 *)
(***************************************************************************)
EXTENDS CallLifecycle, GatewayCall

vars == <<channel, gateway, bridge>>

TypeOK == ChannelTypeOK /\ GatewayTypeOK /\ CallTypeOK

Init == ChannelInit /\ GatewayInit /\ CallInit

\* The call is over on both sides.
Over ==
  /\ session = "over" /\ call = NoCall /\ up
  /\ UNCHANGED vars

Next ==
  \/ Gateway /\ UNCHANGED bridge
  \/ Bridge /\ UNCHANGED gateway
  \/ Over

Spec == Init /\ [][Next]_vars

\* The daemon's continuations run, the gateway answers its messages, its timers fire and
\* a dead daemon is started again.  Nobody has to hang up, and items may stay unsent.
Fairness ==
  /\ WF_vars(Chain /\ UNCHANGED gateway)
  /\ WF_vars((\E i \in Items : StageInserts(i) \/ AttachItem(i)) /\ UNCHANGED gateway)
  /\ WF_vars(Finalization /\ UNCHANGED gateway)
  /\ WF_vars((AppendStarts \/ AppendFails) /\ UNCHANGED gateway)
  /\ WF_vars(AppendCompletes /\ UNCHANGED gateway)
  /\ WF_vars(RestartBridge /\ UNCHANGED gateway)
  /\ WF_vars((BridgeAllows \/ BridgeRefuses \/ LateAnswer \/ TakeHangup) /\ UNCHANGED bridge)
  /\ WF_vars((SessionCreated \/ BootstrapGivesUp) /\ UNCHANGED bridge)
  /\ WF_vars(RequestShutdown /\ UNCHANGED bridge)
  /\ WF_vars(FinalizeDeadline /\ UNCHANGED bridge)

FairSpec == Spec /\ Fairness

\* Once the user has hung up and the call record is cleared, no browser is in a call that
\* nobody has asked, or is about to ask, to end.
ClearedCallIsHungUp ==
  cleared /\ call = NoCall /\ session = "connected" =>
    ending \/ forced \/ \E k \in 1..Len(toGateway) : toGateway[k] = "hangup"
=============================================================================
