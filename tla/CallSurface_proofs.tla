------------------------- MODULE CallSurface_proofs -------------------------
(***************************************************************************)
(* Theorems about CallSurface, for any number of tokens, tunnels, commands,*)
(* faults and openings of the Mini App.  All but type correctness hold for *)
(* writers that do not overlap: two overlapping ones arm a surface again   *)
(* that was disarmed, which the run CallRearmed shows.                     *)
(***************************************************************************)
EXTENDS CallSurface, TLAPS

Job == [pc : Pcs, why : Jobs, copy : Surface, seen : 0..MaxTunnels]
Call == [state : {None, "asked", "prepared", "started"}, token : 0..MaxTokens, bound : BOOLEAN]

----------------------------------------------------------------------------
(* Which actions change what.                                              *)

LEMMA RecMoves ==
  ASSUME [Next]_vars
  PROVE  \/ UNCHANGED rec
         \/ Cancelled \/ CallStarted \/ CallEnds \/ ReservationLapses
         \/ \E p \in Procs : Sync(p) \/ DisarmWrites(p) \/ StartFails(p) \/ WaitSyncs(p)
            \/ Recover(p) \/ ArmMints(p) \/ Sent(p) \/ Invite(p)
         \/ \E p \in Procs, ready \in BOOLEAN : Recovered(p, ready) \/ Armed(p, ready) \/
            Launch(p, ready) \/ Probe(p, ready)
         \/ \E t \in Tokens, c \in Chats : Bootstrap(t, c)
<1>1. CASE BeginReconcile \/ Commands
  BY <1>1 DEF Begin, BeginReconcile, BeginChat, BeginControl, Commands
<1>2. CASE Calls
  BY <1>2 DEF Prepared, Refused, Finalized, Calls
<1>3. CASE Faults
  BY <1>3 DEF Begin, TokenLapses, CooldownEnds, Fault, TunnelExits, LinkDown, LinkUp,
     GatewayExits, Crash, Shutdown, Faults
<1>4. CASE \E p \in Procs : Disarming(p) \/ Starting(p)
  BY <1>4 DEF DisarmPlans, DisarmStops, StartFinds, StartSpawns, UrlAppears, Disarming,
     Starting
<1>5. CASE \E p \in Procs : Recovering(p) \/ Arming(p)
  BY <1>5 DEF RecoveryHandles, RecoverStops, Arm, ArmRefused, Recovering, Arming
<1>6. CASE \E p \in Procs : Asking(p) \/ Reconciling(p)
  BY <1>6 DEF Reconcile, Asking, Reconciling
<1>7. CASE Startup \/ \E p \in Procs : Sync(p)
  BY <1>7 DEF Startup
<1> QED
  BY <1>1, <1>2, <1>3, <1>4, <1>5, <1>6, <1>7 DEF Next, Step, vars

LEMMA TunnelMoves ==
  ASSUME [Next]_vars
  PROVE  \/ UNCHANGED <<managed, tunnel>>
         \/ CooldownEnds
         \/ \E p \in Procs : Sync(p) \/ DisarmStops(p) \/ StartSpawns(p) \/ StartFails(p)
            \/ WaitSyncs(p) \/ RecoverStops(p) \/ ArmRefused(p) \/ ArmMints(p)
         \/ \E p \in Procs, ready \in BOOLEAN : Recovered(p, ready)
         \/ \E n \in Tunnels : TunnelExits(n)
<1>1. CASE BeginReconcile \/ Commands
  BY <1>1 DEF Begin, BeginReconcile, BeginChat, BeginControl, Commands
<1>2. CASE Calls
  BY <1>2 DEF Bootstrap, Prepared, Refused, Cancelled, CallStarted, CallEnds, Finalized,
     ReservationLapses, Calls
<1>3. CASE Faults
  BY <1>3 DEF Begin, TokenLapses, Fault, LinkDown, LinkUp, GatewayExits, Crash, Shutdown,
     Faults
<1>4. CASE \E p \in Procs : Disarming(p) \/ Starting(p)
  BY <1>4 DEF DisarmPlans, DisarmWrites, StartFinds, UrlAppears, Disarming, Starting
<1>5. CASE \E p \in Procs : Recovering(p) \/ Arming(p)
  BY <1>5 DEF RecoveryHandles, Recover, Arm, Armed, Recovering, Arming
<1>6. CASE \E p \in Procs : Asking(p) \/ Reconciling(p)
  BY <1>6 DEF Reconcile, Probe, Launch, Sent, Invite, Asking, Reconciling
<1>7. CASE Startup \/ \E p \in Procs : Sync(p)
  BY <1>7 DEF Startup
<1> QED
  BY <1>1, <1>2, <1>3, <1>4, <1>5, <1>6, <1>7 DEF Next, Step, vars

LEMMA GatewayMoves ==
  ASSUME [Next]_vars
  PROVE  \/ UNCHANGED gateway
         \/ Prepared \/ Refused \/ Cancelled \/ CallStarted \/ CallEnds \/ Finalized \/
            LinkDown \/ LinkUp \/ GatewayExits
         \/ \E t \in Tokens, c \in Chats : Bootstrap(t, c)
<1>1. CASE BeginReconcile \/ Commands
  BY <1>1 DEF Begin, BeginReconcile, BeginChat, BeginControl, Commands
<1>2. CASE Calls
  BY <1>2 DEF ReservationLapses, Calls
<1>3. CASE Faults
  BY <1>3 DEF Begin, TokenLapses, CooldownEnds, Fault, TunnelExits, Crash, Shutdown,
     Faults
<1>4. CASE \E p \in Procs : Disarming(p) \/ Starting(p)
  BY <1>4 DEF DisarmPlans, DisarmStops, DisarmWrites, StartFinds, StartSpawns, UrlAppears,
     StartFails, WaitSyncs, Disarming, Starting
<1>5. CASE \E p \in Procs : Recovering(p) \/ Arming(p)
  BY <1>5 DEF RecoveryHandles, Recover, RecoverStops, Recovered, Arm, ArmRefused,
     ArmMints, Armed, Recovering, Arming
<1>6. CASE \E p \in Procs : Asking(p) \/ Reconciling(p)
  BY <1>6 DEF Reconcile, Probe, Launch, Sent, Invite, Asking, Reconciling
<1>7. CASE Startup \/ \E p \in Procs : Sync(p)
  BY <1>7 DEF Sync, Startup
<1> QED
  BY <1>1, <1>2, <1>3, <1>4, <1>5, <1>6, <1>7 DEF Next, Step, vars

LEMMA JobsMove ==
  ASSUME [Next]_vars
  PROVE  \/ UNCHANGED job
         \/ BeginReconcile \/ BeginChat \/ BeginControl \/ Startup \/ GatewayExits \/
            Crash \/ Shutdown
         \/ \E p \in Procs : Sync(p) \/ DisarmPlans(p) \/ DisarmStops(p) \/
            DisarmWrites(p) \/ StartFinds(p) \/ StartSpawns(p) \/ UrlAppears(p) \/
            StartFails(p) \/ WaitSyncs(p) \/ Recover(p) \/ RecoverStops(p) \/
            RecoveryHandles(p) \/ Arm(p) \/ ArmRefused(p) \/ ArmMints(p) \/ Sent(p) \/
            Invite(p) \/ Reconcile(p)
         \/ \E p \in Procs, ready \in BOOLEAN : Recovered(p, ready) \/ Armed(p, ready) \/
            Launch(p, ready) \/ Probe(p, ready)
<1>1. CASE BeginReconcile \/ Commands
  BY <1>1 DEF Begin, Commands
<1>2. CASE Calls
  BY <1>2 DEF Bootstrap, Prepared, Refused, Cancelled, CallStarted, CallEnds, Finalized,
     ReservationLapses, Calls
<1>3. CASE Faults
  BY <1>3 DEF TokenLapses, CooldownEnds, Fault, TunnelExits, LinkDown, LinkUp, Faults
<1>4. CASE \E p \in Procs : Disarming(p) \/ Starting(p)
  BY <1>4 DEF Disarming, Starting
<1>5. CASE \E p \in Procs : Recovering(p) \/ Arming(p)
  BY <1>5 DEF Recovering, Arming
<1>6. CASE \E p \in Procs : Asking(p) \/ Reconciling(p)
  BY <1>6 DEF Asking, Reconciling
<1>7. CASE Startup \/ \E p \in Procs : Sync(p)
  BY <1>7
<1> QED
  BY <1>1, <1>2, <1>3, <1>4, <1>5, <1>6, <1>7 DEF Next, Step, vars

LEMMA MintMoves ==
  ASSUME [Next]_vars
  PROVE  \/ UNCHANGED minted
         \/ \E p \in Procs : RecoveryHandles(p) \/ ArmMints(p) \/ Invite(p)
         \/ \E p \in Procs, ready \in BOOLEAN : Launch(p, ready)
<1>1. CASE BeginReconcile \/ Commands
  BY <1>1 DEF Begin, BeginReconcile, BeginChat, BeginControl, Commands
<1>2. CASE Calls
  BY <1>2 DEF Bootstrap, Prepared, Refused, Cancelled, CallStarted, CallEnds, Finalized,
     ReservationLapses, Calls
<1>3. CASE Faults
  BY <1>3 DEF Begin, TokenLapses, CooldownEnds, Fault, TunnelExits, LinkDown, LinkUp,
     GatewayExits, Crash, Shutdown, Faults
<1>4. CASE \E p \in Procs : Disarming(p) \/ Starting(p)
  BY <1>4 DEF DisarmPlans, DisarmStops, DisarmWrites, StartFinds, StartSpawns, UrlAppears,
     StartFails, WaitSyncs, Disarming, Starting
<1>5. CASE \E p \in Procs : Recovering(p) \/ Arming(p)
  BY <1>5 DEF Recover, RecoverStops, Recovered, Arm, ArmRefused, Armed, Recovering, Arming
<1>6. CASE \E p \in Procs : Asking(p) \/ Reconciling(p)
  BY <1>6 DEF Reconcile, Probe, Sent, Asking, Reconciling
<1>7. CASE Startup \/ \E p \in Procs : Sync(p)
  BY <1>7 DEF Sync, Startup
<1> QED
  BY <1>1, <1>2, <1>3, <1>4, <1>5, <1>6, <1>7 DEF Next, Step, vars

LEMMA InviteMoves ==
  ASSUME [Next]_vars
  PROVE  \/ UNCHANGED invite
         \/ \E p \in Procs : Sent(p)
<1>1. CASE BeginReconcile \/ Commands
  BY <1>1 DEF Begin, BeginReconcile, BeginChat, BeginControl, Commands
<1>2. CASE Calls
  BY <1>2 DEF notes, Bootstrap, Prepared, Refused, Cancelled, CallStarted, CallEnds,
     Finalized, ReservationLapses, Calls
<1>3. CASE Faults
  BY <1>3 DEF notes, Begin, TokenLapses, CooldownEnds, Fault, TunnelExits, LinkDown,
     LinkUp, GatewayExits, Crash, Shutdown, Faults
<1>4. CASE \E p \in Procs : Disarming(p) \/ Starting(p)
  BY <1>4 DEF notes, DisarmPlans, DisarmStops, DisarmWrites, StartFinds, StartSpawns,
     UrlAppears, StartFails, WaitSyncs, Disarming, Starting
<1>5. CASE \E p \in Procs : Recovering(p) \/ Arming(p)
  BY <1>5 DEF notes, RecoveryHandles, Recover, RecoverStops, Recovered, Arm, ArmRefused,
     ArmMints, Armed, Recovering, Arming
<1>6. CASE \E p \in Procs : Asking(p) \/ Reconciling(p)
  BY <1>6 DEF notes, Reconcile, Probe, Launch, Invite, Asking, Reconciling
<1>7. CASE Startup \/ \E p \in Procs : Sync(p)
  BY <1>7 DEF notes, Sync, Startup
<1> QED
  BY <1>1, <1>2, <1>3, <1>4, <1>5, <1>6, <1>7 DEF Next, Step, notes, vars

LEMMA OffMoves ==
  ASSUME [Next]_vars
  PROVE  \/ UNCHANGED off
         \/ BeginChat \/ BeginControl
         \/ \E p \in Procs : DisarmWrites(p)
<1>1. CASE BeginReconcile \/ Commands
  BY <1>1 DEF Begin, BeginReconcile, Commands
<1>2. CASE Calls
  BY <1>2 DEF notes, Bootstrap, Prepared, Refused, Cancelled, CallStarted, CallEnds,
     Finalized, ReservationLapses, Calls
<1>3. CASE Faults
  BY <1>3 DEF notes, Begin, TokenLapses, CooldownEnds, Fault, TunnelExits, LinkDown,
     LinkUp, GatewayExits, Crash, Shutdown, Faults
<1>4. CASE \E p \in Procs : Disarming(p) \/ Starting(p)
  BY <1>4 DEF notes, DisarmPlans, DisarmStops, StartFinds, StartSpawns, UrlAppears,
     StartFails, WaitSyncs, Disarming, Starting
<1>5. CASE \E p \in Procs : Recovering(p) \/ Arming(p)
  BY <1>5 DEF notes, RecoveryHandles, Recover, RecoverStops, Recovered, Arm, ArmRefused,
     ArmMints, Armed, Recovering, Arming
<1>6. CASE \E p \in Procs : Asking(p) \/ Reconciling(p)
  BY <1>6 DEF notes, Reconcile, Probe, Launch, Sent, Invite, Asking, Reconciling
<1>7. CASE Startup \/ \E p \in Procs : Sync(p)
  BY <1>7 DEF notes, Sync, Startup
<1> QED
  BY <1>1, <1>2, <1>3, <1>4, <1>5, <1>6, <1>7 DEF Next, Step, notes, vars

LEMMA OpsMove ==
  ASSUME [Next]_vars
  PROVE  \/ UNCHANGED ops
         \/ BeginChat \/ BeginControl
<1>1. CASE BeginReconcile \/ Commands
  BY <1>1 DEF budget, Begin, BeginReconcile, Commands
<1>2. CASE Calls
  BY <1>2 DEF budget, Bootstrap, Prepared, Refused, Cancelled, CallStarted, CallEnds,
     Finalized, ReservationLapses, Calls
<1>3. CASE Faults
  BY <1>3 DEF budget, Begin, TokenLapses, CooldownEnds, Fault, TunnelExits, LinkDown,
     LinkUp, GatewayExits, Crash, Shutdown, Faults
<1>4. CASE \E p \in Procs : Disarming(p) \/ Starting(p)
  BY <1>4 DEF budget, DisarmPlans, DisarmStops, DisarmWrites, StartFinds, StartSpawns,
     UrlAppears, StartFails, WaitSyncs, Disarming, Starting
<1>5. CASE \E p \in Procs : Recovering(p) \/ Arming(p)
  BY <1>5 DEF budget, RecoveryHandles, Recover, RecoverStops, Recovered, Arm, ArmRefused,
     ArmMints, Armed, Recovering, Arming
<1>6. CASE \E p \in Procs : Asking(p) \/ Reconciling(p)
  BY <1>6 DEF budget, Reconcile, Probe, Launch, Sent, Invite, Asking, Reconciling
<1>7. CASE Startup \/ \E p \in Procs : Sync(p)
  BY <1>7 DEF budget, Sync, Startup
<1> QED
  BY <1>1, <1>2, <1>3, <1>4, <1>5, <1>6, <1>7 DEF Next, Step, budget, vars

LEMMA OpensMove ==
  ASSUME [Next]_vars
  PROVE  UNCHANGED opens \/ \E t \in Tokens, c \in Chats : Bootstrap(t, c)
<1>1. CASE Calls
  BY <1>1 DEF Calls, budget, Prepared, Refused, Cancelled, CallStarted, CallEnds, Finalized,
              ReservationLapses
<1>2. CASE BeginReconcile \/ Commands \/ Faults
  BY <1>2 DEF Commands, Faults, budget, Begin, Fault, BeginReconcile, BeginChat, BeginControl,
              CooldownEnds, LinkDown, LinkUp, GatewayExits, Crash, Shutdown, TokenLapses,
              TunnelExits
<1>3. CASE \E p \in Procs : Step(p)
  <2>1. CASE \E p \in Procs : Disarming(p) \/ Starting(p)
    BY <2>1 DEF Disarming, Starting, budget, DisarmPlans, DisarmStops, DisarmWrites, StartFinds,
       StartSpawns, UrlAppears, StartFails, WaitSyncs
  <2>2. CASE \E p \in Procs : Recovering(p) \/ Arming(p)
    BY <2>2 DEF Recovering, Arming, budget, Recover, RecoverStops, RecoveryHandles, Recovered,
       Arm, ArmRefused, ArmMints, Armed
  <2>3. CASE \E p \in Procs : Asking(p) \/ Reconciling(p)
    BY <2>3 DEF Asking, Reconciling, budget, Sent, Invite, Launch, Reconcile, Probe
  <2>4. CASE Startup \/ \E p \in Procs : Sync(p)
    BY <2>4 DEF Startup, Sync, budget
  <2> QED
    BY <1>3, <2>1, <2>2, <2>3, <2>4 DEF Step
<1>4. CASE UNCHANGED vars
  BY <1>4 DEF vars, budget
<1> QED
  BY <1>1, <1>2, <1>3, <1>4 DEF Next

LEMMA FaultsMove ==
  ASSUME [Next]_vars
  PROVE  \/ UNCHANGED faults
         \/ Shutdown \/ LinkDown \/ GatewayExits \/ Crash
         \/ \E n \in Tunnels : TunnelExits(n)
<1>1. CASE BeginReconcile \/ Commands
  BY <1>1 DEF budget, Begin, BeginReconcile, BeginChat, BeginControl, Commands
<1>2. CASE Calls
  BY <1>2 DEF budget, Bootstrap, Prepared, Refused, Cancelled, CallStarted, CallEnds,
     Finalized, ReservationLapses, Calls
<1>3. CASE Faults
  BY <1>3 DEF budget, TokenLapses, CooldownEnds, LinkUp, Faults
<1>4. CASE \E p \in Procs : Disarming(p) \/ Starting(p)
  BY <1>4 DEF budget, DisarmPlans, DisarmStops, DisarmWrites, StartFinds, StartSpawns,
     UrlAppears, StartFails, WaitSyncs, Disarming, Starting
<1>5. CASE \E p \in Procs : Recovering(p) \/ Arming(p)
  BY <1>5 DEF budget, RecoveryHandles, Recover, RecoverStops, Recovered, Arm, ArmRefused,
     ArmMints, Armed, Recovering, Arming
<1>6. CASE \E p \in Procs : Asking(p) \/ Reconciling(p)
  BY <1>6 DEF budget, Reconcile, Probe, Launch, Sent, Invite, Asking, Reconciling
<1>7. CASE Startup \/ \E p \in Procs : Sync(p)
  BY <1>7 DEF budget, Sync, Startup
<1> QED
  BY <1>1, <1>2, <1>3, <1>4, <1>5, <1>6, <1>7 DEF Next, Step, budget, vars

LEMMA LapsedMoves ==
  ASSUME [Next]_vars
  PROVE  \/ UNCHANGED lapsed
         \/ \E t \in Tokens : TokenLapses(t)
<1>1. CASE BeginReconcile \/ Commands
  BY <1>1 DEF Begin, BeginReconcile, BeginChat, BeginControl, Commands
<1>2. CASE Calls
  BY <1>2 DEF Bootstrap, Prepared, Refused, Cancelled, CallStarted, CallEnds, Finalized,
     ReservationLapses, Calls
<1>3. CASE Faults
  BY <1>3 DEF Begin, CooldownEnds, Fault, TunnelExits, LinkDown, LinkUp, GatewayExits,
     Crash, Shutdown, Faults
<1>4. CASE \E p \in Procs : Disarming(p) \/ Starting(p)
  BY <1>4 DEF DisarmPlans, DisarmStops, DisarmWrites, StartFinds, StartSpawns, UrlAppears,
     StartFails, WaitSyncs, Disarming, Starting
<1>5. CASE \E p \in Procs : Recovering(p) \/ Arming(p)
  BY <1>5 DEF RecoveryHandles, Recover, RecoverStops, Recovered, Arm, ArmRefused,
     ArmMints, Armed, Recovering, Arming
<1>6. CASE \E p \in Procs : Asking(p) \/ Reconciling(p)
  BY <1>6 DEF Reconcile, Probe, Launch, Sent, Invite, Asking, Reconciling
<1>7. CASE Startup \/ \E p \in Procs : Sync(p)
  BY <1>7 DEF Sync, Startup
<1> QED
  BY <1>1, <1>2, <1>3, <1>4, <1>5, <1>6, <1>7 DEF Next, Step, vars

----------------------------------------------------------------------------
(* The record and its changes.                                             *)

LEMMA SurfaceFields ==
  ASSUME NEW s \in Surface
  PROVE  /\ s.token \in 0..MaxTokens /\ s.chat \in Chats \cup {None} /\ s.pid \in 0..MaxTunnels
         /\ DOMAIN s = {"armed", "token", "chat", "pid", "failed"}
BY DEF Surface

LEMMA DisarmedTyped ==
  /\ Disarmed \in Surface /\ ~Disarmed.armed /\ Disarmed.token = 0 /\ Disarmed.pid = 0
  /\ Disarmed.chat = None
<1>1. 0 \in 0..MaxTokens /\ 0 \in 0..MaxTunnels
  BY SurfaceAssumption
<1>2. Disarmed \in Surface
  BY <1>1, Zenon DEF Disarmed, Surface
<1>3. ~Disarmed.armed
  BY Zenon DEF Disarmed
<1> QED
  BY <1>2, <1>3 DEF Disarmed

\* A record with another tunnel, chat or token, or another state.
LEMMA PidChanged ==
  ASSUME NEW s \in Surface, NEW n \in 0..MaxTunnels, NEW r, r = [s EXCEPT !.pid = n]
  PROVE  r \in Surface /\ (r.armed <=> s.armed) /\ r.token = s.token /\ r.pid = n /\ r.chat = s.chat
<1>1. r \in Surface
  BY Zenon DEF Surface
<1> QED
  BY <1>1 DEF Surface

LEMMA ChatChanged ==
  ASSUME NEW s \in Surface, NEW c \in Chats \cup {None}, NEW r, r = [s EXCEPT !.chat = c]
  PROVE  r \in Surface /\ (r.armed <=> s.armed) /\ r.token = s.token /\ r.pid = s.pid /\ r.chat = c
<1>1. r \in Surface
  BY Zenon DEF Surface
<1> QED
  BY <1>1 DEF Surface

LEMMA TokenCleared ==
  ASSUME NEW s \in Surface, NEW r, r = [s EXCEPT !.token = 0, !.chat = None]
  PROVE  r \in Surface /\ (r.armed <=> s.armed) /\ r.token = 0 /\ r.pid = s.pid
<1>1. r \in Surface
  <2>1. 0 \in 0..MaxTokens
    BY SurfaceAssumption
  <2> QED
    BY <2>1, Zenon DEF Surface
<1> QED
  BY <1>1 DEF Surface

LEMMA ProbeNoted ==
  ASSUME NEW s \in Surface, NEW r, r = Failed(s) \/ r = Probed(s)
  PROVE  r \in Surface /\ (r.armed <=> s.armed) /\ r.token = s.token /\ r.pid = s.pid /\ r.chat = s.chat
<1>1. r \in Surface
  BY Zenon DEF Surface, Failed, Probed
<1> QED
  BY <1>1 DEF Surface, Failed, Probed

LEMMA ArmedSurface ==
  ASSUME NEW s \in Surface, NEW r, r = [s EXCEPT !.armed = TRUE]
  PROVE  r \in Surface /\ r.armed /\ r.token = s.token /\ r.pid = s.pid
<1>1. r \in Surface
  BY Zenon DEF Surface
<1>2. r.armed
  BY Zenon DEF Surface
<1> QED
  BY <1>1, <1>2 DEF Surface

LEMMA MintedSurface ==
  ASSUME NEW s \in Surface, minted + 1 \in 0..MaxTokens, NEW r, r = Mint(s)
  PROVE  r \in Surface /\ r.armed /\ r.token = minted + 1 /\ r.pid = s.pid
<1>1. r \in Surface
  BY Zenon DEF Surface, Mint
<1>2. r.armed
  BY Zenon DEF Surface, Mint
<1> QED
  BY <1>1, <1>2 DEF Surface, Mint

LEMMA DisarmedSurface ==
  ASSUME NEW s \in Surface, NEW r, r = [Disarmed EXCEPT !.failed = s.failed]
  PROVE  r \in Surface /\ ~r.armed /\ r.token = 0 /\ r.pid = 0
<1>1. 0 \in 0..MaxTokens /\ 0 \in 0..MaxTunnels
  BY SurfaceAssumption
<1>2. r \in Surface
  BY <1>1, Zenon DEF Surface, Disarmed
<1>3. ~r.armed
  BY Zenon DEF Disarmed
<1> QED
  BY <1>2, <1>3 DEF Disarmed

----------------------------------------------------------------------------
(* Type correctness.                                                       *)

JobsTyped   == job \in [Procs -> Job]
TunnelTyped == /\ managed \in Modes /\ cooldown \in BOOLEAN /\ pidFile \in 0..MaxTunnels
               /\ alive \subseteq Tunnels /\ started \in 0..MaxTunnels
GatewayTyped ==
  /\ link \in BOOLEAN /\ session \in Call /\ call \in {None, "live", "ended"} /\ spent \subseteq Tokens
  /\ session.state # None => session.token # 0
CountsTyped ==
  /\ lapsed \in 0..MaxTokens /\ invite \in 0..MaxTokens /\ minted \in 0..MaxTokens
  /\ ops \in 0..MaxOps /\ faults \in 0..MaxFaults /\ opens \in 0..MaxOpens
TypeInv ==
  /\ rec \in Surface /\ JobsTyped /\ TunnelTyped /\ GatewayTyped /\ CountsTyped
  /\ off \in BOOLEAN

LEMMA BoundsAreNat ==
  /\ MaxTokens \in Nat /\ MaxTunnels \in Nat /\ MaxOps \in Nat /\ MaxFaults \in Nat
  /\ MaxOpens \in Nat
BY SurfaceAssumption

LEMMA RestTyped == Rest \in Job /\ Rest.pc = None /\ Rest.why = None /\ Rest.copy = Disarmed
<1>1. 0 \in 0..MaxTunnels
  BY BoundsAreNat
<1> QED
  BY <1>1, DisarmedTyped DEF Rest, Job, Pcs, Jobs

\* The job of p, and nobody else's, changes to what To and Ends say.
JobIs(p, pc, why, s, n) ==
  /\ job'[p] = [pc |-> pc, why |-> why, copy |-> s, seen |-> n]
  /\ job'[p].pc = pc /\ job'[p].why = why /\ job'[p].copy = s /\ job'[p].seen = n
  /\ \A q \in Procs \ {p} : job'[q] = job[q]

LEMMA JobChanges ==
  ASSUME JobsTyped, NEW p \in Procs, NEW pc \in Pcs, NEW why \in Jobs, NEW s \in Surface,
         NEW n \in 0..MaxTunnels,
         job' = [job EXCEPT ![p] = [pc |-> pc, why |-> why, copy |-> s, seen |-> n]]
  PROVE  JobsTyped' /\ JobIs(p, pc, why, s, n)
<1> DEFINE j == [pc |-> pc, why |-> why, copy |-> s, seen |-> n]
<1>1. j \in Job /\ j.pc = pc /\ j.why = why /\ j.copy = s /\ j.seen = n
  BY DEF Job
<1>2. job' = [job EXCEPT ![p] = j]
  OBVIOUS
<1> HIDE DEF j
<1>3. job' \in [Procs -> Job] /\ job'[p] = j /\ \A q \in Procs \ {p} : job'[q] = job[q]
  BY <1>1, <1>2 DEF JobsTyped
<1> QED
  BY <1>1, <1>3 DEF JobsTyped, JobIs, j

LEMMA JobGoesTo ==
  ASSUME JobsTyped, NEW p \in Procs, NEW pc \in Pcs, NEW why \in Jobs, NEW s \in Surface,
         To(p, pc, why, s)
  PROVE  JobsTyped' /\ JobIs(p, pc, why, s, s.pid)
BY SurfaceFields, JobChanges DEF To

LEMMA JobEnds ==
  ASSUME JobsTyped, NEW p \in Procs, Ends(p)
  PROVE  JobsTyped' /\ job'[p] = Rest /\ \A q \in Procs \ {p} : job'[q] = job[q]
BY RestTyped DEF Ends, JobsTyped

LEMMA CopyTyped == ASSUME JobsTyped, NEW p \in Procs
                   PROVE  Copy(p) \in Surface /\ job[p].why \in Jobs /\ job[p].pc \in Pcs
                          /\ job[p].seen \in 0..MaxTunnels
BY DEF JobsTyped, Job, Copy

LEMMA HandledSurface ==
  ASSUME NEW s \in Surface, pidFile \in 0..MaxTunnels, minted \in 0..MaxTokens,
         pidFile # s.pid => minted < MaxTokens, NEW r, r = Handled(s)
  PROVE  /\ r \in Surface /\ r.pid = pidFile
         /\ pidFile # s.pid => r.armed /\ r.token = minted + 1
         /\ pidFile = s.pid => (r.armed <=> s.armed) /\ r.token = s.token
<1> DEFINE t == [s EXCEPT !.pid = pidFile]
<1>1. t \in Surface /\ (t.armed <=> s.armed) /\ t.token = s.token /\ t.pid = pidFile
  BY PidChanged
<1>2. r = IF pidFile # s.pid THEN Mint(t) ELSE t
  BY DEF Handled
<1> HIDE DEF t
<1>3. CASE pidFile # s.pid
  <2>1. minted + 1 \in 0..MaxTokens
    BY <1>3, BoundsAreNat
  <2> QED
    BY <1>1, <1>2, <1>3, <2>1, MintedSurface
<1>4. CASE pidFile = s.pid
  BY <1>1, <1>2, <1>4
<1> QED
  BY <1>3, <1>4

----------------------------------------------------------------------------
(* The steps of the jobs, as far as the record, its copies and the tokens  *)
(* go.  Which of two records differ in the tunnel and the probe alone does *)
(* not matter to the properties about tokens and arming.                   *)

KnownPid(r, s) == r.pid \in {0, s.pid, pidFile}
Same(r, s) == r \in Surface /\ (r.armed <=> s.armed) /\ r.token = s.token /\ KnownPid(r, s)
IsMinted(r, s) ==
  /\ r \in Surface /\ r.armed /\ r.token = minted + 1 /\ KnownPid(r, s)
  /\ minted' = minted + 1
Goes(p, pc, why, s) == job'[p].pc = pc /\ job'[p].why = why /\ job'[p].copy = s
Rests(p) == job'[p] = Rest
New(p) == job'[p].copy

\* Nothing is written.
OnlyMoves(p) ==
  /\ UNCHANGED <<rec, minted, invite>>
  /\ \/ Rests(p)
     \/ Goes(p, "sync", "disarm", rec)
     \/ p = "chat" /\ Goes(p, "sync", "arm", rec)
     \/ At(p, "sync") /\ Goes(p, "plan", job[p].why, New(p)) /\ Same(New(p), Copy(p))
     \/ /\ job[p].pc \in {"plan", "stop"}
        /\ job'[p].pc \in {"stop", "write"} /\ Goes(p, job'[p].pc, "disarm", Copy(p))
     \/ /\ \/ At(p, "recover") /\ job'[p].pc \in {"start", "restart"}
           \/ job[p].pc \in {"restart", "start", "url"} /\ job'[p].pc \in {"start", "url", "handle"}
        /\ Goes(p, job'[p].pc, job[p].why, Copy(p))
     \/ /\ At(p, "plan") /\ job[p].why \in {"reconcile", "startup"} /\ Copy(p).armed
        /\ job'[p].pc \in {"recover", "probe"} /\ job'[p].why \in {"missing", "reconcile", "startup"}
        /\ New(p) = Copy(p) /\ (job'[p].pc = "recover" => managed)
     \/ /\ At(p, "handle") /\ job[p].why # "arm"
        /\ Goes(p, "wait", job[p].why, New(p)) /\ Same(New(p), Copy(p))
     \/ /\ At(p, "plan") /\ job[p].why = "arm"
        /\ job'[p].pc \in {"start", "handle"} /\ Goes(p, job'[p].pc, "arm", New(p))
        /\ New(p) \in Surface /\ New(p).armed /\ New(p).token = Copy(p).token
        /\ KnownPid(New(p), Copy(p)) /\ (job'[p].pc = "start" => managed) /\ call = None

\* A token is minted, in the copy alone or in the record.
Mints(p) ==
  /\ UNCHANGED invite
  /\ \/ /\ At(p, "handle") /\ job[p].why # "arm"
        /\ Goes(p, "wait", job[p].why, New(p)) /\ IsMinted(New(p), Copy(p)) /\ UNCHANGED rec
     \/ At(p, "handle") /\ job[p].why = "arm" /\ Goes(p, "wait", "arm", rec') /\ IsMinted(rec', Copy(p))
     \/ /\ At(p, "plan") /\ job[p].why = "launch" /\ Copy(p).armed
        /\ Goes(p, "sent", "launch", rec') /\ IsMinted(rec', Copy(p))
     \/ At(p, "plan") /\ job[p].why = "invite" /\ Copy(p).armed /\ Rests(p) /\ IsMinted(rec', Copy(p))

\* The copy is written.
Writes(p) ==
  /\ UNCHANGED <<minted, invite>> /\ Same(rec', Copy(p))
  /\ \/ At(p, "sync") /\ Goes(p, "plan", job[p].why, rec')
     \/ /\ job[p].pc \in {"start", "url"} /\ job[p].why \in {"missing", "reconcile"}
        /\ Rests(p) \/ Goes(p, "sync", "disarm", rec')
     \/ At(p, "wait") /\ (Rests(p) \/ Goes(p, "wait", job[p].why, Copy(p)))
     \/ /\ At(p, "probe")
        /\ Rests(p) \/ Goes(p, "sync", "disarm", rec') \/ (managed /\ Goes(p, "recover", "reconcile", rec'))
     \/ At(p, "recover") /\ Rests(p)

\* The record is read and written, the end of a disarming, and the end of a launch.
Rewrites(p) ==
  /\ UNCHANGED minted
  /\ \/ /\ At(p, "wait") /\ job[p].why = "arm" /\ p = "chat" /\ Same(rec', rec)
        /\ job'[p].why \in {"launch", "arm"} /\ Goes(p, "sent", job'[p].why, rec')
        /\ UNCHANGED invite
     \/ /\ At(p, "write") /\ rec' \in Surface /\ ~rec'.armed /\ rec'.token = 0
        /\ rec'.pid = 0 /\ Rests(p) /\ UNCHANGED invite
     \/ At(p, "sent") /\ rec' = Copy(p) /\ Rests(p) /\ invite' \in {invite, Copy(p).token}

Shape(p) ==
  /\ job' \in [Procs -> Job] /\ \A q \in Procs \ {p} : job'[q] = job[q]
  /\ OnlyMoves(p) \/ Mints(p) \/ Writes(p) \/ Rewrites(p)

LEMMA SameTyped ==
  /\ \A s \in Surface : Same(s, s)
  /\ \A s \in Surface, n \in 0..MaxTunnels :
       n \in {0, s.pid, pidFile} => Same([s EXCEPT !.pid = n], s)
  /\ \A s \in Surface : Same(Failed(s), s) /\ Same(Probed(s), s)
BY PidChanged, ProbeNoted DEF Same, KnownPid

LEMMA SyncShape == ASSUME TypeInv, NEW p \in Procs, Sync(p) PROVE Shape(p)
<1>0. /\ JobsTyped /\ Copy(p) \in Surface /\ job[p].why \in Jobs /\ "plan" \in Pcs
      /\ Resolved \in 0..MaxTunnels /\ 0 \in 0..MaxTunnels /\ Resolved \in {0, pidFile}
  BY CopyTyped, BoundsAreNat DEF TypeInv, TunnelTyped, Resolved, Pcs
<1>1. \E s : /\ To(p, "plan", job[p].why, s) /\ Same(s, Copy(p))
             /\ rec' = rec \/ rec' = s
  <2>1. CASE managed
    <3> DEFINE s == [Copy(p) EXCEPT !.pid = Resolved]
    <3>1. To(p, "plan", job[p].why, s) /\ (rec' = rec \/ rec' = s)
      BY <2>1, Zenon DEF Sync
    <3>2. Same(s, Copy(p))
      BY <1>0, SameTyped
    <3> QED
      BY <3>1, <3>2
  <2>2. CASE ~managed
    BY <1>0, <2>2, SameTyped DEF Sync
  <2> QED
    BY <2>1, <2>2
<1>2. PICK s : /\ To(p, "plan", job[p].why, s) /\ Same(s, Copy(p))
               /\ rec' = rec \/ rec' = s
  BY <1>1
<1>3. JobsTyped' /\ JobIs(p, "plan", job[p].why, s, s.pid)
  BY <1>0, <1>2, JobGoesTo DEF Same
<1>4. UNCHANGED <<minted, invite>> /\ At(p, "sync")
  BY DEF Sync, notes
<1> QED
  BY <1>2, <1>3, <1>4 DEF Shape, JobIs, Goes, New, OnlyMoves, Writes, JobsTyped

\* What every step of a job knows.
LEMMA AtStep ==
  ASSUME TypeInv, NEW p \in Procs
  PROVE  /\ JobsTyped /\ rec \in Surface /\ Copy(p) \in Surface /\ job[p].why \in Jobs
         /\ {"sync", "plan", "probe", "recover", "restart", "start", "url", "handle",
             "wait", "sent", "stop", "write"} \subseteq Pcs
         /\ {"reconcile", "missing", "startup", "disarm", "arm", "launch", "invite"} \subseteq Jobs
         /\ job[p].seen \in 0..MaxTunnels /\ 0 \in 0..MaxTunnels
         /\ pidFile \in 0..MaxTunnels /\ minted \in 0..MaxTokens
BY CopyTyped, BoundsAreNat DEF TypeInv, TunnelTyped, CountsTyped, Pcs, Jobs

LEMMA DisarmingShape ==
  ASSUME TypeInv, NEW p \in Procs, Disarming(p)
  PROVE  Shape(p)
<1> USE AtStep
<1>1. CASE DisarmPlans(p)
  <2>1. JobsTyped' /\ JobIs(p, "stop", "disarm", Copy(p), Copy(p).pid)
    BY <1>1, JobGoesTo DEF DisarmPlans
  <2> QED
    BY <1>1, <2>1 DEF DisarmPlans, notes, At, Shape, JobIs, Goes, OnlyMoves, JobsTyped
<1>2. CASE DisarmStops(p)
  <2>1. JobsTyped' /\ JobIs(p, "write", "disarm", Copy(p), Copy(p).pid)
    BY <1>2, JobGoesTo DEF DisarmStops
  <2> QED
    BY <1>2, <2>1 DEF DisarmStops, notes, At, Shape, JobIs, Goes, OnlyMoves, JobsTyped
<1>3. CASE DisarmWrites(p)
  <2>1. JobsTyped' /\ Rests(p) /\ \A q \in Procs \ {p} : job'[q] = job[q]
    BY <1>3, JobEnds DEF DisarmWrites, Rests
  <2>2. rec' \in Surface /\ ~rec'.armed /\ rec'.token = 0 /\ rec'.pid = 0
    BY <1>3, DisarmedSurface DEF DisarmWrites
  <2> QED
    BY <1>3, <2>1, <2>2 DEF DisarmWrites, Shape, Rewrites, JobsTyped
<1> QED
  BY <1>1, <1>2, <1>3 DEF Disarming

LEMMA StartingShape ==
  ASSUME TypeInv, NEW p \in Procs, Starting(p)
  PROVE  Shape(p)
<1> USE AtStep
<1>1. CASE StartFinds(p)
  <2>1. JobsTyped' /\ JobIs(p, "handle", job[p].why, Copy(p), Copy(p).pid)
    BY <1>1, JobGoesTo DEF StartFinds
  <2> QED
    BY <1>1, <2>1 DEF StartFinds, notes, At, Shape, JobIs, Goes, OnlyMoves, JobsTyped
<1>2. ASSUME NEW pc \in {"url", "handle", "wait"}, NEW n \in 0..MaxTunnels,
             job' = [[job EXCEPT ![p].pc = pc] EXCEPT ![p].seen = n]
      PROVE  job' \in [Procs -> Job] /\ Goes(p, pc, job[p].why, Copy(p))
             /\ \A q \in Procs \ {p} : job'[q] = job[q]
  <2>1. pc \in Pcs
    BY <1>2
  <2> DEFINE j == [[job[p] EXCEPT !.pc = pc] EXCEPT !.seen = n]
  <2>2. j \in Job /\ j.pc = pc /\ j.why = job[p].why /\ j.copy = Copy(p)
    BY <2>1 DEF JobsTyped, Job, Copy
  <2>3. job' = [job EXCEPT ![p] = j]
    BY <1>2 DEF JobsTyped
  <2> HIDE DEF j
  <2> QED
    BY <2>2, <2>3 DEF JobsTyped, Goes
<1>3. CASE StartSpawns(p)
  <2>1. job' = [[job EXCEPT ![p].pc = "url"] EXCEPT ![p].seen = started + 1]
    BY <1>3 DEF StartSpawns
  <2>2. started + 1 \in 0..MaxTunnels
    BY <1>3, BoundsAreNat DEF StartSpawns, TypeInv, TunnelTyped
  <2> QED
    BY <1>2, <1>3, <2>1, <2>2 DEF StartSpawns, notes, At, Shape, Goes, OnlyMoves
<1>4. CASE UrlAppears(p)
  <2>1. job' = [[job EXCEPT ![p].pc = "handle"] EXCEPT ![p].seen = job[p].seen]
    BY <1>4 DEF UrlAppears, JobsTyped, Job
  <2> QED
    BY <1>2, <1>4, <2>1 DEF UrlAppears, notes, At, Shape, Goes, OnlyMoves
<1>5. CASE StartFails(p)
  <2>1. rec' \in Surface /\ UNCHANGED <<minted, invite>> /\ job[p].pc \in {"start", "url"}
        /\ \/ job[p].why \in {"missing", "reconcile"} /\ Same(rec', Copy(p))
           \/ job[p].why \notin {"missing", "reconcile"} /\ rec' = rec
    BY <1>5, SameTyped DEF StartFails, notes, At, Same
  <2>2. CASE Ends(p)
    <3>1. JobsTyped' /\ Rests(p) /\ \A q \in Procs \ {p} : job'[q] = job[q]
      BY <2>2, JobEnds DEF Rests
    <3> QED
      BY <2>1, <3>1 DEF Shape, OnlyMoves, Writes, JobsTyped
  <2>3. CASE job' = [job EXCEPT ![p] = [pc |-> "sync", why |-> "disarm", copy |-> rec', seen |-> 0]]
    <3>1. JobsTyped' /\ JobIs(p, "sync", "disarm", rec', 0)
      BY <2>1, <2>3, JobChanges
    <3> QED
      BY <2>1, <3>1 DEF Shape, JobIs, Goes, OnlyMoves, Writes, JobsTyped
  <2> QED
    BY <1>5, <2>2, <2>3 DEF StartFails
<1>6. CASE WaitSyncs(p)
  <2>1. Resolved \in 0..MaxTunnels /\ Resolved \in {0, pidFile}
    BY DEF Resolved
  <2>2. job' = [[job EXCEPT ![p].pc = "wait"] EXCEPT ![p].seen = Resolved]
    BY <1>6 DEF WaitSyncs, JobsTyped, Job, At
  <2>3. Same(rec', Copy(p))
    BY <1>6, <2>1, SameTyped DEF WaitSyncs
  <2> QED
    BY <1>2, <1>6, <2>1, <2>2, <2>3 DEF WaitSyncs, notes, Shape, Goes, Writes
<1> QED
  BY <1>1, <1>3, <1>4, <1>5, <1>6 DEF Starting

LEMMA RecoveringShape ==
  ASSUME TypeInv, NEW p \in Procs, Recovering(p)
  PROVE  Shape(p)
<1> USE AtStep
<1>1. CASE Recover(p)
  <2>1. CASE rec' = Failed(Copy(p)) /\ Ends(p)
    <3>1. JobsTyped' /\ Rests(p) /\ \A q \in Procs \ {p} : job'[q] = job[q]
      BY <2>1, JobEnds DEF Rests
    <3> QED
      BY <1>1, <2>1, <3>1, SameTyped DEF Recover, notes, Shape, Writes, JobsTyped
  <2>2. CASE UNCHANGED rec /\ \E pc \in {"start", "restart"} : To(p, pc, job[p].why, Copy(p))
    <3>1. PICK pc \in {"start", "restart"} : To(p, pc, job[p].why, Copy(p))
      BY <2>2
    <3>2. JobsTyped' /\ JobIs(p, pc, job[p].why, Copy(p), Copy(p).pid)
      BY <3>1, JobGoesTo
    <3> QED
      BY <1>1, <2>2, <3>2 DEF Recover, notes, At, Shape, JobIs, Goes, OnlyMoves, JobsTyped
  <2> QED
    BY <1>1, <2>1, <2>2, Zenon DEF Recover
<1>2. CASE RecoverStops(p)
  <2>1. JobsTyped' /\ JobIs(p, "start", job[p].why, Copy(p), Copy(p).pid)
    BY <1>2, JobGoesTo DEF RecoverStops
  <2> QED
    BY <1>2, <2>1 DEF RecoverStops, notes, At, Shape, JobIs, Goes, OnlyMoves, JobsTyped
<1>3. CASE RecoveryHandles(p)
  <2> DEFINE r == Handled(Copy(p))
  <2>1. /\ r \in Surface /\ r.pid = pidFile
        /\ pidFile # Copy(p).pid => r.armed /\ r.token = minted + 1
        /\ pidFile = Copy(p).pid => (r.armed <=> Copy(p).armed) /\ r.token = Copy(p).token
    BY <1>3, HandledSurface DEF RecoveryHandles
  <2>2. JobsTyped' /\ JobIs(p, "wait", job[p].why, r, r.pid)
    BY <1>3, <2>1, JobGoesTo DEF RecoveryHandles
  <2> HIDE DEF r
  <2>3. /\ UNCHANGED <<rec, invite>> /\ At(p, "handle") /\ job[p].why # "arm"
        /\ minted' = IF pidFile # Copy(p).pid THEN minted + 1 ELSE minted
    BY <1>3 DEF RecoveryHandles, notes
  <2>4. Goes(p, "wait", job[p].why, New(p)) /\ New(p) = r
    BY <2>2 DEF JobIs, Goes, New
  <2>5. OnlyMoves(p) \/ Mints(p)
    BY <2>1, <2>3, <2>4 DEF OnlyMoves, Mints, Same, IsMinted, KnownPid
  <2> QED
    BY <2>2, <2>5 DEF Shape, JobIs, JobsTyped
<1>4. ASSUME NEW ready \in BOOLEAN, Recovered(p, ready) PROVE Shape(p)
  <2>1. JobsTyped' /\ Rests(p) /\ \A q \in Procs \ {p} : job'[q] = job[q]
    BY <1>4, JobEnds DEF Recovered, Rests
  <2>2. Same(rec', Copy(p)) /\ UNCHANGED <<minted, invite>> /\ At(p, "wait")
    BY <1>4, SameTyped DEF Recovered, notes
  <2> QED
    BY <2>1, <2>2 DEF Shape, Writes, JobsTyped
<1> QED
  BY <1>1, <1>2, <1>3, <1>4, Zenon DEF Recovering

LEMMA ReconcilingShape ==
  ASSUME TypeInv, NEW p \in Procs, Reconciling(p)
  PROVE  Shape(p)
<1> USE AtStep
<1>1. CASE Reconcile(p)
  <2>1. /\ At(p, "plan") /\ job[p].why = "reconcile" /\ UNCHANGED <<rec, minted, invite>>
        /\ \/ Ends(p)
           \/ Disarm(p)
           \/ managed /\ Copy(p).armed /\ To(p, "recover", "missing", Copy(p))
           \/ Copy(p).armed /\ To(p, "probe", "reconcile", Copy(p))
    BY <1>1, Zenon DEF Reconcile, notes, ReconcileRecovers, ReconcileProbes, Tunnelless
  <2>2. CASE Ends(p)
    <3>1. JobsTyped' /\ Rests(p) /\ \A q \in Procs \ {p} : job'[q] = job[q]
      BY <2>2, JobEnds DEF Rests
    <3> QED
      BY <2>1, <3>1 DEF Shape, OnlyMoves, JobsTyped
  <2>3. CASE Disarm(p)
    <3>1. JobsTyped' /\ JobIs(p, "sync", "disarm", rec, rec.pid)
      BY <2>3, JobGoesTo DEF Disarm
    <3> QED
      BY <2>1, <3>1 DEF Shape, JobIs, Goes, OnlyMoves, JobsTyped
  <2>4. CASE managed /\ Copy(p).armed /\ To(p, "recover", "missing", Copy(p))
    <3>1. JobsTyped' /\ JobIs(p, "recover", "missing", Copy(p), Copy(p).pid)
      BY <2>4, JobGoesTo
    <3> QED
      BY <2>1, <2>4, <3>1 DEF Shape, JobIs, New, OnlyMoves, JobsTyped
  <2>5. CASE Copy(p).armed /\ To(p, "probe", "reconcile", Copy(p))
    <3>1. JobsTyped' /\ JobIs(p, "probe", "reconcile", Copy(p), Copy(p).pid)
      BY <2>5, JobGoesTo
    <3> QED
      BY <2>1, <2>5, <3>1 DEF Shape, JobIs, New, OnlyMoves, JobsTyped
  <2> QED
    BY <2>1, <2>2, <2>3, <2>4, <2>5
<1>2. ASSUME NEW ready \in BOOLEAN, Probe(p, ready) PROVE Shape(p)
  <2>1. /\ At(p, "probe") /\ UNCHANGED <<minted, invite>> /\ rec' = Probed(Copy(p))
        /\ \/ Ends(p)
           \/ managed /\ To(p, "recover", "reconcile", rec')
           \/ job' = [job EXCEPT ![p] = [pc |-> "sync", why |-> "disarm", copy |-> rec', seen |-> 0]]
    BY <1>2, Zenon DEF Probe, notes
  <2>2. Same(rec', Copy(p)) /\ rec' \in Surface
    BY <2>1, SameTyped DEF Same
  <2>3. CASE Ends(p)
    <3>1. JobsTyped' /\ Rests(p) /\ \A q \in Procs \ {p} : job'[q] = job[q]
      BY <2>3, JobEnds DEF Rests
    <3> QED
      BY <2>1, <2>2, <3>1 DEF Shape, Writes, JobsTyped
  <2>4. CASE managed /\ To(p, "recover", "reconcile", rec')
    <3>1. JobsTyped' /\ JobIs(p, "recover", "reconcile", rec', rec'.pid)
      BY <2>2, <2>4, JobGoesTo
    <3> QED
      BY <2>1, <2>2, <2>4, <3>1 DEF Shape, JobIs, Goes, Writes, JobsTyped
  <2>5. CASE job' = [job EXCEPT ![p] = [pc |-> "sync", why |-> "disarm", copy |-> rec', seen |-> 0]]
    <3>1. JobsTyped' /\ JobIs(p, "sync", "disarm", rec', 0)
      BY <2>2, <2>5, JobChanges
    <3> QED
      BY <2>1, <2>2, <2>4, <3>1 DEF Shape, JobIs, Goes, Writes, JobsTyped
  <2> QED
    BY <2>1, <2>3, <2>4, <2>5
<1> QED
  BY <1>1, <1>2, Zenon DEF Reconciling

LEMMA StartupShape ==
  ASSUME TypeInv, Startup
  PROVE  Shape("timer")
<1>0. "timer" \in Procs
  BY DEF Procs
<1> USE AtStep, <1>0
<1>1. /\ At("timer", "plan") /\ job["timer"].why = "startup" /\ UNCHANGED <<rec, minted, invite>>
      /\ \/ Ends("timer")
         \/ Disarm("timer")
         \/ managed /\ Copy("timer").armed /\ To("timer", "recover", "startup", Copy("timer"))
  BY Zenon DEF Startup, notes
<1>2. CASE Ends("timer")
  <2>1. JobsTyped' /\ Rests("timer") /\ \A q \in Procs \ {"timer"} : job'[q] = job[q]
    BY <1>2, JobEnds DEF Rests
  <2> QED
    BY <1>1, <2>1 DEF Shape, OnlyMoves, JobsTyped
<1>3. CASE Disarm("timer")
  <2>1. JobsTyped' /\ JobIs("timer", "sync", "disarm", rec, rec.pid)
    BY <1>3, JobGoesTo DEF Disarm
  <2> QED
    BY <1>1, <2>1 DEF Shape, JobIs, Goes, OnlyMoves, JobsTyped
<1>4. CASE managed /\ Copy("timer").armed /\ To("timer", "recover", "startup", Copy("timer"))
  <2>1. JobsTyped' /\ JobIs("timer", "recover", "startup", Copy("timer"), Copy("timer").pid)
    BY <1>4, JobGoesTo
  <2> QED
    BY <1>1, <1>4, <2>1 DEF Shape, JobIs, New, OnlyMoves, JobsTyped
<1> QED
  BY <1>1, <1>2, <1>3, <1>4

LEMMA ArmingShape ==
  ASSUME TypeInv, NEW p \in Procs, Arming(p)
  PROVE  Shape(p)
<1> USE AtStep
<1>1. CASE Arm(p)
  <2> DEFINE s == [Copy(p) EXCEPT !.armed = TRUE]
             t == [s EXCEPT !.pid = 0]
  <2>0. s \in Surface /\ s.armed /\ s.token = Copy(p).token /\ s.pid = Copy(p).pid
    BY ArmedSurface
  <2>2. /\ At(p, "plan") /\ job[p].why = "arm" /\ UNCHANGED <<rec, minted, invite>>
        /\ \/ Ends(p)
           \/ managed /\ call = None /\ To(p, "start", "arm", s)
           \/ call = None /\ To(p, "handle", "arm", t)
    BY <1>1, Zenon DEF Arm, MayArm, notes
  <2> HIDE DEF s
  <2>1. /\ s \in Surface /\ s.armed /\ s.token = Copy(p).token /\ KnownPid(s, Copy(p))
        /\ t \in Surface /\ t.armed /\ t.token = Copy(p).token /\ KnownPid(t, Copy(p))
    BY <2>0, PidChanged DEF KnownPid
  <2> HIDE DEF t
  <2>3. CASE Ends(p)
    <3>1. JobsTyped' /\ Rests(p) /\ \A q \in Procs \ {p} : job'[q] = job[q]
      BY <2>3, JobEnds DEF Rests
    <3> QED
      BY <2>2, <3>1 DEF Shape, OnlyMoves, JobsTyped
  <2>4. ASSUME NEW r, r \in {s, t}, NEW pc \in {"start", "handle"}, To(p, pc, "arm", r),
               pc = "start" => managed, call = None
        PROVE  Shape(p)
    <3>1. r \in Surface /\ r.armed /\ r.token = Copy(p).token /\ KnownPid(r, Copy(p))
      BY <2>1, <2>4
    <3>2. JobsTyped' /\ JobIs(p, pc, "arm", r, r.pid)
      BY <2>4, <3>1, JobGoesTo
    <3> QED
      BY <2>2, <2>4, <3>1, <3>2 DEF Shape, JobIs, Goes, New, OnlyMoves, JobsTyped
  <2> QED
    BY <2>2, <2>3, <2>4
<1>2. CASE ArmRefused(p)
  <2>1. JobsTyped' /\ Rests(p) /\ \A q \in Procs \ {p} : job'[q] = job[q]
    BY <1>2, JobEnds DEF ArmRefused, Rests
  <2>2. UNCHANGED <<rec, minted, invite>>
    BY <1>2, Zenon DEF ArmRefused, notes
  <2> QED
    BY <2>1, <2>2 DEF Shape, OnlyMoves, JobsTyped
<1>3. CASE ArmMints(p)
  <2> DEFINE s == [Copy(p) EXCEPT !.pid = pidFile]
             r == Mint(s)
  <2>1. s \in Surface /\ s.pid = pidFile
    BY PidChanged
  <2>2. minted + 1 \in 0..MaxTokens
    BY <1>3, BoundsAreNat DEF ArmMints
  <2>3. r \in Surface /\ r.armed /\ r.token = minted + 1 /\ r.pid = pidFile
    BY <2>1, <2>2, MintedSurface
  <2>4. /\ rec' = r /\ To(p, "wait", "arm", r) /\ minted' = minted + 1 /\ UNCHANGED invite
        /\ At(p, "handle") /\ job[p].why = "arm"
    BY <1>3, Zenon DEF ArmMints, notes
  <2> HIDE DEF s, r
  <2>5. JobsTyped' /\ JobIs(p, "wait", "arm", r, r.pid)
    BY <2>3, <2>4, JobGoesTo
  <2> QED
    BY <2>3, <2>4, <2>5 DEF Shape, JobIs, Goes, IsMinted, KnownPid, Mints, JobsTyped
<1>4. ASSUME NEW ready \in BOOLEAN, Armed(p, ready) PROVE Shape(p)
  <2>1. At(p, "wait") /\ job[p].why = "arm" /\ UNCHANGED <<minted, invite>>
    BY <1>4, Zenon DEF Armed, notes
  <2>2. CASE p = "chat"
    <3>1. PICK why \in {"launch", "arm"} : rec' = Probed(rec) /\ To(p, "sent", why, rec')
      BY <1>4, <2>2, Zenon DEF Armed
    <3>2. Same(rec', rec) /\ rec' \in Surface
      BY <3>1, SameTyped DEF Same
    <3>3. JobsTyped' /\ JobIs(p, "sent", why, rec', rec'.pid)
      BY <3>1, <3>2, JobGoesTo
    <3> QED
      BY <2>1, <2>2, <3>2, <3>3 DEF Shape, JobIs, Goes, Rewrites, JobsTyped
  <2>3. CASE p # "chat"
    <3>1. rec' = Probed(Copy(p)) /\ Ends(p)
      BY <1>4, <2>3, Zenon DEF Armed
    <3>2. JobsTyped' /\ Rests(p) /\ \A q \in Procs \ {p} : job'[q] = job[q]
      BY <3>1, JobEnds DEF Rests
    <3> QED
      BY <2>1, <3>1, <3>2, SameTyped DEF Shape, Writes, JobsTyped
  <2> QED
    BY <2>2, <2>3
<1> QED
  BY <1>1, <1>2, <1>3, <1>4, Zenon DEF Arming

LEMMA AskingShape ==
  ASSUME TypeInv, NEW p \in Procs, Asking(p), job[p].why = "launch" => p = "chat"
  PROVE  Shape(p)
<1> USE AtStep
<1>0. ASSUME minted < MaxTokens PROVE minted + 1 \in 0..MaxTokens
  BY <1>0, BoundsAreNat
<1>1. CASE Sent(p)
  <2>1. JobsTyped' /\ Rests(p) /\ \A q \in Procs \ {p} : job'[q] = job[q]
    BY <1>1, JobEnds DEF Sent, Rests
  <2>2. At(p, "sent") /\ rec' = Copy(p) /\ UNCHANGED minted /\ invite' \in {invite, Copy(p).token}
    BY <1>1 DEF Sent
  <2> QED
    BY <2>1, <2>2 DEF Shape, Rewrites, JobsTyped
<1>2. CASE Invite(p)
  <2>1. JobsTyped' /\ Rests(p) /\ \A q \in Procs \ {p} : job'[q] = job[q]
    BY <1>2, JobEnds DEF Invite, Rests
  <2>2. /\ At(p, "plan") /\ job[p].why = "invite" /\ UNCHANGED invite
        /\ \/ UNCHANGED <<rec, minted>>
           \/ /\ Copy(p).armed /\ minted < MaxTokens /\ rec' = Mint(Copy(p))
              /\ minted' = minted + 1
    BY <1>2, Zenon DEF Invite, notes
  <2>3. OnlyMoves(p) \/ Mints(p)
    BY <1>0, <2>1, <2>2, MintedSurface DEF OnlyMoves, Mints, IsMinted, KnownPid
  <2> QED
    BY <2>1, <2>3 DEF Shape, JobsTyped
<1>3. ASSUME NEW ready \in BOOLEAN, Launch(p, ready) PROVE Shape(p)
  <2>1. /\ At(p, "plan") /\ job[p].why = "launch" /\ UNCHANGED invite
        /\ \/ UNCHANGED <<rec, minted>> /\ (Ends(p) \/ To(p, "sync", "arm", rec))
           \/ /\ Copy(p).armed /\ minted < MaxTokens /\ rec' = Mint(Copy(p))
              /\ minted' = minted + 1 /\ To(p, "sent", "launch", rec')
    BY <1>3, Zenon DEF Launch, notes
  <2>2. CASE UNCHANGED <<rec, minted>> /\ Ends(p)
    <3>1. JobsTyped' /\ Rests(p) /\ \A q \in Procs \ {p} : job'[q] = job[q]
      BY <2>2, JobEnds DEF Rests
    <3> QED
      BY <2>1, <2>2, <3>1 DEF Shape, OnlyMoves, JobsTyped
  <2>3. CASE UNCHANGED <<rec, minted>> /\ To(p, "sync", "arm", rec)
    <3>1. JobsTyped' /\ JobIs(p, "sync", "arm", rec, rec.pid)
      BY <2>3, JobGoesTo
    <3> QED
      BY <2>1, <2>3, <3>1 DEF Shape, JobIs, Goes, OnlyMoves, JobsTyped
  <2>4. CASE /\ Copy(p).armed /\ minted < MaxTokens /\ rec' = Mint(Copy(p))
             /\ minted' = minted + 1 /\ To(p, "sent", "launch", rec')
    <3>1. IsMinted(rec', Copy(p))
      BY <1>0, <2>4, MintedSurface DEF IsMinted, KnownPid
    <3>2. JobsTyped' /\ JobIs(p, "sent", "launch", rec', rec'.pid)
      BY <2>4, <3>1, JobGoesTo DEF IsMinted
    <3> QED
      BY <2>1, <2>4, <3>1, <3>2 DEF Shape, JobIs, Goes, Mints, JobsTyped
  <2> QED
    BY <2>1, <2>2, <2>3, <2>4
<1> QED
  BY <1>1, <1>2, <1>3, Zenon DEF Asking

\* Who does what: the chat launches, the chat and bridgectl arm, bridgectl
\* invites; nothing that recovers arms, and a stopped tunnel means a disarming.
RoleOf(p, pc, why) ==
  /\ why = "launch" => p = "chat"
  /\ why = "arm" => p \in {"chat", "ctl"} /\ pc \notin {"recover", "restart"}
  /\ why = "invite" => p = "ctl"
  /\ pc = "sent" => p = "chat"
  /\ pc \in {"stop", "write"} => why = "disarm"
Roles == \A p \in Procs : RoleOf(p, job[p].pc, job[p].why)

LEMMA StepShape ==
  ASSUME TypeInv, Roles, NEW p \in Procs, Step(p)
  PROVE  Shape(p)
<1>1. job[p].why = "launch" => p = "chat"
  BY DEF Roles, RoleOf
<1> QED
  BY <1>1, SyncShape, DisarmingShape, StartingShape, RecoveringShape, ArmingShape, AskingShape,
     ReconcilingShape, StartupShape DEF Step

\* A job begins with the record as its copy.
Begins(p) ==
  /\ job[p] = Rest /\ (Overlap \/ Quiet)
  /\ job' \in [Procs -> Job] /\ (\A q \in Procs \ {p} : job'[q] = job[q])
  /\ Goes(p, job'[p].pc, job'[p].why, rec)
  /\ \/ p = "timer" /\ job'[p].pc = "sync" /\ job'[p].why \in {"reconcile", "disarm"}
     \/ p = "chat" /\ job'[p].pc = "sync" /\ job'[p].why = "launch"
     \/ p = "ctl" /\ job'[p].pc = "sync" /\ job'[p].why \in {"disarm", "invite"}
     \/ p = "ctl" /\ job'[p].pc = "plan" /\ job'[p].why = "arm"
     \/ p = "gateway" /\ job'[p].pc = "stop" /\ job'[p].why = "disarm"

\* The daemon ends: the chat's job is lost, the timer's is the start-up.
Restarted ==
  /\ Overlap \/ \A p \in {"ctl", "gateway"} : job[p] = Rest
  /\ job' \in [Procs -> Job] /\ (\A q \in Procs \ {"timer", "chat"} : job'[q] = job[q])
  /\ job'["chat"] = Rest /\ Goes("timer", "sync", "startup", rec)

\* The gateway changes the record, which stays armed or disarmed as it was.
Serves ==
  /\ Writable /\ UNCHANGED job
  /\ \/ Same(rec', rec)
     \/ /\ CallStarted /\ rec.token = session.token
        /\ rec' \in Surface /\ (rec'.armed <=> rec.armed) /\ rec'.token = 0 /\ rec'.pid = rec.pid

\* What is not a step of a job.
Outside ==
  /\ UNCHANGED <<minted, invite>>
  /\ \/ UNCHANGED <<rec, job>>
     \/ UNCHANGED rec /\ Restarted
     \/ UNCHANGED rec /\ \E p \in Procs : Begins(p)
     \/ Serves

LEMMA BeginIs ==
  ASSUME TypeInv, NEW p \in Procs, NEW pc \in Pcs, NEW why \in Jobs, Begin(p, pc, why)
  PROVE  /\ UNCHANGED <<rec, minted, invite>> /\ job[p] = Rest /\ (Overlap \/ Quiet)
         /\ job' \in [Procs -> Job] /\ (\A q \in Procs \ {p} : job'[q] = job[q])
         /\ Goes(p, pc, why, rec)
<1> USE AtStep
<1>1. JobsTyped' /\ JobIs(p, pc, why, rec, rec.pid)
  BY JobGoesTo DEF Begin
<1> QED
  BY <1>1 DEF Begin, JobIs, Goes, JobsTyped

LEMMA BeginnersShape ==
  ASSUME TypeInv, BeginReconcile \/ Commands \/ GatewayExits \/ Shutdown
  PROVE  Outside
<1>0. /\ {"timer", "chat", "ctl", "gateway"} = Procs /\ {"sync", "plan", "stop"} \subseteq Pcs
      /\ {"reconcile", "disarm", "arm", "launch", "invite"} \subseteq Jobs
  BY DEF Procs, Pcs, Jobs
<1>1. CASE BeginReconcile \/ Shutdown
  <2>1. PICK why \in {"reconcile", "disarm"} : Begin("timer", "sync", why)
    BY <1>1 DEF BeginReconcile, Shutdown
  <2>2. Begins("timer") /\ UNCHANGED <<rec, minted, invite>>
    BY <1>0, <2>1, BeginIs DEF Begins, Goes
  <2> QED
    BY <1>0, <2>2 DEF Outside
<1>2. CASE Commands
  <2>1. PICK p \in {"chat", "ctl"}, pc \in {"sync", "plan"}, why \in {"disarm", "arm", "invite", "launch"} :
          /\ Begin(p, pc, why)
          /\ \/ p = "chat" /\ pc = "sync" /\ why = "launch"
             \/ p = "ctl" /\ pc = "sync" /\ why \in {"disarm", "invite"}
             \/ p = "ctl" /\ pc = "plan" /\ why = "arm"
    BY <1>2 DEF Commands, BeginChat, BeginControl
  <2>2. Begins(p) /\ UNCHANGED <<rec, minted, invite>>
    BY <1>0, <2>1, BeginIs DEF Begins, Goes
  <2> QED
    BY <1>0, <2>2 DEF Outside
<1>3. CASE GatewayExits
  <2>1. UNCHANGED <<rec, minted, invite>> /\ job["gateway"] = Rest /\ (Overlap \/ Quiet)
    BY <1>3 DEF GatewayExits, notes
  <2>2. UNCHANGED job \/ To("gateway", "stop", "disarm", rec)
    BY <1>3, Zenon DEF GatewayExits
  <2>3. CASE To("gateway", "stop", "disarm", rec)
    <3>1. JobsTyped' /\ JobIs("gateway", "stop", "disarm", rec, rec.pid)
      BY <1>0, <2>3, AtStep, JobGoesTo
    <3>2. Begins("gateway")
      BY <2>1, <3>1 DEF Begins, JobIs, Goes, JobsTyped
    <3> QED
      BY <1>0, <2>1, <3>2 DEF Outside
  <2> QED
    BY <2>1, <2>2, <2>3 DEF Outside
<1> QED
  BY <1>1, <1>2, <1>3

LEMMA CrashShape == ASSUME TypeInv, Crash PROVE Outside
<1>1. /\ UNCHANGED <<rec, minted, invite>> /\ {"timer", "chat"} \subseteq Procs
      /\ rec \in Surface /\ "sync" \in Pcs /\ "startup" \in Jobs
      /\ Overlap \/ \A p \in {"ctl", "gateway"} : job[p] = Rest
  BY DEF Crash, notes, TypeInv, Procs, Pcs, Jobs
<1> DEFINE j == [pc |-> "sync", why |-> "startup", copy |-> rec, seen |-> rec.pid]
<1>2. j \in Job /\ j.pc = "sync" /\ j.why = "startup" /\ j.copy = rec
  BY <1>1, SurfaceFields DEF Job
<1>3. job' = [job EXCEPT !["chat"] = Rest, !["timer"] = j]
  BY DEF Crash
<1> HIDE DEF j
<1>4. /\ job' \in [Procs -> Job] /\ job'["chat"] = Rest /\ job'["timer"] = j
      /\ \A q \in Procs \ {"timer", "chat"} : job'[q] = job[q]
  BY <1>1, <1>2, <1>3, RestTyped DEF TypeInv, JobsTyped
<1> QED
  BY <1>1, <1>2, <1>4 DEF Outside, Restarted, Goes

LEMMA CallsShape == ASSUME TypeInv, Calls PROVE Outside
<1>0. rec \in Surface /\ None \in Chats \cup {None}
  BY DEF TypeInv
<1>1. ASSUME NEW t \in Tokens, NEW c \in Chats, Bootstrap(t, c) PROVE Outside
  <2>1. Same(rec', rec)
    BY <1>0, <1>1, ChatChanged DEF Bootstrap, Same, KnownPid
  <2> QED
    BY <1>1, <2>1 DEF Bootstrap, notes, Outside, Serves
<1>2. CASE Prepared \/ Refused \/ Finalized
  BY <1>2 DEF Prepared, Refused, Finalized, notes, Outside
<1>3. Same(rec, rec) /\ \A t : Same(Released(rec, t), rec)
  BY <1>0, ChatChanged DEF Same, KnownPid, Released
<1>4. CASE Cancelled \/ CallEnds
  <2>1. UNCHANGED <<job, minted, invite>> /\ Writable /\ (rec' = rec \/ \E t : rec' = Released(rec, t))
    BY <1>4, Zenon DEF Cancelled, CallEnds, notes
  <2> QED
    BY <1>3, <2>1 DEF Outside, Serves
<1>5. CASE CallStarted
  <2>1. UNCHANGED <<job, minted, invite>> /\ Writable
    BY <1>5 DEF CallStarted, notes
  <2>2. CASE rec.token = session.token
    <3>1. rec' = [rec EXCEPT !.token = 0, !.chat = None]
      BY <1>5, <2>2 DEF CallStarted
    <3>2. rec' \in Surface /\ (rec'.armed <=> rec.armed) /\ rec'.token = 0 /\ rec'.pid = rec.pid
      BY <1>0, <3>1, TokenCleared
    <3> QED
      BY <1>5, <2>1, <2>2, <3>2 DEF Outside, Serves
  <2>3. CASE rec.token # session.token
    BY <1>5, <2>1, <2>3 DEF CallStarted, Outside
  <2> QED
    BY <2>2, <2>3
<1>6. CASE ReservationLapses
  <2>1. Same(rec', rec)
    BY <1>0, <1>6, ChatChanged DEF ReservationLapses, Same, KnownPid
  <2> QED
    BY <1>6, <2>1 DEF ReservationLapses, notes, Outside, Serves
<1> QED
  BY <1>1, <1>2, <1>4, <1>5, <1>6 DEF Calls

LEMMA NextShape ==
  ASSUME TypeInv, Roles, [Next]_vars
  PROVE  Outside \/ \E p \in Procs : Shape(p) /\ Step(p)
<1>1. CASE \/ \E t \in Tokens : TokenLapses(t)
           \/ \E n \in Tunnels : TunnelExits(n)
           \/ CooldownEnds \/ LinkDown \/ LinkUp \/ UNCHANGED vars
  BY <1>1 DEF TokenLapses, TunnelExits, CooldownEnds, LinkDown, LinkUp, vars, notes, Outside
<1> QED
  BY <1>1, StepShape, BeginnersShape, CrashShape, CallsShape DEF Next, Faults

\* Every step keeps the types of the record and of the jobs, and the roles.
LEMMA ShapeTyped ==
  ASSUME TypeInv, NEW p \in Procs, Shape(p)
  PROVE  rec' \in Surface /\ JobsTyped'
<1>1. rec \in Surface /\ Copy(p) \in Surface
  BY AtStep
<1> QED
  BY <1>1 DEF Shape, OnlyMoves, Mints, Writes, Rewrites, Same, IsMinted, JobsTyped

LEMMA ShapeRoles ==
  ASSUME TypeInv, Roles, NEW p \in Procs, Shape(p)
  PROVE  Roles'
<1>1. ASSUME NEW q \in Procs \ {p} PROVE RoleOf(q, job'[q].pc, job'[q].why)
  BY DEF Roles, Shape
<1>2. RoleOf(p, job[p].pc, job[p].why)
  BY DEF Roles
<1>3. RoleOf(p, job'[p].pc, job'[p].why)
  <2>1. CASE Rests(p)
    BY <2>1, RestTyped DEF Rests, RoleOf, None
  <2>2. CASE ~Rests(p) /\ OnlyMoves(p)
    BY <1>2, <2>2 DEF OnlyMoves, Goes, At, RoleOf
  <2>3. CASE ~Rests(p) /\ ~OnlyMoves(p)
    BY <1>2, <2>3 DEF Shape, Mints, Writes, Rewrites, Goes, At, RoleOf
  <2> QED
    BY <2>1, <2>2, <2>3
<1> QED
  BY <1>1, <1>3 DEF Roles

LEMMA OutsideTyped ==
  ASSUME TypeInv, Roles, Outside
  PROVE  rec' \in Surface /\ JobsTyped' /\ Roles'
<1>0. rec \in Surface /\ JobsTyped /\ \A p : RoleOf(p, None, None)
  BY DEF TypeInv, RoleOf, None
<1>1. CASE UNCHANGED <<rec, job>> \/ Serves
  BY <1>0, <1>1 DEF Serves, Same, JobsTyped, Roles
<1>2. CASE UNCHANGED rec /\ Restarted
  <2>1. /\ RoleOf("timer", job'["timer"].pc, job'["timer"].why)
        /\ RoleOf("chat", job'["chat"].pc, job'["chat"].why)
    BY <1>0, <1>2, RestTyped DEF Restarted, Goes, RoleOf
  <2> QED
    BY <1>0, <1>2, <2>1 DEF Restarted, JobsTyped, Roles
<1>3. ASSUME NEW p \in Procs, UNCHANGED rec, Begins(p) PROVE rec' \in Surface /\ JobsTyped' /\ Roles'
  <2>1. RoleOf(p, job'[p].pc, job'[p].why)
    BY <1>3 DEF Begins, RoleOf
  <2> QED
    BY <1>0, <1>3, <2>1 DEF Begins, JobsTyped, Roles
<1> QED
  BY <1>1, <1>2, <1>3 DEF Outside

LEMMA TunnelStaysTyped ==
  ASSUME TypeInv, [Next]_vars
  PROVE  TunnelTyped'
<1> USE BoundsAreNat
<1>0. TunnelTyped /\ Resolved \in 0..MaxTunnels /\ 0 \in 0..MaxTunnels
      /\ \A p \in Procs : job[p].seen \in 0..MaxTunnels
  BY AtStep DEF TypeInv, TunnelTyped, Resolved
<1> USE DEF TunnelTyped
<1>1. CASE UNCHANGED <<managed, tunnel>> \/ CooldownEnds \/ \E n \in Tunnels : TunnelExits(n)
  BY <1>0, <1>1 DEF tunnel, CooldownEnds, TunnelExits
<1>2. ASSUME NEW p \in Procs, Sync(p) PROVE TunnelTyped'
  BY <1>0, <1>2 DEF Sync
<1>3. ASSUME NEW p \in Procs, DisarmStops(p) \/ RecoverStops(p) PROVE TunnelTyped'
  BY <1>0, <1>3 DEF DisarmStops, RecoverStops, StopTunnel
<1>4. ASSUME NEW p \in Procs, StartSpawns(p) PROVE TunnelTyped'
  BY <1>0, <1>4 DEF StartSpawns, Tunnels
<1>5. ASSUME NEW p \in Procs, StartFails(p) PROVE TunnelTyped'
  BY <1>0, <1>5 DEF StartFails, Tunnels
<1>6. ASSUME NEW p \in Procs, WaitSyncs(p) PROVE TunnelTyped'
  BY <1>0, <1>6 DEF WaitSyncs
<1>7. ASSUME NEW p \in Procs, ArmRefused(p) \/ ArmMints(p) PROVE TunnelTyped'
  BY <1>0, <1>7 DEF ArmRefused, ArmMints, StopTunnel
<1>8. ASSUME NEW p \in Procs, NEW ready \in BOOLEAN, Recovered(p, ready) PROVE TunnelTyped'
  <2>1. cooldown' \in BOOLEAN
    BY <1>8, Zenon DEF Recovered
  <2> QED
    BY <1>0, <1>8, <2>1 DEF Recovered
<1> QED
  BY <1>1, <1>2, <1>3, <1>4, <1>5, <1>6, <1>7, <1>8, TunnelMoves

LEMMA GatewayStaysTyped ==
  ASSUME TypeInv, [Next]_vars
  PROVE  GatewayTyped'
<1>0. GatewayTyped /\ NoSession \in Call /\ NoSession.state = None
  BY BoundsAreNat DEF TypeInv, NoSession, Call
<1> USE DEF GatewayTyped
<1>1. CASE UNCHANGED gateway \/ LinkDown \/ LinkUp \/ Refused \/ Cancelled \/ CallEnds \/ Finalized \/ GatewayExits
  BY <1>0, <1>1 DEF gateway, LinkDown, LinkUp, Refused, Cancelled, CallEnds, Finalized, GatewayExits
<1>2. ASSUME NEW st \in {"prepared", "started"}, session' = [session EXCEPT !.state = st]
      PROVE  session' \in Call /\ session.token \in 0..MaxTokens /\ session'.token = session.token
  <2>1. session' \in Call
    BY <1>0, <1>2, Zenon DEF Call
  <2> QED
    BY <1>0, <1>2, <2>1 DEF Call
<1>3. CASE Prepared
  BY <1>0, <1>2, <1>3 DEF Prepared, None
<1>4. CASE CallStarted
  <2>1. session' = [session EXCEPT !.state = "started"] /\ session.state = "prepared"
        /\ spent' = spent \cup {session.token} /\ UNCHANGED <<link, call>>
    BY <1>4 DEF CallStarted
  <2>2. session' \in Call /\ session.token \in 0..MaxTokens
    BY <1>2, <2>1
  <2>3. session.token # 0
    BY <1>0, <2>1 DEF None
  <2> QED
    BY <1>0, <2>1, <2>2, <2>3 DEF Tokens
<1>5. ASSUME NEW t \in Tokens, NEW c \in Chats, Bootstrap(t, c) PROVE GatewayTyped'
  <2>1. session' = [state |-> "asked", token |-> t, bound |-> rec.chat = None] /\ t \in 0..MaxTokens
    BY <1>5, BoundsAreNat DEF Bootstrap, Tokens
  <2>2. session' \in Call
    BY <2>1, Zenon DEF Call
  <2> QED
    BY <1>0, <1>5, <2>1, <2>2 DEF Bootstrap, Tokens
<1> QED
  BY <1>1, <1>3, <1>4, <1>5, GatewayMoves

LEMMA CountsStayTyped ==
  ASSUME TypeInv, [Next]_vars
  PROVE  CountsTyped' /\ off' \in BOOLEAN
<1> USE BoundsAreNat
<1>0. CountsTyped /\ off \in BOOLEAN
  BY DEF TypeInv
<1> USE DEF CountsTyped
<1>1. lapsed' \in 0..MaxTokens
  BY <1>0, LapsedMoves DEF TokenLapses, Tokens
<1>2. invite' \in 0..MaxTokens
  BY <1>0, InviteMoves, AtStep, SurfaceFields DEF Sent
<1>3. minted' \in 0..MaxTokens
  <2>1. ASSUME NEW p \in Procs, RecoveryHandles(p) \/ ArmMints(p) \/ Invite(p)
        PROVE  minted' \in 0..MaxTokens
    <3>1. minted' = minted \/ (minted < MaxTokens /\ minted' = minted + 1)
      BY <2>1, Zenon DEF RecoveryHandles, ArmMints, Invite
    <3> QED
      BY <1>0, <3>1
  <2>2. ASSUME NEW p \in Procs, NEW ready \in BOOLEAN, Launch(p, ready)
        PROVE  minted' \in 0..MaxTokens
    BY <1>0, <2>2 DEF Launch
  <2> QED
    BY <1>0, <2>1, <2>2, MintMoves
<1>4. ops' \in 0..MaxOps
  <2>1. ops' = ops \/ (ops < MaxOps /\ ops' = ops + 1)
    BY OpsMove, Zenon DEF BeginChat, BeginControl
  <2> QED
    BY <1>0, <2>1
<1>5. faults' \in 0..MaxFaults
  <2>1. faults' = faults \/ (faults < MaxFaults /\ faults' = faults + 1)
    BY FaultsMove, Zenon DEF Shutdown, LinkDown, GatewayExits, Crash, TunnelExits, Fault
  <2> QED
    BY <1>0, <2>1
<1>6. opens' \in 0..MaxOpens
  BY <1>0, OpensMove DEF Bootstrap
<1>7. off' \in BOOLEAN
  <2>1. ASSUME NEW p \in Procs, DisarmWrites(p) PROVE off' \in BOOLEAN
    BY <2>1, Zenon DEF DisarmWrites
  <2> QED
    BY <1>0, <2>1, OffMoves, Zenon DEF BeginChat, BeginControl
<1> QED
  BY <1>1, <1>2, <1>3, <1>4, <1>5, <1>6, <1>7

LEMMA StartsTyped == ASSUME Init PROVE TypeInv /\ Roles
<1> USE BoundsAreNat
<1>1. rec \in Surface /\ JobsTyped /\ \A p \in Procs : job[p] = Rest
  BY RestTyped, DisarmedTyped DEF Init, JobsTyped
<1>2. Roles
  BY <1>1, RestTyped DEF Roles, RoleOf, None
<1>3. NoSession \in Call /\ NoSession.state = None
  BY DEF NoSession, Call
<1>4. GatewayTyped
  BY <1>3 DEF Init, GatewayTyped
<1>5. cooldown \in BOOLEAN /\ off \in BOOLEAN
  BY Zenon DEF Init
<1>6. TunnelTyped
  BY <1>5 DEF Init, TunnelTyped
<1>7. CountsTyped
  BY DEF Init, CountsTyped
<1> QED
  BY <1>1, <1>2, <1>4, <1>5, <1>6, <1>7 DEF TypeInv

LEMMA StaysTyped == ASSUME TypeInv, Roles, [Next]_vars PROVE TypeInv' /\ Roles'
<1>1. rec' \in Surface /\ JobsTyped' /\ Roles'
  BY NextShape, OutsideTyped, ShapeTyped, ShapeRoles
<1> QED
  BY <1>1, TunnelStaysTyped, GatewayStaysTyped, CountsStayTyped DEF TypeInv

\* The record, the jobs, the tunnel and the call have their types in every
\* state, whatever the writers do to one another's copies.
THEOREM SurfaceIsTyped == Spec => []TypeOK
<1>1. TypeInv => TypeOK
  BY DEF TypeInv, JobsTyped, TunnelTyped, GatewayTyped, CountsTyped, TypeOK, Job, Call
<1> QED
  BY <1>1, StartsTyped, StaysTyped, PTL DEF Spec

----------------------------------------------------------------------------
(* With one writer at a time, a step is that of the only job there is.     *)

Alone == \A p, q \in Procs : job[p] # Rest /\ job[q] # Rest => p = q

LEMMA Busy == ASSUME NEW p \in Procs, Step(p) PROVE job[p] # Rest /\ UNCHANGED gateway
<1>1. job[p].pc # None
  BY DEF Step, Disarming, Starting, Recovering, Arming, Asking, Reconciling, At, None, Sync,
         DisarmPlans, DisarmStops, DisarmWrites, StartFinds, StartSpawns, UrlAppears, StartFails,
         WaitSyncs, Recover, RecoverStops, RecoveryHandles, Recovered, Arm, ArmRefused, ArmMints,
         Armed, Sent, Invite, Launch, Reconcile, Probe, Startup
<1>2. UNCHANGED gateway
  BY DEF Step, Disarming, Starting, Recovering, Arming, Asking, Reconciling, Sync,
         DisarmPlans, DisarmStops, DisarmWrites, StartFinds, StartSpawns, UrlAppears, StartFails,
         WaitSyncs, Recover, RecoverStops, RecoveryHandles, Recovered, Arm, ArmRefused, ArmMints,
         Armed, Sent, Invite, Launch, Reconcile, Probe, Startup
<1> QED
  BY <1>1, <1>2, RestTyped

LEMMA OthersRest ==
  ASSUME Alone, NEW p \in Procs, job[p] # Rest, NEW q \in Procs \ {p}
  PROVE  job[q] = Rest
BY DEF Alone

LEMMA QuietCopies ==
  ASSUME NEW p \in Procs, job[p] = Rest
  PROVE  /\ job[p].pc = None /\ job[p].why = None /\ ~Copy(p).armed /\ Copy(p).token = 0
         /\ Copy(p).pid = 0
BY RestTyped, DisarmedTyped DEF Copy

LEMMA StaysAlone ==
  ASSUME TypeInv, Roles, ~Overlap, Alone, [Next]_vars
  PROVE  Alone'
<1>1. CASE UNCHANGED job
  BY <1>1 DEF Alone
<1>2. CASE Restarted
  BY <1>2 DEF Restarted, Alone, Procs
<1>3. ASSUME NEW p \in Procs, Begins(p) PROVE Alone'
  BY <1>3 DEF Begins, Quiet, Alone
<1>4. ASSUME NEW p \in Procs, Shape(p), Step(p) PROVE Alone'
  <2>1. \A q \in Procs \ {p} : job'[q] = Rest
    BY <1>4, Busy, OthersRest DEF Shape
  <2> QED
    BY <2>1 DEF Alone
<1> QED
  BY <1>1, <1>2, <1>3, <1>4, NextShape DEF Outside, Serves

----------------------------------------------------------------------------
(* A token that started a call is in no record and in no copy of one.      *)

Unspent(s) == s.token \notin spent /\ s.token <= minted
TokensKept ==
  /\ spent \subseteq 1..minted /\ session.token <= minted
  /\ Unspent(rec) /\ \A p \in Procs : Unspent(Copy(p))

\* A token of the record or of a copy comes from one of them, or is minted.
Comes(t, p) ==
  t \in {0, rec.token, Copy(p).token} \/ (t = minted + 1 /\ minted' = minted + 1)

LEMMA TokensCome ==
  ASSUME TypeInv, NEW p \in Procs, Shape(p)
  PROVE  Comes(rec'.token, p) /\ Comes(New(p).token, p) /\ minted' \in {minted, minted + 1}
<1>1. Rests(p) => New(p).token = 0
  BY RestTyped, DisarmedTyped DEF Rests, New
<1>2. CASE OnlyMoves(p)
  BY <1>1, <1>2 DEF OnlyMoves, Goes, New, Same, Comes
<1>3. CASE Mints(p)
  BY <1>1, <1>3 DEF Mints, Goes, New, IsMinted, Comes
<1>4. CASE Writes(p)
  BY <1>1, <1>4 DEF Writes, Goes, New, Same, Comes
<1>5. CASE Rewrites(p)
  BY <1>1, <1>5 DEF Rewrites, Goes, New, Same, Comes
<1> QED
  BY <1>2, <1>3, <1>4, <1>5 DEF Shape

LEMMA KeepsTokens ==
  ASSUME TypeInv, Roles, ~Overlap, Alone, TokensKept, [Next]_vars
  PROVE  TokensKept'
<1>0. /\ minted \in Nat /\ session.token \in Nat /\ 0 \notin spent
      /\ \A p \in Procs : Copy(p).token \in Nat
      /\ rec.token \in Nat
  BY AtStep, SurfaceFields, BoundsAreNat DEF TypeInv, CountsTyped, GatewayTyped, Call, Tokens
<1>1. ASSUME NEW p \in Procs, Shape(p), Step(p) PROVE TokensKept'
  <2>1. UNCHANGED <<session, spent>>
    BY <1>1, Busy DEF gateway
  <2>2. Comes(rec'.token, p) /\ Comes(New(p).token, p) /\ minted' \in {minted, minted + 1}
    BY <1>1, TokensCome
  <2>3. ASSUME NEW t, Comes(t, p) PROVE t \notin spent /\ t <= minted'
    BY <1>0, <2>2, <2>3 DEF Comes, TokensKept, Unspent
  <2>4. \A q \in Procs \ {p} : Copy(q)' = Copy(q)
    BY <1>1 DEF Shape, Copy
  <2>5. Unspent(rec)' /\ Unspent(Copy(p))'
    BY <2>1, <2>2, <2>3 DEF Unspent, New, Copy
  <2>6. ASSUME NEW q \in Procs \ {p} PROVE Unspent(Copy(q))'
    BY <1>0, <2>1, <2>2, <2>4 DEF TokensKept, Unspent
  <2> QED
    BY <1>0, <2>1, <2>2, <2>5, <2>6 DEF TokensKept
<1>2. CASE Outside
  <2>1. minted' = minted
    BY <1>2 DEF Outside
  <2>2. CASE CallStarted
    <3>1. Quiet /\ job' = job /\ session.token # 0 /\ session'.token = session.token
          /\ spent' = spent \cup {session.token}
          /\ ((rec' = rec /\ rec.token # session.token) \/ rec'.token = 0)
      <4>1. CASE rec.token = session.token
        BY <2>2, <4>1, TokenCleared DEF CallStarted, Writable, TypeInv, GatewayTyped, None, Call
      <4>2. CASE rec.token # session.token
        BY <2>2, <4>2 DEF CallStarted, Writable, TypeInv, GatewayTyped, None, Call
      <4> QED
        BY <4>1, <4>2
    <3>2. Unspent(rec)'
      BY <1>0, <2>1, <3>1 DEF TokensKept, Unspent
    <3>3. ASSUME NEW p \in Procs PROVE Unspent(Copy(p))'
      <4>1. Copy(p).token = 0 /\ Copy(p)' = Copy(p)
        BY <3>1, QuietCopies DEF Quiet, Copy
      <4> QED
        BY <1>0, <2>1, <3>1, <4>1 DEF Unspent
    <3>4. session.token \in 1..minted /\ spent' \subseteq 1..minted
      <4>1. session.token <= minted /\ session.token # 0 /\ spent \subseteq 1..minted
        BY <3>1 DEF TokensKept
      <4>2. session.token \in 1..minted
        BY <1>0, <4>1
      <4> QED
        BY <3>1, <4>1, <4>2
    <3> QED
      BY <2>1, <3>1, <3>2, <3>3, <3>4 DEF TokensKept
  <2>3. CASE ~CallStarted
    <3>1. spent' = spent /\ session'.token <= minted
      <4>1. CASE UNCHANGED gateway
        BY <4>1 DEF gateway, TokensKept
      <4>2. ASSUME NEW t \in Tokens, NEW c \in Chats, Bootstrap(t, c)
            PROVE  spent' = spent /\ session'.token <= minted
        BY <4>2 DEF Bootstrap, Valid, TokensKept, Unspent
      <4>3. CASE Prepared
        BY <4>3 DEF Prepared, TokensKept, TypeInv, GatewayTyped, Call
      <4>4. CASE Refused \/ Cancelled \/ CallEnds \/ Finalized \/ LinkDown \/ LinkUp \/ GatewayExits
        BY <1>0, <4>4 DEF Refused, Cancelled, CallEnds, Finalized, LinkDown, LinkUp,
                          GatewayExits, NoSession, TokensKept
      <4> QED
        BY <2>3, <4>1, <4>2, <4>3, <4>4, GatewayMoves
    <3>2. rec'.token = rec.token
      BY <1>2, <2>3 DEF Outside, Serves, Same
    <3>3. ASSUME NEW p \in Procs PROVE Copy(p)'.token \in {0, rec.token, Copy(p).token}
      <4>1. CASE job'[p] = job[p]
        BY <4>1 DEF Copy
      <4>2. CASE job'[p] = Rest
        BY <4>2, RestTyped, DisarmedTyped DEF Copy
      <4>3. CASE Copy(p)' = rec
        BY <4>3
      <4> QED
        BY <1>2, <4>1, <4>2, <4>3 DEF Outside, Serves, Restarted, Begins, Goes, Copy
    <3> QED
      BY <1>0, <2>1, <3>1, <3>2, <3>3 DEF TokensKept, Unspent
  <2> QED
    BY <2>2, <2>3
<1> QED
  BY <1>1, <1>2, NextShape

----------------------------------------------------------------------------
(* A copy is armed only where the record is, but for a request to arm.     *)

ArmsIt(p) == job[p].why = "arm" /\ job[p].pc \in {"start", "url", "handle"}
CopyIsArmed(p) ==
  /\ job[p].pc \in {"probe", "recover", "restart", "start", "url", "handle", "wait", "sent"}
       => Copy(p).armed
  /\ Copy(p).armed => rec.armed \/ ArmsIt(p)
CopiesArmed == \A p \in Procs : CopyIsArmed(p)

LEMMA RestIsNotArmed == ASSUME NEW p \in Procs, job[p] = Rest PROVE CopyIsArmed(p)
BY QuietCopies DEF CopyIsArmed, None

\* The step that arms a disarmed surface, and the copies after any step.
LEMMA StepsArm ==
  ASSUME TypeInv, Roles, CopiesArmed, NEW p \in Procs, Shape(p)
  PROVE  /\ CopyIsArmed(p)'
         /\ ~rec.armed /\ rec'.armed =>
              p \in {"chat", "ctl"} /\ At(p, "handle") /\ job[p].why = "arm" /\ job'[p] # job[p]
<1>0. CopyIsArmed(p) /\ RoleOf(p, job[p].pc, job[p].why)
  BY DEF CopiesArmed, Roles
<1>1. ASSUME Rests(p) PROVE CopyIsArmed(p)'
  <2>1. job'[p].pc = None /\ ~job'[p].copy.armed
    BY <1>1, RestTyped, DisarmedTyped DEF Rests
  <2> QED
    BY <2>1 DEF CopyIsArmed, Copy, None
<1> USE DEF Goes, New, Same, IsMinted, CopyIsArmed, Copy, ArmsIt, At, RoleOf
<1>2. CASE OnlyMoves(p)
  <2>1. UNCHANGED rec
    BY <1>2 DEF OnlyMoves
  <2>2. CASE ~Rests(p)
    BY <1>0, <1>2, <2>1, <2>2 DEF OnlyMoves
  <2> QED
    BY <1>1, <2>1, <2>2
<1>3. CASE Mints(p)
  <2>1. CASE ~Rests(p)
    BY <1>0, <1>3, <2>1 DEF Mints
  <2>2. CASE Rests(p)
    BY <1>0, <1>1, <1>3, <2>2 DEF Mints
  <2> QED
    BY <2>1, <2>2
<1>4. CASE Writes(p)
  <2>1. rec'.armed => rec.armed
    BY <1>0, <1>4 DEF Writes
  <2>2. CASE ~Rests(p)
    BY <1>0, <1>4, <2>1, <2>2 DEF Writes
  <2> QED
    BY <1>1, <2>1, <2>2
<1>5. CASE Rewrites(p)
  <2>1. rec'.armed => rec.armed
    BY <1>0, <1>5 DEF Rewrites
  <2>2. CASE ~Rests(p)
    BY <1>0, <1>5, <2>1, <2>2 DEF Rewrites
  <2> QED
    BY <1>1, <2>1, <2>2
<1> QED
  BY <1>2, <1>3, <1>4, <1>5 DEF Shape

LEMMA OthersRestOn ==
  ASSUME Alone, NEW p \in Procs, Step(p), Shape(p), NEW q \in Procs \ {p}
  PROVE  job'[q] = Rest /\ job'[q].pc = None /\ ~job'[q].copy.armed
<1>1. job'[q] = Rest
  BY Busy, OthersRest DEF Shape
<1> QED
  BY <1>1, RestTyped, DisarmedTyped

LEMMA KeepsArmed ==
  ASSUME TypeInv, Roles, ~Overlap, Alone, CopiesArmed, [Next]_vars
  PROVE  /\ CopiesArmed'
         /\ ~rec.armed /\ rec'.armed =>
              \E p \in {"chat", "ctl"} : At(p, "handle") /\ job[p].why = "arm" /\ job'[p] # job[p]
<1>1. ASSUME NEW p \in Procs, Shape(p), Step(p)
      PROVE  /\ CopiesArmed'
             /\ ~rec.armed /\ rec'.armed =>
                  \E r \in {"chat", "ctl"} : At(r, "handle") /\ job[r].why = "arm" /\ job'[r] # job[r]
  <2>1. ASSUME NEW q \in Procs \ {p} PROVE CopyIsArmed(q)'
    BY <1>1, OthersRestOn DEF CopyIsArmed, Copy, None
  <2> QED
    BY <1>1, <2>1, StepsArm DEF CopiesArmed
<1>2. CASE Outside
  <2>1. rec'.armed <=> rec.armed
    BY <1>2 DEF Outside, Serves, Same
  <2>2. ASSUME NEW p \in Procs PROVE CopyIsArmed(p)'
    <3>1. CASE job'[p] = job[p]
      BY <2>1, <3>1 DEF CopiesArmed, CopyIsArmed, ArmsIt, Copy
    <3>2. CASE job'[p].pc \in {None, "sync", "plan", "stop"} /\ (Copy(p)'.armed => rec'.armed)
      BY <3>2 DEF CopyIsArmed, None
    <3>3. CASE job'[p] = Rest
      BY <3>3, RestTyped, DisarmedTyped DEF CopyIsArmed, None, Copy
    <3> QED
      BY <1>2, <3>1, <3>2, <3>3 DEF Outside, Serves, Restarted, Begins, Goes, Copy
  <2> QED
    BY <2>1, <2>2 DEF CopiesArmed
<1> QED
  BY <1>1, <1>2, NextShape

ArmInv == TypeInv /\ Roles /\ Alone /\ TokensKept /\ CopiesArmed

LEMMA StartsArmInv == ASSUME Init PROVE ArmInv
<1>1. TypeInv /\ Roles /\ \A p \in Procs : job[p] = Rest
  BY StartsTyped DEF Init
<1>2. Alone /\ CopiesArmed
  BY <1>1, RestIsNotArmed DEF Alone, CopiesArmed
<1>3. TokensKept
  BY <1>1, QuietCopies, DisarmedTyped DEF Init, TokensKept, Unspent, NoSession
<1> QED
  BY <1>1, <1>2, <1>3 DEF ArmInv

LEMMA KeepsArmInv ==
  ASSUME ~Overlap, ArmInv, [Next]_vars
  PROVE  ArmInv'
BY StaysTyped, StaysAlone, KeepsTokens, KeepsArmed DEF ArmInv

LEMMA SurfaceInvariant == ~Overlap => (Spec => []ArmInv)
<1> SUFFICES ASSUME ~Overlap PROVE Spec => []ArmInv
  OBVIOUS
<1> QED
  BY StartsArmInv, KeepsArmInv, PTL DEF Spec

\* A launch token starts at most one call: whatever the daemon, the chat,
\* bridgectl and the gateway do with their copies of the record, one at a
\* time, a token that started a call is never again the surface's.
THEOREM TokensStartOneCall == ~Overlap => (Spec => []TokenSpentOnce)
<1>1. ArmInv => TokenSpentOnce
  BY DEF ArmInv, TokensKept, Unspent, TokenSpentOnce
<1> QED
  BY <1>1, SurfaceInvariant, PTL

\* A disarmed surface is armed by nothing but a request to arm it, and by the
\* step of that request that mints its token: not by the reconciler, by a
\* recovery, or by the copy of a record that has been disarmed since.
THEOREM OnlyRequestsArm == ~Overlap => (Spec => DisarmSticks)
<1> SUFFICES ASSUME ~Overlap PROVE Spec => DisarmSticks
  OBVIOUS
<1>1. ArmInv /\ [Next]_vars =>
        [~rec.armed /\ rec'.armed =>
          \E p \in {"chat", "ctl"} : At(p, "handle") /\ job[p].why = "arm" /\ job'[p] # job[p]]_vars
  BY KeepsArmed DEF ArmInv
<1> QED
  BY <1>1, SurfaceInvariant, PTL DEF Spec, DisarmSticks

----------------------------------------------------------------------------
(* A button of the chat is worth its token until it, or a later one, has    *)
(* started a call; a copy that is being armed has no token yet.             *)

Used == spent \cap (invite..MaxTokens) # {}
Fresh(s) == s.armed => invite = 0 \/ s.token >= invite \/ Used
FreshCopy(p) == Fresh(Copy(p)) \/ ArmsIt(p)
InviteKept == invite <= minted /\ Fresh(rec) /\ \A p \in Procs : FreshCopy(p)

\* What steps of jobs leave of freshness: either nothing was offered, or the
\* offer is the token of the record written.
LEMMA StepsKeepFresh ==
  ASSUME ArmInv, InviteKept, NEW p \in Procs, Shape(p), Step(p)
  PROVE  invite' <= minted' /\ Fresh(rec)' /\ FreshCopy(p)'
<1>0. /\ RoleOf(p, job[p].pc, job[p].why) /\ CopyIsArmed(p) /\ FreshCopy(p) /\ Fresh(rec)
      /\ invite \in Nat /\ minted \in Nat /\ rec.token \in Nat /\ Copy(p).token \in Nat
      /\ MaxTokens \in Nat /\ spent' = spent /\ Copy(p).token <= minted /\ invite <= minted
  BY AtStep, SurfaceFields, BoundsAreNat, Busy
     DEF ArmInv, CopiesArmed, InviteKept, Roles, TypeInv, CountsTyped, gateway, TokensKept, Unspent
<1>1. ASSUME Rests(p) PROVE FreshCopy(p)'
  <2>1. ~job'[p].copy.armed
    BY <1>1, RestTyped, DisarmedTyped DEF Rests
  <2> QED
    BY <2>1 DEF FreshCopy, Fresh, Copy
<1>2. ASSUME UNCHANGED invite PROVE Used' = Used
  BY <1>0, <1>2 DEF Used
<1> HIDE DEF Used
<1> USE DEF Goes, New, Same, IsMinted, FreshCopy, Fresh, Copy, ArmsIt, At, RoleOf
<1>3. CASE OnlyMoves(p)
  <2>1. UNCHANGED <<rec, minted, invite>>
    BY <1>3 DEF OnlyMoves
  <2>2. CASE ~Rests(p)
    BY <1>0, <1>2, <1>3, <2>1, <2>2 DEF OnlyMoves, CopyIsArmed
  <2> QED
    BY <1>0, <1>1, <1>2, <2>1, <2>2
<1>4. CASE Mints(p)
  <2>1. UNCHANGED invite /\ minted' = minted + 1
    BY <1>4 DEF Mints
  <2>2. Fresh(rec)'
    BY <1>0, <1>2, <1>4, <2>1 DEF Mints
  <2>3. CASE ~Rests(p)
    BY <1>0, <1>2, <1>4, <2>1, <2>2, <2>3 DEF Mints
  <2> QED
    BY <1>0, <1>1, <2>1, <2>2, <2>3
<1>5. CASE Writes(p)
  <2>1. UNCHANGED <<minted, invite>> /\ Same(rec', Copy(p)) /\ ~ArmsIt(p)
    BY <1>0, <1>5 DEF Writes
  <2>2. Fresh(rec)'
    BY <1>0, <1>2, <2>1
  <2>3. CASE ~Rests(p)
    BY <1>0, <1>2, <1>5, <2>1, <2>2, <2>3 DEF Writes
  <2> QED
    BY <1>0, <1>1, <2>1, <2>2, <2>3
<1>6. CASE Rewrites(p)
  <2>1. CASE At(p, "sent")
    <3>1. rec' = Copy(p) /\ Rests(p) /\ invite' \in {invite, Copy(p).token} /\ UNCHANGED minted
      BY <1>6, <2>1 DEF Rewrites
    <3>2. Fresh(rec)'
      <4>1. CASE invite' = invite
        BY <1>0, <1>2, <2>1, <3>1, <4>1
      <4>2. CASE invite' = Copy(p).token
        BY <1>0, <3>1, <4>2
      <4> QED
        BY <3>1, <4>1, <4>2
    <3> QED
      BY <1>0, <1>1, <3>1, <3>2
  <2>2. CASE ~At(p, "sent")
    <3>1. UNCHANGED <<minted, invite>>
      BY <1>6, <2>2 DEF Rewrites
    <3>2. Fresh(rec)'
      BY <1>0, <1>2, <1>6, <2>2, <3>1 DEF Rewrites
    <3>3. CASE ~Rests(p)
      BY <1>0, <1>2, <1>6, <2>2, <3>1, <3>2, <3>3 DEF Rewrites
    <3> QED
      BY <1>0, <1>1, <3>1, <3>2, <3>3
  <2> QED
    BY <2>1, <2>2
<1> QED
  BY <1>3, <1>4, <1>5, <1>6 DEF Shape

LEMMA KeepsInvite ==
  ASSUME ~Overlap, ArmInv, InviteKept, [Next]_vars
  PROVE  InviteKept'
<1>1. ASSUME NEW p \in Procs, Shape(p), Step(p) PROVE InviteKept'
  <2>1. ASSUME NEW q \in Procs \ {p} PROVE FreshCopy(q)'
    BY <1>1, OthersRestOn DEF FreshCopy, Fresh, Copy, ArmInv
  <2> QED
    BY <1>1, <2>1, StepsKeepFresh DEF InviteKept
<1>2. CASE Outside
  <2>1. UNCHANGED <<minted, invite>>
    BY <1>2 DEF Outside
  <2>2. spent \subseteq spent'
    BY <1>2, GatewayMoves DEF gateway, Prepared, Refused, Cancelled, CallStarted, CallEnds,
       Finalized, LinkDown, LinkUp, GatewayExits, Bootstrap
  <2>3. Used => Used'
    BY <2>1, <2>2 DEF Used
  <2>4. Fresh(rec)'
    <3>1. CASE rec' = rec \/ Same(rec', rec)
      BY <2>1, <2>3, <3>1 DEF InviteKept, Fresh, Same
    <3>2. CASE CallStarted /\ rec.token = session.token /\ (rec'.armed <=> rec.armed)
      <4>1. rec.token \in spent' /\ rec.token \in 0..MaxTokens /\ invite \in Nat /\ MaxTokens \in Nat
        BY <3>2, SurfaceFields, BoundsAreNat DEF CallStarted, ArmInv, TypeInv, CountsTyped
      <4>2. rec.token >= invite => Used'
        BY <2>1, <4>1 DEF Used
      <4> QED
        BY <2>1, <2>3, <3>2, <4>2 DEF InviteKept, Fresh
    <3> QED
      BY <1>2, <3>1, <3>2 DEF Outside, Serves
  <2>5. ASSUME NEW p \in Procs PROVE FreshCopy(p)'
    <3>1. CASE job'[p] = job[p]
      BY <2>1, <2>3, <3>1 DEF InviteKept, FreshCopy, Fresh, ArmsIt, Copy
    <3>2. CASE Copy(p)' = rec'
      BY <2>4, <3>2 DEF FreshCopy, Fresh
    <3>3. CASE job'[p] = Rest
      BY <3>3, RestTyped, DisarmedTyped DEF FreshCopy, Fresh, Copy
    <3> QED
      BY <1>2, <3>1, <3>2, <3>3 DEF Outside, Serves, Restarted, Begins, Goes, Copy
  <2> QED
    BY <2>1, <2>4, <2>5 DEF InviteKept
<1> QED
  BY <1>1, <1>2, NextShape DEF ArmInv

LEMMA StartsInvite == ASSUME Init PROVE InviteKept
<1>1. invite = 0 /\ minted = 0
  BY DEF Init
<1> QED
  BY <1>1 DEF InviteKept, FreshCopy, Fresh

\* The button in the chat opens the armed surface: its token is the record's,
\* or was replaced by one minted later, as long as none of them has started a
\* call.  No write of an older copy brings an earlier token back.
THEOREM InvitesStayLive == ~Overlap => (Spec => []InviteIsLive)
<1> SUFFICES ASSUME ~Overlap PROVE Spec => []InviteIsLive
  OBVIOUS
<1>1. InviteKept => InviteIsLive
  BY DEF InviteKept, Fresh, Used, InviteIsLive
<1>2. Spec => []ArmInv
  BY SurfaceInvariant
<1>3. Init => InviteKept
  BY StartsInvite
<1>4. ArmInv /\ InviteKept /\ [Next]_vars => InviteKept'
  BY KeepsInvite
<1> QED
  BY <1>1, <1>2, <1>3, <1>4, PTL DEF Spec

----------------------------------------------------------------------------
(* What a job relies on between its steps: only a managed tunnel is         *)
(* recovered or started, what is about to be synced has just been read, and *)
(* no call begins while a disarmed surface is being armed.                  *)

LEMMA ModeStays == ASSUME [Next]_vars PROVE UNCHANGED managed
BY TunnelMoves DEF CooldownEnds, Sync, DisarmStops, StartSpawns, StartFails, WaitSyncs,
   RecoverStops, ArmRefused, ArmMints, Recovered, TunnelExits

PlanKept(p) ==
  /\ job[p].pc \in {"recover", "restart", "start", "url"} => managed
  /\ job[p].pc = "sync" => (Copy(p).armed <=> rec.armed)
  /\ ArmsIt(p) /\ ~rec.armed => call = None
  /\ Copy(p).pid <= started
PlansKept == pidFile <= started /\ rec.pid <= started /\ \A p \in Procs : PlanKept(p)

LEMMA TunnelsGrow ==
  ASSUME TypeInv, PlansKept, [Next]_vars
  PROVE  started <= started' /\ pidFile' <= started' /\ pidFile <= started'
<1>0. started \in Nat /\ pidFile \in Nat /\ pidFile <= started /\ Resolved \in {0, pidFile}
  BY BoundsAreNat DEF TypeInv, TunnelTyped, PlansKept, Resolved
<1>1. \/ started' = started /\ pidFile' \in {0, pidFile}
      \/ started' = started + 1 /\ pidFile' = started + 1
  <2>1. CASE \E p \in Procs : Sync(p) \/ DisarmStops(p) \/ StartFails(p) \/ WaitSyncs(p)
    BY <1>0, <2>1 DEF tunnel, Sync, DisarmStops, StartFails, WaitSyncs, StopTunnel
  <2>2. CASE \E p \in Procs : StartSpawns(p) \/ RecoverStops(p) \/ ArmRefused(p) \/ ArmMints(p)
    BY <1>0, <2>2 DEF tunnel, StartSpawns, RecoverStops, ArmRefused, ArmMints, StopTunnel
  <2>3. CASE \E p \in Procs, ready \in BOOLEAN : Recovered(p, ready)
    BY <1>0, <2>3 DEF tunnel, Recovered, StopTunnel
  <2> QED
    BY <1>0, <2>1, <2>2, <2>3, TunnelMoves DEF tunnel, CooldownEnds, TunnelExits
<1> QED
  BY <1>0, <1>1

LEMMA StepsKeepPlans ==
  ASSUME ArmInv, PlansKept, NEW p \in Procs, Shape(p), Step(p), [Next]_vars
  PROVE  rec'.pid <= started' /\ PlanKept(p)'
<1>0. /\ RoleOf(p, job[p].pc, job[p].why) /\ CopyIsArmed(p) /\ PlanKept(p)
      /\ UNCHANGED <<managed, call>>
  BY Busy, ModeStays DEF ArmInv, CopiesArmed, PlansKept, Roles, gateway
<1>1. ASSUME Rests(p) PROVE PlanKept(p)'
  <2>1. job'[p].pc = None /\ job'[p].copy.pid = 0 /\ started' \in Nat
    BY <1>1, RestTyped, DisarmedTyped, TunnelStaysTyped, BoundsAreNat DEF Rests, ArmInv, TunnelTyped
  <2> QED
    BY <2>1 DEF PlanKept, ArmsIt, Copy, None
<1>2. /\ started \in Nat /\ started' \in Nat /\ started <= started' /\ pidFile <= started'
      /\ rec.pid <= started' /\ Copy(p).pid <= started' /\ 0 <= started'
      /\ \A n : n \in {0, rec.pid, pidFile, Copy(p).pid} => n <= started'
  <2>1. started \in Nat /\ started' \in Nat /\ rec.pid \in Nat /\ Copy(p).pid \in Nat
    BY AtStep, SurfaceFields, TunnelStaysTyped, BoundsAreNat DEF TunnelTyped, ArmInv, TypeInv
  <2> QED
    BY <1>0, <2>1, TunnelsGrow DEF PlansKept, PlanKept, ArmInv
<1> USE DEF Goes, New, Same, IsMinted, KnownPid, Copy, ArmsIt, At, RoleOf
<1>3. CASE OnlyMoves(p)
  <2>1. UNCHANGED rec
    BY <1>3 DEF OnlyMoves
  <2>2. CASE ~Rests(p)
    BY <1>0, <1>2, <1>3, <2>1, <2>2 DEF OnlyMoves, PlanKept
  <2> QED
    BY <1>1, <1>2, <2>1, <2>2
<1>4. CASE Mints(p)
  <2>1. rec'.pid <= started'
    BY <1>2, <1>4 DEF Mints
  <2>2. CASE ~Rests(p)
    BY <1>0, <1>2, <1>4, <2>1, <2>2 DEF Mints, PlanKept
  <2> QED
    BY <1>1, <2>1, <2>2
<1>5. CASE Writes(p)
  <2>1. rec'.pid <= started'
    BY <1>2, <1>5 DEF Writes
  <2>2. CASE ~Rests(p)
    BY <1>0, <1>2, <1>5, <2>1, <2>2 DEF Writes, PlanKept
  <2> QED
    BY <1>1, <2>1, <2>2
<1>6. CASE Rewrites(p)
  <2>1. rec'.pid <= started'
    BY <1>2, <1>6 DEF Rewrites
  <2>2. CASE ~Rests(p)
    BY <1>0, <1>2, <1>6, <2>1, <2>2 DEF Rewrites, PlanKept
  <2> QED
    BY <1>1, <2>1, <2>2
<1> QED
  BY <1>3, <1>4, <1>5, <1>6 DEF Shape

LEMMA KeepsPlans ==
  ASSUME ~Overlap, ArmInv, PlansKept, [Next]_vars
  PROVE  PlansKept'
<1>0. pidFile' <= started' /\ started <= started' /\ started \in Nat /\ started' \in Nat
      /\ rec.pid \in Nat /\ UNCHANGED managed
  BY TunnelsGrow, SurfaceFields, ModeStays, TunnelStaysTyped, BoundsAreNat
     DEF ArmInv, TypeInv, TunnelTyped
<1>1. ASSUME NEW p \in Procs, Shape(p), Step(p) PROVE PlansKept'
  <2>1. ASSUME NEW q \in Procs \ {p} PROVE PlanKept(q)'
    <3>1. job'[q] = Rest
      BY <1>1, OthersRestOn DEF ArmInv
    <3> QED
      BY <1>0, <3>1, RestTyped, DisarmedTyped DEF PlanKept, ArmsIt, Copy, None
  <2> QED
    BY <1>0, <1>1, <2>1, StepsKeepPlans DEF PlansKept
<1>2. CASE Outside
  <2>1. (rec'.armed <=> rec.armed) /\ rec'.pid <= started'
    <3>1. (rec'.armed <=> rec.armed) /\ rec'.pid \in {0, rec.pid, pidFile}
      BY <1>2 DEF Outside, Serves, Same, KnownPid
    <3> QED
      BY <1>0, <3>1, TunnelsGrow DEF PlansKept, ArmInv
  <2>2. ~rec.armed /\ call = None => call' = None
    BY GatewayMoves DEF gateway, Prepared, Refused, Cancelled, CallStarted, CallEnds, Finalized,
       LinkDown, LinkUp, GatewayExits, Bootstrap, None
  <2>3. ASSUME NEW p \in Procs PROVE PlanKept(p)'
    <3>1. CASE job'[p] = job[p]
      <4>1. PlanKept(p) /\ Copy(p).pid \in Nat
        BY AtStep, SurfaceFields DEF PlansKept, ArmInv
      <4> QED
        BY <1>0, <2>1, <2>2, <3>1, <4>1 DEF PlanKept, ArmsIt, Copy
    <3>2. CASE job'[p].pc \in {"sync", "plan", "stop"} /\ Copy(p)' = rec /\ rec' = rec
      BY <2>1, <3>2 DEF PlanKept, ArmsIt
    <3>3. CASE job'[p] = Rest
      BY <1>0, <3>3, RestTyped, DisarmedTyped DEF PlanKept, ArmsIt, Copy, None
    <3> QED
      BY <1>2, <3>1, <3>2, <3>3 DEF Outside, Serves, Restarted, Begins, Goes, Copy
  <2> QED
    BY <1>0, <2>1, <2>3 DEF PlansKept
<1> QED
  BY <1>1, <1>2, NextShape DEF ArmInv

----------------------------------------------------------------------------
(* The tunnel of a disarmed surface: there is none, or the one job under    *)
(* way is going to stop it, or to arm the surface it was started for.       *)

Closing(p) ==
  \/ job[p].why = "startup" /\ job[p].pc \in {"sync", "plan"}
  \/ job[p].why = "disarm" /\ job[p].pc \in {"sync", "plan", "stop"}
  \/ job[p].why = "arm" /\ job[p].pc \in {"url", "handle"}
OwnTunnel(p) ==
  /\ job[p].pc = "url" => job[p].seen = pidFile /\ (job[p].why = "arm" => pidFile # Copy(p).pid)
  /\ job[p].pc = "write" => alive = {}
  /\ job[p].pc = "handle" /\ job[p].why = "arm" /\ ~rec.armed => alive = {} \/ pidFile # Copy(p).pid
TunnelKnown == alive \subseteq {pidFile} /\ (~managed => alive = {})
Covered(p) == rec.armed \/ alive = {} \/ (call = None /\ Closing(p))
TunnelKept ==
  /\ TunnelKnown /\ (\A p \in Procs : OwnTunnel(p))
  /\ rec.armed \/ alive = {} \/ (call = None /\ \E p \in Procs : Closing(p))
SurfaceInv == ArmInv /\ PlansKept /\ TunnelKept

LEMMA RestIsNotClosing ==
  ASSUME NEW p \in Procs, job[p] = Rest
  PROVE  ~Closing(p) /\ OwnTunnel(p)
BY QuietCopies DEF Closing, OwnTunnel, None

\* What a step of p knows of the tunnel and the record.
LEMMA TunnelAtStep ==
  ASSUME SurfaceInv, NEW p \in Procs, Step(p), Shape(p), [Next]_vars
  PROVE  /\ TunnelKnown /\ OwnTunnel(p) /\ Covered(p) /\ UNCHANGED <<call, managed>>
         /\ RoleOf(p, job[p].pc, job[p].why) /\ CopyIsArmed(p) /\ PlanKept(p)
         /\ pidFile <= started /\ started \in Nat /\ job[p].copy.pid \in Nat
         /\ rec.armed => rec'.armed \/ At(p, "write")
<1>1. RoleOf(p, job[p].pc, job[p].why) /\ CopyIsArmed(p) /\ PlanKept(p)
  BY DEF SurfaceInv, ArmInv, CopiesArmed, PlansKept, Roles
<1>2. UNCHANGED <<call, managed>>
  BY Busy, ModeStays DEF gateway
<1>3. \A q \in Procs \ {p} : ~Closing(q)
  BY Busy, OthersRest, RestIsNotClosing DEF SurfaceInv, ArmInv
<1>4. TunnelKnown /\ OwnTunnel(p) /\ Covered(p)
  BY <1>3 DEF SurfaceInv, TunnelKept, Covered
<1>5. ASSUME rec.armed PROVE rec'.armed \/ At(p, "write")
  BY <1>1, <1>5 DEF Shape, OnlyMoves, Mints, Writes, Rewrites, Same, IsMinted, At, CopyIsArmed,
                    PlanKept, ArmsIt
<1> QED
  BY <1>1, <1>2, <1>4, <1>5, AtStep, SurfaceFields, BoundsAreNat
     DEF SurfaceInv, PlansKept, ArmInv, TypeInv, TunnelTyped, Copy

After(p) == OwnTunnel(p)' /\ TunnelKnown' /\ Covered(p)'

\* The steps that leave the tunnel alone and are not of a job that closes it.
LEMMA AfterOthers ==
  ASSUME SurfaceInv, NEW p \in Procs, Step(p), Shape(p), [Next]_vars,
         UNCHANGED <<pidFile, alive>>, ~Closing(p), job'[p].pc \notin {"url", "write"}
  PROVE  After(p)
<1>1. rec.armed \/ alive = {}
  BY TunnelAtStep DEF Covered
<1>2. rec'.armed \/ alive' = {}
  BY <1>1, TunnelAtStep DEF OwnTunnel, At
<1> QED
  BY <1>2, TunnelAtStep DEF After, OwnTunnel, TunnelKnown, Covered

\* Where To and Ends leave the job of p.
LEMMA JobNow ==
  ASSUME TypeInv, NEW p \in Procs
  PROVE  /\ \A pc, why, s, n :
              job' = [job EXCEPT ![p] = [pc |-> pc, why |-> why, copy |-> s, seen |-> n]]
                => job'[p].pc = pc /\ job'[p].why = why /\ Copy(p)' = s
         /\ \A pc, why, s : To(p, pc, why, s) => job'[p].pc = pc /\ job'[p].why = why /\ Copy(p)' = s
         /\ Ends(p) => job'[p].pc = None
         /\ \A pc : job' = [job EXCEPT ![p].pc = pc]
              => /\ job'[p].pc = pc /\ job'[p].why = job[p].why /\ Copy(p)' = Copy(p)
                 /\ job'[p].seen = job[p].seen
         /\ \A n : job' = [job EXCEPT ![p].seen = n]
              => job'[p].pc = job[p].pc /\ job'[p].why = job[p].why /\ Copy(p)' = Copy(p)
<1>1. job \in [Procs -> Job]
  BY AtStep DEF JobsTyped
<1>2. Ends(p) => job'[p].pc = None
  BY <1>1, RestTyped DEF Ends
<1> QED
  BY <1>1, <1>2 DEF To, Job, Copy

LEMMA AfterDisarming ==
  ASSUME SurfaceInv, NEW p \in Procs, Step(p), Shape(p), [Next]_vars, Disarming(p)
  PROVE  After(p)
<1>0. /\ TunnelKnown /\ OwnTunnel(p) /\ Covered(p) /\ UNCHANGED <<call, managed>>
      /\ job[p].pc \in {"stop", "write"} => job[p].why = "disarm"
  BY TunnelAtStep DEF RoleOf
<1>00. TypeInv
  BY DEF SurfaceInv, ArmInv
<1> USE DEF After, OwnTunnel, TunnelKnown, Covered, Closing, At
<1>1. CASE DisarmPlans(p)
  BY <1>0, <1>00, <1>1, JobNow DEF DisarmPlans, tunnel
<1>2. CASE DisarmStops(p)
  <2>1. job'[p].pc = "write"
    BY <1>00, <1>2, JobNow DEF DisarmStops
  <2>2. alive' = {}
    BY <1>0, <1>2 DEF DisarmStops, StopTunnel
  <2> QED
    BY <1>0, <2>1, <2>2
<1>3. CASE DisarmWrites(p)
  <2>1. job'[p].pc = None
    BY <1>00, <1>3, JobNow DEF DisarmWrites
  <2>2. alive' = {}
    BY <1>0, <1>3 DEF DisarmWrites, tunnel
  <2> QED
    BY <1>0, <2>1, <2>2 DEF None
<1> QED
  BY <1>1, <1>2, <1>3 DEF Disarming

LEMMA AfterStarting ==
  ASSUME SurfaceInv, NEW p \in Procs, Step(p), Shape(p), [Next]_vars, Starting(p)
  PROVE  After(p)
<1>0. /\ TunnelKnown /\ OwnTunnel(p) /\ Covered(p) /\ UNCHANGED <<call, managed>>
      /\ job[p].pc \in {"stop", "write"} => job[p].why = "disarm"
      /\ CopyIsArmed(p) /\ PlanKept(p) /\ pidFile <= started /\ started \in Nat
      /\ job[p].copy.pid \in Nat
  BY TunnelAtStep DEF RoleOf
<1>00. TypeInv
  BY DEF SurfaceInv, ArmInv
<1> USE DEF At
<1>1. CASE StartFinds(p)
  <2>1. job'[p].pc = "handle" /\ job[p].pc = "start"
    BY <1>00, <1>1, JobNow DEF StartFinds
  <2> QED
    BY <1>1, <2>1, AfterOthers DEF StartFinds, tunnel, Closing
<1>2. CASE StartSpawns(p)
  <2>1. /\ job[p].pc = "start" /\ job'[p].pc = "url" /\ job'[p].why = job[p].why
        /\ Copy(p)' = Copy(p) /\ job'[p].seen = started + 1 /\ pidFile' = started + 1
        /\ alive' = {started + 1} /\ rec' = rec
    <3>1. /\ job' = [job EXCEPT ![p].pc = "url", ![p].seen = started + 1] /\ job[p].pc = "start"
          /\ pidFile' = started + 1 /\ alive' = {started + 1} /\ rec' = rec
      BY <1>2 DEF StartSpawns
    <3>2. job \in [Procs -> Job]
      BY <1>00, AtStep DEF JobsTyped
    <3> QED
      BY <3>1, <3>2 DEF Job, Copy
  <2>2. managed /\ Copy(p).pid # started + 1
    BY <1>0, <2>1 DEF PlanKept, Copy
  <2>3. rec.armed \/ (call = None /\ job[p].why = "arm")
    BY <1>0, <2>1 DEF CopyIsArmed, PlanKept, ArmsIt
  <2> QED
    BY <1>0, <2>1, <2>2, <2>3 DEF After, OwnTunnel, TunnelKnown, Covered, Closing
<1>3. CASE UrlAppears(p)
  <2>1. /\ job[p].pc = "url" /\ job'[p].pc = "handle" /\ job'[p].why = job[p].why
        /\ Copy(p)' = Copy(p) /\ UNCHANGED <<pidFile, alive, rec>>
    BY <1>00, <1>3, JobNow DEF UrlAppears, tunnel
  <2> QED
    BY <1>0, <2>1 DEF After, OwnTunnel, TunnelKnown, Covered, Closing
<1>4. CASE StartFails(p)
  <2>1. alive' = {}
    BY <1>0, <1>4 DEF StartFails, TunnelKnown, OwnTunnel
  <2>2. job'[p].pc \in {None, "sync"}
    BY <1>00, <1>4, JobNow DEF StartFails
  <2> QED
    BY <1>0, <2>1, <2>2 DEF After, OwnTunnel, TunnelKnown, Covered, None
<1>5. CASE WaitSyncs(p)
  <2>1. /\ job[p].pc = "wait" /\ job'[p].pc = "wait" /\ pidFile' = Resolved /\ alive' = alive
        /\ rec' = [Copy(p) EXCEPT !.pid = Resolved] /\ Resolved \in 0..MaxTunnels
    BY <1>00, <1>5, JobNow, AtStep DEF WaitSyncs, Resolved
  <2>2. rec'.armed
    BY <1>0, <1>00, <2>1, AtStep, PidChanged DEF CopyIsArmed
  <2>3. alive \subseteq {Resolved}
    BY <1>0 DEF TunnelKnown, Resolved
  <2> QED
    BY <1>0, <2>1, <2>2, <2>3 DEF After, OwnTunnel, TunnelKnown, Covered
<1> QED
  BY <1>1, <1>2, <1>3, <1>4, <1>5 DEF Starting

LEMMA AfterSync ==
  ASSUME SurfaceInv, NEW p \in Procs, Step(p), Shape(p), [Next]_vars, Sync(p)
  PROVE  After(p)
<1>0. /\ TunnelKnown /\ OwnTunnel(p) /\ Covered(p) /\ UNCHANGED <<call, managed>>
      /\ job[p].pc = "sync" => (Copy(p).armed <=> rec.armed)
  BY TunnelAtStep DEF PlanKept
<1>00. TypeInv
  BY DEF SurfaceInv, ArmInv
<1>1. /\ job[p].pc = "sync" /\ alive' = alive /\ job'[p].pc = "plan" /\ job'[p].why = job[p].why
      /\ pidFile' \in {pidFile, Resolved}
  <2>1. CASE managed
    BY <1>00, <2>1, JobNow DEF Sync, At
  <2>2. CASE ~managed
    BY <1>00, <2>2, JobNow DEF Sync, At
  <2> QED
    BY <2>1, <2>2
<1>2. alive \subseteq {Resolved}
  BY <1>0 DEF TunnelKnown, Resolved
<1>3. rec.armed => rec'.armed
  BY <1>1, TunnelAtStep DEF At
<1> QED
  BY <1>0, <1>1, <1>2, <1>3 DEF After, OwnTunnel, TunnelKnown, Covered, Closing

LEMMA AfterRecovering ==
  ASSUME SurfaceInv, NEW p \in Procs, Step(p), Shape(p), [Next]_vars, Recovering(p)
  PROVE  After(p)
<1>0. /\ TunnelKnown /\ OwnTunnel(p) /\ Covered(p) /\ UNCHANGED <<call, managed>>
      /\ job[p].pc \in {"recover", "restart"} => managed /\ job[p].why # "arm"
  BY TunnelAtStep DEF RoleOf, PlanKept
<1>00. TypeInv
  BY DEF SurfaceInv, ArmInv
<1> USE DEF At
<1>1. CASE Recover(p)
  <2>1. job[p].pc = "recover" /\ job'[p].pc \in {None, "start", "restart"}
    BY <1>00, <1>1, JobNow, Zenon DEF Recover
  <2> QED
    BY <1>1, <2>1, AfterOthers DEF Recover, tunnel, Closing, None
<1>2. CASE RecoverStops(p)
  <2>1. job[p].pc = "restart" /\ job'[p].pc = "start"
    BY <1>00, <1>2, JobNow DEF RecoverStops
  <2>2. alive' = {}
    BY <1>0, <1>2, <2>1 DEF RecoverStops, StopTunnel, TunnelKnown
  <2> QED
    BY <1>0, <2>1, <2>2 DEF After, OwnTunnel, TunnelKnown, Covered
<1>3. CASE RecoveryHandles(p)
  <2>1. job[p].pc = "handle" /\ job'[p].pc = "wait" /\ job[p].why # "arm"
    BY <1>00, <1>3, JobNow DEF RecoveryHandles
  <2> QED
    BY <1>3, <2>1, AfterOthers DEF RecoveryHandles, tunnel, Closing
<1>4. ASSUME NEW ready \in BOOLEAN, Recovered(p, ready) PROVE After(p)
  <2>1. job[p].pc = "wait" /\ job'[p].pc = None
    BY <1>00, <1>4, JobNow DEF Recovered
  <2> QED
    BY <1>4, <2>1, AfterOthers DEF Recovered, Closing, None
<1> QED
  BY <1>1, <1>2, <1>3, <1>4, Zenon DEF Recovering

LEMMA AfterArming ==
  ASSUME SurfaceInv, NEW p \in Procs, Step(p), Shape(p), [Next]_vars, Arming(p)
  PROVE  After(p)
<1>0. TunnelKnown /\ OwnTunnel(p) /\ Covered(p) /\ UNCHANGED <<call, managed>>
  BY TunnelAtStep
<1>00. TypeInv
  BY DEF SurfaceInv, ArmInv
<1> USE DEF At
<1>1. CASE Arm(p)
  <2>1. job[p].pc = "plan" /\ job[p].why = "arm" /\ job'[p].pc \in {None, "start", "handle"}
    BY <1>00, <1>1, JobNow, Zenon DEF Arm
  <2> QED
    BY <1>1, <2>1, AfterOthers DEF Arm, tunnel, Closing, None
<1>2. CASE ArmRefused(p)
  <2>1. job[p].pc = "handle" /\ job[p].why = "arm" /\ job'[p].pc = None /\ rec' = rec
    BY <1>00, <1>2, JobNow DEF ArmRefused
  <2>2. CASE pidFile # Copy(p).pid
    <3>1. alive' = {}
      BY <1>0, <1>2, <2>2 DEF ArmRefused, StopTunnel, TunnelKnown
    <3> QED
      BY <1>0, <2>1, <3>1 DEF After, OwnTunnel, TunnelKnown, Covered, None
  <2>3. CASE pidFile = Copy(p).pid
    <3>1. UNCHANGED <<alive, pidFile>>
      BY <1>2, <2>3 DEF ArmRefused
    <3>2. rec.armed \/ alive = {}
      BY <1>0, <2>1, <2>3 DEF OwnTunnel
    <3> QED
      BY <1>0, <2>1, <3>1, <3>2 DEF After, OwnTunnel, TunnelKnown, Covered, None
  <2> QED
    BY <2>2, <2>3
<1>3. CASE ArmMints(p)
  <2> DEFINE s == [Copy(p) EXCEPT !.pid = pidFile]
  <2>1. /\ job'[p].pc = "wait" /\ minted < MaxTokens /\ rec' = Mint(s)
        /\ UNCHANGED <<pidFile, alive>>
    BY <1>00, <1>3, JobNow DEF ArmMints
  <2>2. s \in Surface
    BY <1>00, AtStep, PidChanged
  <2> HIDE DEF s
  <2>3. minted + 1 \in 0..MaxTokens
    BY <1>00, <2>1, AtStep, BoundsAreNat
  <2>4. rec'.armed
    BY <2>1, <2>2, <2>3, MintedSurface
  <2> QED
    BY <1>0, <2>1, <2>4 DEF After, OwnTunnel, TunnelKnown, Covered
<1>4. ASSUME NEW ready \in BOOLEAN, Armed(p, ready) PROVE After(p)
  <2>1. job[p].pc = "wait" /\ job'[p].pc \in {None, "sent"}
    BY <1>00, <1>4, JobNow, Zenon DEF Armed
  <2> QED
    BY <1>4, <2>1, AfterOthers DEF Armed, tunnel, Closing, None
<1> QED
  BY <1>1, <1>2, <1>3, <1>4, Zenon DEF Arming

LEMMA AfterAsking ==
  ASSUME SurfaceInv, NEW p \in Procs, Step(p), Shape(p), [Next]_vars, Asking(p)
  PROVE  After(p)
<1>00. TypeInv /\ (At(p, "sent") => ~Closing(p))
  BY DEF SurfaceInv, ArmInv, Closing, At
<1> USE DEF At
<1>1. CASE Sent(p)
  <2>1. job'[p].pc = None
    BY <1>00, <1>1, JobNow DEF Sent
  <2> QED
    BY <1>00, <1>1, <2>1, AfterOthers DEF Sent, tunnel, None
<1>2. CASE Invite(p)
  <2>1. job[p].why = "invite" /\ job'[p].pc = None
    BY <1>00, <1>2, JobNow DEF Invite
  <2> QED
    BY <1>2, <2>1, AfterOthers DEF Invite, tunnel, Closing, None
<1>3. ASSUME NEW ready \in BOOLEAN, Launch(p, ready) PROVE After(p)
  <2>1. job[p].why = "launch" /\ job'[p].pc \in {None, "sync", "sent"}
    BY <1>00, <1>3, JobNow, Zenon DEF Launch
  <2> QED
    BY <1>3, <2>1, AfterOthers DEF Launch, tunnel, Closing, None
<1> QED
  BY <1>1, <1>2, <1>3, Zenon DEF Asking

LEMMA AfterReconciling ==
  ASSUME SurfaceInv, NEW p \in Procs, Step(p), Shape(p), [Next]_vars, Reconciling(p)
  PROVE  After(p)
<1>00. TypeInv
  BY DEF SurfaceInv, ArmInv
<1> USE DEF At
<1>1. CASE Reconcile(p)
  <2>1. job[p].why = "reconcile" /\ job'[p].pc \in {None, "sync", "recover", "probe"}
    BY <1>00, <1>1, JobNow, Zenon DEF Reconcile, Disarm
  <2> QED
    BY <1>1, <2>1, AfterOthers DEF Reconcile, tunnel, Closing, None
<1>2. ASSUME NEW ready \in BOOLEAN, Probe(p, ready) PROVE After(p)
  <2>1. job[p].pc = "probe" /\ job'[p].pc \in {None, "sync", "recover"}
    <3> DEFINE s == Probed(Copy(p))
    <3>1. /\ job[p].pc = "probe"
          /\ \/ Ends(p)
             \/ job' = [job EXCEPT ![p] = [pc |-> "sync", why |-> "disarm", copy |-> s, seen |-> 0]]
             \/ To(p, "recover", "reconcile", s)
      BY <1>2, Zenon DEF Probe
    <3> HIDE DEF s
    <3> QED
      BY <1>00, <3>1, JobNow
  <2> QED
    BY <1>2, <2>1, AfterOthers DEF Probe, tunnel, Closing, None
<1> QED
  BY <1>1, <1>2, Zenon DEF Reconciling

LEMMA AfterStartup ==
  ASSUME SurfaceInv, Step("timer"), Shape("timer"), [Next]_vars, Startup
  PROVE  After("timer")
<1>0. /\ TunnelKnown /\ OwnTunnel("timer") /\ Covered("timer") /\ UNCHANGED <<call, managed>>
      /\ TypeInv /\ "timer" \in Procs
  BY TunnelAtStep DEF SurfaceInv, ArmInv, Procs
<1>1. /\ job["timer"].pc = "plan" /\ job["timer"].why = "startup"
      /\ UNCHANGED <<rec, pidFile, alive>>
      /\ \/ Ends("timer") /\ (call # None \/ Resolved = 0)
         \/ Copy("timer").armed /\ To("timer", "recover", "startup", Copy("timer"))
         \/ Disarm("timer")
  BY Zenon DEF Startup, At, tunnel
<1>2. CASE Ends("timer") /\ (call # None \/ Resolved = 0)
  <2>1. job'["timer"].pc = None
    BY <1>0, <1>2, JobNow
  <2>2. alive = {} \/ rec.armed
    <3>1. CASE call # None
      BY <1>0, <3>1 DEF Covered
    <3>2. CASE Resolved = 0
      BY <1>0, <3>2 DEF TunnelKnown, Resolved, TypeInv, TunnelTyped, Tunnels
    <3> QED
      BY <1>2, <3>1, <3>2
  <2> QED
    BY <1>0, <1>1, <2>1, <2>2 DEF After, OwnTunnel, TunnelKnown, Covered, None
<1>3. CASE Copy("timer").armed /\ To("timer", "recover", "startup", Copy("timer"))
  <2>1. job'["timer"].pc = "recover"
    BY <1>0, <1>3, JobNow
  <2>2. rec.armed
    BY <1>0, <1>1, <1>3, TunnelAtStep DEF CopyIsArmed, ArmsIt
  <2> QED
    BY <1>0, <1>1, <2>1, <2>2 DEF After, OwnTunnel, TunnelKnown, Covered
<1>4. CASE Disarm("timer")
  <2>1. job'["timer"].pc = "sync" /\ job'["timer"].why = "disarm"
    BY <1>0, <1>4, JobNow DEF Disarm
  <2> QED
    BY <1>0, <1>1, <2>1 DEF After, OwnTunnel, TunnelKnown, Covered, Closing
<1> QED
  BY <1>1, <1>2, <1>3, <1>4

LEMMA AfterStep ==
  ASSUME SurfaceInv, NEW p \in Procs, Step(p), Shape(p), [Next]_vars
  PROVE  After(p)
BY AfterDisarming, AfterStarting, AfterSync, AfterRecovering, AfterArming, AfterAsking,
   AfterReconciling, AfterStartup DEF Step

LEMMA KeepsTunnel ==
  ASSUME ~Overlap, SurfaceInv, [Next]_vars
  PROVE  TunnelKept'
<1>1. ASSUME NEW p \in Procs, Shape(p), Step(p) PROVE TunnelKept'
  <2>1. After(p)
    BY <1>1, AfterStep
  <2>2. ASSUME NEW q \in Procs \ {p} PROVE OwnTunnel(q)'
    BY <1>1, OthersRestOn DEF SurfaceInv, ArmInv, OwnTunnel, None
  <2> QED
    BY <2>1, <2>2 DEF After, TunnelKept, Covered
<1>2. CASE Outside /\ ~\E p \in Procs : Step(p)
  <2>1. alive' \subseteq alive /\ UNCHANGED <<pidFile, managed>>
    <3>1. CASE UNCHANGED <<managed, tunnel>> \/ CooldownEnds \/ \E n \in Tunnels : TunnelExits(n)
      BY <3>1 DEF tunnel, CooldownEnds, TunnelExits
    <3> QED
      BY <1>2, <3>1, TunnelMoves DEF Step, Disarming, Starting, Recovering, Arming
  <2>2. rec'.armed <=> rec.armed
    BY <1>2 DEF Outside, Serves, Same
  <2>3. ~rec.armed /\ call = None => call' = None
    BY GatewayMoves DEF gateway, Prepared, Refused, Cancelled, CallStarted, CallEnds, Finalized,
       LinkDown, LinkUp, GatewayExits, Bootstrap, None
  <2>4. ASSUME NEW p \in Procs PROVE OwnTunnel(p)'
    <3>1. CASE job'[p] = job[p]
      BY <2>1, <2>2, <3>1 DEF SurfaceInv, TunnelKept, OwnTunnel, Copy
    <3>2. CASE job'[p].pc \in {"sync", "plan", "stop"}
      BY <3>2 DEF OwnTunnel
    <3>3. CASE job'[p] = Rest
      BY <3>3, RestTyped DEF OwnTunnel, None
    <3> QED
      BY <1>2, <3>1, <3>2, <3>3 DEF Outside, Serves, Restarted, Begins, Goes
  <2>5. ASSUME ~rec.armed, alive # {} PROVE \E p \in Procs : Closing(p)'
    <3>1. PICK p \in Procs : Closing(p)
      BY <2>5 DEF SurfaceInv, TunnelKept
    <3>2. job[p] # Rest
      BY <3>1, RestIsNotClosing
    <3>3. CASE job'[p] = job[p]
      BY <3>1, <3>3 DEF Closing
    <3>4. CASE Restarted
      BY <3>4 DEF Restarted, Goes, Closing, Procs
    <3> QED
      BY <1>2, <3>2, <3>3, <3>4 DEF Outside, Serves, Begins, Quiet
  <2> QED
    BY <2>1, <2>2, <2>3, <2>4, <2>5 DEF SurfaceInv, TunnelKept, TunnelKnown
<1>3. \A p \in Procs : Step(p) => Shape(p)
  BY StepShape DEF SurfaceInv, ArmInv
<1> QED
  BY <1>1, <1>2, <1>3, NextShape DEF SurfaceInv, ArmInv

LEMMA StartsSurface == ASSUME Init PROVE SurfaceInv
<1>1. ArmInv /\ \A p \in Procs : job[p] = Rest
  BY StartsArmInv DEF Init
<1>2. rec.pid = 0 /\ pidFile = 0 /\ started = 0 /\ alive = {}
  BY DisarmedTyped DEF Init
<1>3. PlansKept
  BY <1>1, <1>2, QuietCopies DEF PlansKept, PlanKept, ArmsIt, None
<1>4. TunnelKept
  BY <1>1, <1>2, RestIsNotClosing DEF TunnelKept, TunnelKnown
<1> QED
  BY <1>1, <1>3, <1>4 DEF SurfaceInv

\* A disarmed surface is closed: when no job is under way, no cloudflared
\* process of the bridge carries the Mini App, whatever was started, lost,
\* killed or found again while it was armed.
THEOREM DisarmedIsClosed == ~Overlap => (Spec => []NoTunnelWhenDisarmed)
<1> SUFFICES ASSUME ~Overlap PROVE Spec => []NoTunnelWhenDisarmed
  OBVIOUS
<1>1. SurfaceInv => NoTunnelWhenDisarmed
  BY RestIsNotClosing DEF SurfaceInv, TunnelKept, Quiet, NoTunnelWhenDisarmed
<1>2. SurfaceInv /\ [Next]_vars => SurfaceInv'
  BY KeepsArmInv, KeepsPlans, KeepsTunnel DEF SurfaceInv
<1> QED
  BY <1>1, <1>2, StartsSurface, PTL DEF Spec
=============================================================================
