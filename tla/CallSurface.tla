----------------------------- MODULE CallSurface -----------------------------
(***************************************************************************)
(* The call surface: the record under bridge:call_surface that says        *)
(* whether live calling is armed, which launch token opens the Mini App    *)
(* and which cloudflared process carries it.  The record is read as a      *)
(* whole, changed, and written back as a whole by four writers: the        *)
(* daemon's reconciler (a timer and the disconnection of the gateway), the *)
(* chat commands, bridgectl (a process of its own) and the gateway.  All   *)
(* but the gateway hold their copy across awaits; a step of a job here is  *)
(* the code between two of them.                                           *)
(*                                                                         *)
(* Durations are choices: a token lapses, a cooldown ends, 60 s of warm-up *)
(* or the idle time have passed or not.                                    *)
(***************************************************************************)
EXTENDS Naturals, FiniteSets

CONSTANTS
  Modes,       \* is the tunnel managed (TRUE) or a static public URL (FALSE)?
  Chats,       \* Telegram chat instances the Mini App is opened from
  MaxTokens,   \* bound on launch tokens minted
  MaxTunnels,  \* bound on cloudflared processes started
  MaxOps,      \* bound on commands of the chat and of bridgectl
  MaxFaults,   \* bound on ends of a tunnel, the gateway, the link or the daemon
  MaxOpens,    \* bound on openings of the Mini App
  Overlap      \* may two writers hold copies of the record at a time?

ASSUME SurfaceAssumption ==
  /\ Modes # {} /\ Modes \subseteq BOOLEAN /\ Overlap \in BOOLEAN
  /\ {MaxTokens, MaxTunnels, MaxOps, MaxFaults, MaxOpens} \subseteq Nat

None    == "none"
Tokens  == 1..MaxTokens
Tunnels == 1..MaxTunnels
Procs   == {"timer", "chat", "ctl", "gateway"}
Surface == [armed : BOOLEAN, token : 0..MaxTokens, chat : Chats \cup {None},
            pid : 0..MaxTunnels, failed : BOOLEAN]
Disarmed == [armed |-> FALSE, token |-> 0, chat |-> None, pid |-> 0, failed |-> FALSE]
Pcs  == {None, "sync", "plan", "probe", "recover", "restart", "start", "url", "handle",
         "wait", "sent", "stop", "write"}
Jobs == {None, "reconcile", "missing", "startup", "disarm", "arm", "launch", "invite"}
Rest == [pc |-> None, why |-> None, copy |-> Disarmed, seen |-> 0]

VARIABLES
  managed,  \* getRealtimeTunnelMode: the managed quick tunnel
  rec,      \* durable: bridge:call_surface
  cooldown, \* durable: realtime:managed_tunnel_recovery_cooldown
  pidFile,  \* durable: realtime-tunnel.pid
  alive,    \* the cloudflared processes that run
  job,      \* what each writer does: where, why, its copy, the tunnel it saw
  link,     \* gatewayClient.isConnected
  session,  \* the gateway's call: how far it is, its token and its chat
  call,     \* durable: the active call, none, live, or not yet finalized
  lapsed,   \* the latest token whose time is over: those before it lapsed too
  spent,    \* history: the tokens that started a call
  invite,   \* history: the token of the latest button in the chat
  off,      \* history: disarmed by hand, and no arming asked for since
  minted, started, ops, faults, opens \* bounded by the constants

tunnel  == <<cooldown, pidFile, alive, started>>
gateway == <<link, session, call, spent>>
budget  == <<ops, faults, opens>>
notes   == <<invite, off>>
vars == <<managed, rec, tunnel, job, gateway, lapsed, notes, minted, budget>>

NoSession == [state |-> None, token |-> 0, bound |-> FALSE]

Init ==
  /\ managed \in Modes /\ rec = Disarmed /\ cooldown = FALSE /\ pidFile = 0 /\ alive = {}
  /\ job = [p \in Procs |-> Rest] /\ link = TRUE /\ session = NoSession /\ call = None
  /\ lapsed = 0 /\ spent = {} /\ invite = 0 /\ off = FALSE
  /\ minted = 0 /\ started = 0 /\ ops = 0 /\ faults = 0 /\ opens = 0

Quiet == \A p \in Procs : job[p] = Rest
At(p, pc) == job[p].pc = pc
Copy(p) == job[p].copy
To(p, pc, why, s) == job' = [job EXCEPT ![p] = [pc |-> pc, why |-> why, copy |-> s, seen |-> s.pid]]
Ends(p) == job' = [job EXCEPT ![p] = Rest]
Outstanding(s) == s.token > lapsed
Failed(s) == [s EXCEPT !.failed = TRUE]
Probed(s) == [s EXCEPT !.failed = FALSE]
\* (variant) A number is left out.
MintSkips(s) == [s EXCEPT !.armed = TRUE, !.token = minted + 2, !.chat = None, !.failed = FALSE]

\* mintLaunchToken: whatever the copy was, it is armed afterwards.
Mint(s) == [s EXCEPT !.armed = TRUE, !.token = minted + 1, !.chat = None, !.failed = FALSE]

\* resolveManagedTunnelPid forgets a process that is gone.
Resolved == IF pidFile \in alive THEN pidFile ELSE 0

(***************************************************************************)
(* The beginnings of the jobs.  Each reads the record; unless Overlap      *)
(* allows it, none begins while another holds a copy.                      *)
(***************************************************************************)
Begin(p, pc, why) ==
  /\ job[p] = Rest /\ (Overlap \/ Quiet)
  /\ To(p, pc, why, rec)
  /\ UNCHANGED <<managed, rec, tunnel, gateway, lapsed, invite, minted>>

\* setInterval, and onClose of the gateway's channel.
BeginReconcile == Begin("timer", "sync", "reconcile") /\ UNCHANGED <<off, budget>>

\* /call and /call enable; the poll loop runs once the start-up is over.
BeginChat ==
  /\ ops < MaxOps /\ ops' = ops + 1
  /\ job["timer"].why \notin {"startup", "disarm"}
  /\ Begin("chat", "sync", "launch") /\ off' = FALSE
  /\ UNCHANGED <<faults, opens>>

\* bridgectl call disarm, call arm (which does not look at the tunnel first),
\* and call invite.
BeginControl ==
  /\ ops < MaxOps /\ ops' = ops + 1
  /\ \/ Begin("ctl", "sync", "disarm") /\ UNCHANGED off
     \/ Begin("ctl", "plan", "arm") /\ link /\ call = None /\ off' = FALSE
     \/ Begin("ctl", "sync", "invite") /\ UNCHANGED off
  /\ UNCHANGED <<faults, opens>>

(***************************************************************************)
(* Steps that several jobs share                                           *)
(***************************************************************************)
\* syncManagedTunnelSurface: the record is written back only when the tunnel
\* is not the one of the copy.
Sync(p) ==
  /\ At(p, "sync")
  /\ IF managed
     THEN LET s == [Copy(p) EXCEPT !.pid = Resolved] IN
          /\ pidFile' = Resolved
          /\ rec' = IF s = Copy(p) THEN rec ELSE s
          /\ To(p, "plan", job[p].why, s)
     ELSE /\ To(p, "plan", job[p].why, Copy(p))
          /\ UNCHANGED <<rec, pidFile>>
  /\ UNCHANGED <<managed, cooldown, alive, started, gateway, lapsed, notes, minted, budget>>

\* ensureManagedTunnelStopped
StopTunnel ==
  /\ alive' = IF managed THEN alive \ {pidFile} ELSE alive
  /\ pidFile' = IF managed THEN 0 ELSE pidFile

\* disarmCallSurfaceLifecycle reads the record anew.
Disarm(p) == To(p, "sync", "disarm", rec)

DisarmPlans(p) ==
  /\ At(p, "plan") /\ job[p].why = "disarm"
  /\ To(p, "stop", "disarm", Copy(p))
  /\ UNCHANGED <<managed, rec, tunnel, gateway, lapsed, notes, minted, budget>>

\* (variant) The process is left to end by itself.
DisarmLeavesTunnel(p) ==
  /\ At(p, "stop") /\ To(p, "write", "disarm", Copy(p))
  /\ UNCHANGED <<managed, rec, tunnel, gateway, lapsed, notes, minted, budget>>

DisarmStops(p) ==
  /\ At(p, "stop") /\ StopTunnel
  /\ To(p, "write", "disarm", Copy(p))
  /\ UNCHANGED <<managed, rec, cooldown, started, gateway, lapsed, notes, minted, budget>>

DisarmWrites(p) ==
  /\ At(p, "write")
  /\ rec' = [Disarmed EXCEPT !.failed = Copy(p).failed]
  /\ Ends(p) /\ off' = (p = "ctl" /\ job["chat"] = Rest)
  /\ UNCHANGED <<managed, tunnel, gateway, lapsed, invite, minted, budget>>

\* startManagedQuickTunnel keeps the process it finds; otherwise it kills what
\* else matches and spawns.
StartFinds(p) ==
  /\ At(p, "start") /\ Resolved # 0
  /\ To(p, "handle", job[p].why, Copy(p))
  /\ UNCHANGED <<managed, rec, tunnel, gateway, lapsed, notes, minted, budget>>

StartSpawns(p) ==
  /\ At(p, "start") /\ Resolved = 0 /\ started < MaxTunnels
  /\ alive' = {started + 1} /\ pidFile' = started + 1 /\ started' = started + 1
  /\ job' = [job EXCEPT ![p].pc = "url", ![p].seen = started + 1]
  /\ UNCHANGED <<managed, rec, cooldown, gateway, lapsed, notes, minted, budget>>

UrlAppears(p) ==
  /\ At(p, "url") /\ job[p].seen \in alive
  /\ job' = [job EXCEPT ![p].pc = "handle"]
  /\ UNCHANGED <<managed, rec, tunnel, gateway, lapsed, notes, minted, budget>>

\* No URL: the process is killed, a cooldown set, and the caller's catch runs.
\* The reconciler gives up only a surface whose last probe was such a failure.
GivesUp(p) ==
  \/ job[p].why = "startup"
  \/ job[p].why = "missing" /\ Copy(p).failed
StartFails(p) ==
  /\ \/ At(p, "url")
     \/ At(p, "start") /\ Resolved = 0
  /\ alive' = IF At(p, "url") THEN alive \ {job[p].seen} ELSE {}
  /\ pidFile' = IF pidFile \in alive' THEN pidFile ELSE 0
  /\ cooldown' = TRUE
  /\ rec' = IF job[p].why \in {"missing", "reconcile"} THEN Failed(Copy(p)) ELSE rec
  /\ IF GivesUp(p)
     THEN job' = [job EXCEPT ![p] = [pc |-> "sync", why |-> "disarm", copy |-> rec', seen |-> 0]]
     ELSE Ends(p)
  /\ UNCHANGED <<managed, started, gateway, lapsed, notes, minted, budget>>

\* applyManagedTunnelHandle for a recovery: a new tunnel needs a new token.
Handled(s) ==
  LET t == [s EXCEPT !.pid = pidFile] IN IF pidFile # s.pid THEN Mint(t) ELSE t

RecoveryHandles(p) ==
  /\ At(p, "handle") /\ job[p].why # "arm" /\ (pidFile # Copy(p).pid => minted < MaxTokens)
  /\ To(p, "wait", job[p].why, Handled(Copy(p)))
  /\ minted' = IF pidFile # Copy(p).pid THEN minted + 1 ELSE minted
  /\ UNCHANGED <<managed, rec, tunnel, gateway, lapsed, notes, budget>>

\* waitForPublicCallSurfaceReady syncs a copy of its own while it waits, and
\* writes it when the tunnel is another than it saw last.
WaitSyncs(p) ==
  /\ At(p, "wait") /\ managed /\ Resolved # job[p].seen
  /\ pidFile' = Resolved
  /\ rec' = [Copy(p) EXCEPT !.pid = Resolved]
  /\ job' = [job EXCEPT ![p].seen = Resolved]
  /\ UNCHANGED <<managed, cooldown, alive, started, gateway, lapsed, notes, minted, budget>>

CanBeReached(s) == ~managed \/ s.pid \in alive

(***************************************************************************)
(* reconcileCallSurfaceLifecycle and recoverManagedCallSurface             *)
(***************************************************************************)
Tunnelless(s) == managed /\ s.pid = 0

\* What reconcileCallSurfaceLifecycle does with the copy it synced.
ReconcileRests(s) == call # None \/ ~s.armed

ReconcileDisarms(s) == call = None /\ s.armed /\ ~link

ReconcileRecovers(s) == call = None /\ s.armed /\ link /\ Tunnelless(s)
ReconcileProbes(s) == call = None /\ s.armed /\ link /\ ~Tunnelless(s)

Reconcile(p) ==
  /\ At(p, "plan") /\ job[p].why = "reconcile"
  /\ LET s == Copy(p) IN
     \/ ReconcileRests(s) /\ Ends(p)
     \/ ReconcileDisarms(s) /\ Disarm(p)
     \/ ReconcileRecovers(s) /\ To(p, "recover", "missing", s)
     \/ ReconcileProbes(s) /\ To(p, "probe", "reconcile", s)
  /\ UNCHANGED <<managed, rec, tunnel, gateway, lapsed, notes, minted, budget>>

\* shouldAutoDisarmSurface, once the idle time has passed.
MayBeIdle(s) == ~Outstanding(s)

\* shouldFailClosedArmingSurface, once the warm-up has passed.
NobodyReaches(s, ready) == ~ready /\ Outstanding(s)

\* The probe is noted in the copy that was read before it, and the copy is
\* written.  A surface that is idle with no token outstanding is disarmed; one
\* that nobody reaches while a token waits is recovered, or disarmed.
Probe(p, ready) ==
  /\ At(p, "probe") /\ (ready => CanBeReached(Copy(p)))
  /\ LET s == Probed(Copy(p)) IN
     /\ rec' = s
     /\ \/ Ends(p)
        \/ /\ MayBeIdle(s)
           /\ job' = [job EXCEPT ![p] = [pc |-> "sync", why |-> "disarm", copy |-> s, seen |-> 0]]
        \/ /\ NobodyReaches(s, ready)
           /\ IF managed
              THEN To(p, "recover", "reconcile", s)
              ELSE job' = [job EXCEPT ![p] = [pc |-> "sync", why |-> "disarm", copy |-> s, seen |-> 0]]
  /\ UNCHANGED <<managed, tunnel, gateway, lapsed, notes, minted, budget>>

Recover(p) ==
  /\ At(p, "recover")
  /\ IF cooldown
     THEN rec' = Failed(Copy(p)) /\ Ends(p)
     ELSE /\ To(p, IF job[p].why = "missing" THEN "start" ELSE "restart", job[p].why, Copy(p))
          /\ UNCHANGED rec
  /\ UNCHANGED <<managed, tunnel, gateway, lapsed, notes, minted, budget>>

RecoverStops(p) ==
  /\ At(p, "restart") /\ StopTunnel
  /\ To(p, "start", job[p].why, Copy(p))
  /\ UNCHANGED <<managed, rec, cooldown, started, gateway, lapsed, notes, minted, budget>>

Recovered(p, ready) ==
  /\ At(p, "wait") /\ job[p].why # "arm" /\ (ready => CanBeReached(Copy(p)))
  /\ rec' = Probed(Copy(p)) /\ cooldown' = ~ready
  /\ Ends(p)
  /\ UNCHANGED <<managed, pidFile, alive, started, gateway, lapsed, notes, minted, budget>>

\* recoverCallSurfaceOnStartup
Startup ==
  /\ At("timer", "plan") /\ job["timer"].why = "startup"
  /\ LET s == Copy("timer") IN
     IF call # None \/ (~s.armed /\ Resolved = 0) THEN Ends("timer")
     ELSE IF s.armed /\ managed THEN To("timer", "recover", "startup", s)
     ELSE Disarm("timer")
  /\ UNCHANGED <<managed, rec, tunnel, gateway, lapsed, notes, minted, budget>>

(***************************************************************************)
(* Arming and inviting                                                     *)
(***************************************************************************)
MayArm == link /\ call = None

\* armCallSurfaceFromBridge and armCallSurface, up to the tunnel.
Arm(p) ==
  /\ At(p, "plan") /\ job[p].why = "arm"
  /\ LET s == [Copy(p) EXCEPT !.armed = TRUE] IN
     IF ~MayArm \/ (managed /\ cooldown) THEN Ends(p)
     ELSE IF managed THEN To(p, "start", "arm", s)
     ELSE To(p, "handle", "arm", [s EXCEPT !.pid = 0])
  /\ UNCHANGED <<managed, rec, tunnel, gateway, lapsed, notes, minted, budget>>

\* The conditions are looked at again; a tunnel started for nothing is stopped.
ArmRefused(p) ==
  /\ At(p, "handle") /\ job[p].why = "arm" /\ ~MayArm
  /\ cooldown' = IF managed THEN FALSE ELSE cooldown
  /\ IF pidFile # Copy(p).pid THEN StopTunnel ELSE UNCHANGED <<alive, pidFile>>
  /\ Ends(p)
  /\ UNCHANGED <<managed, rec, started, gateway, lapsed, notes, minted, budget>>

ArmMints(p) ==
  /\ At(p, "handle") /\ job[p].why = "arm" /\ MayArm /\ minted < MaxTokens
  /\ LET s == Mint([Copy(p) EXCEPT !.pid = pidFile]) IN
     rec' = s /\ To(p, "wait", "arm", s)
  /\ minted' = minted + 1 /\ cooldown' = IF managed THEN FALSE ELSE cooldown
  /\ UNCHANGED <<managed, pidFile, alive, started, gateway, lapsed, notes, budget>>

\* bridgectl writes the copy it minted; the daemon reads the record again, and
\* the copy it makes of it is written once more after the reply.
Armed(p, ready) ==
  /\ At(p, "wait") /\ job[p].why = "arm" /\ (ready => CanBeReached(Copy(p)))
  /\ LET s == Probed(IF p = "chat" THEN rec ELSE Copy(p)) IN
     /\ rec' = s
     /\ IF p = "chat" THEN To(p, "sent", IF ready THEN "launch" ELSE "arm", s) ELSE Ends(p)
  /\ UNCHANGED <<managed, tunnel, gateway, lapsed, notes, minted, budget>>

\* /call and /call enable: a surface that is armed and reached gives a fresh
\* token, minted in the copy of before the probe; a disarmed one is armed first,
\* and /call enable arms one again that is not reached.
LaunchBlocked(s) == ~link \/ call # None \/ ~CanBeReached(s)

Launch(p, ready) ==
  /\ At(p, "plan") /\ job[p].why = "launch"
  /\ LET s == Copy(p) IN
     \/ /\ MayArm /\ (~s.armed \/ ~ready \/ ~CanBeReached(s))
        /\ To(p, "sync", "arm", rec) /\ UNCHANGED <<rec, minted>>
     \/ /\ LaunchBlocked(s) \/ (~ready /\ s.armed)
        /\ Ends(p) /\ UNCHANGED <<rec, minted>>
     \/ /\ s.armed /\ ready /\ ~LaunchBlocked(s) /\ minted < MaxTokens
        /\ rec' = Mint(s) /\ minted' = minted + 1 /\ To(p, "sent", "launch", Mint(s))
  /\ UNCHANGED <<managed, tunnel, gateway, lapsed, notes, budget>>

\* The message has been sent; rememberCallSurfaceEvent writes the copy.
Sent(p) ==
  /\ At(p, "sent")
  /\ invite' = IF job[p].why = "launch" THEN Copy(p).token ELSE invite
  /\ rec' = Copy(p)
  /\ Ends(p)
  /\ UNCHANGED <<managed, tunnel, gateway, lapsed, off, minted, budget>>

\* (variant) The token is minted whether or not the surface is armed.
InviteArms(p) ==
  /\ At(p, "plan") /\ job[p].why = "invite"
  /\ Ends(p)
  /\ IF minted < MaxTokens
     THEN rec' = Mint(Copy(p)) /\ minted' = minted + 1
     ELSE UNCHANGED <<rec, minted>>
  /\ UNCHANGED <<managed, tunnel, gateway, lapsed, notes, budget>>

\* bridgectl call invite
Invite(p) ==
  /\ At(p, "plan") /\ job[p].why = "invite"
  /\ Ends(p)
  /\ IF Copy(p).armed /\ minted < MaxTokens
     THEN rec' = Mint(Copy(p)) /\ minted' = minted + 1
     ELSE UNCHANGED <<rec, minted>>
  /\ UNCHANGED <<managed, tunnel, gateway, lapsed, notes, budget>>

(***************************************************************************)
(* The gateway and the call                                                *)
(***************************************************************************)
Valid(t, c) == rec.armed /\ t > lapsed /\ rec.token = t /\ rec.chat \in {None, c}

Released(s, t) == IF s.chat # None /\ s.token \in {0, t} THEN [s EXCEPT !.chat = None] ELSE s

Writable == Overlap \/ Quiet

\* /api/call/bootstrap: the Mini App shows a token it got, from some chat.
Bootstrap(t, c) ==
  /\ opens < MaxOpens /\ opens' = opens + 1
  /\ Writable /\ session.state = None /\ Valid(t, c) /\ job["gateway"] = Rest
  /\ rec' = [rec EXCEPT !.chat = c]
  /\ session' = [state |-> "asked", token |-> t, bound |-> rec.chat = None]
  /\ UNCHANGED <<managed, tunnel, job, link, call, spent, lapsed, notes, minted, ops, faults>>

\* prepareGatewayCall allows the call, or refuses it: a refusal, and a request
\* that times out, leaves the reservation as it is.
Prepared ==
  /\ session.state = "asked" /\ link /\ rec.armed /\ call = None
  /\ session' = [session EXCEPT !.state = "prepared"]
  /\ call' = "live"
  /\ UNCHANGED <<managed, rec, tunnel, job, link, spent, lapsed, notes, minted, budget>>

Refused ==
  /\ session.state = "asked" /\ session' = NoSession
  /\ UNCHANGED <<managed, rec, tunnel, job, link, call, spent, lapsed, notes, minted, budget>>

Cancelled ==
  /\ Writable /\ session.state = "asked" /\ session' = NoSession
  /\ rec' = IF session.bound THEN Released(rec, session.token) ELSE rec
  /\ UNCHANGED <<managed, tunnel, job, link, call, spent, lapsed, notes, minted, budget>>

\* (variant) The token stays for the next call.
CallStartedKeepsToken ==
  /\ Writable /\ session.state = "prepared"
  /\ session' = [session EXCEPT !.state = "started"]
  /\ spent' = spent \cup {session.token}
  /\ UNCHANGED <<managed, rec, tunnel, job, link, call, lapsed, notes, minted, budget>>

\* (variant) Whatever token there is now is used up.
CallStartedClearsAny ==
  /\ Writable /\ session.state = "prepared"
  /\ session' = [session EXCEPT !.state = "started"]
  /\ spent' = spent \cup {session.token}
  /\ rec' = [rec EXCEPT !.token = 0, !.chat = None]
  /\ UNCHANGED <<managed, tunnel, job, link, call, lapsed, notes, minted, budget>>

\* call.started uses the token up.
CallStarted ==
  /\ Writable /\ session.state = "prepared"
  /\ session' = [session EXCEPT !.state = "started"]
  /\ spent' = spent \cup {session.token}
  /\ rec' = IF rec.token = session.token THEN [rec EXCEPT !.token = 0, !.chat = None] ELSE rec
  /\ UNCHANGED <<managed, tunnel, job, link, call, lapsed, notes, minted, budget>>

\* emitTerminalEvent, and the daemon finalizes the call.
CallEnds ==
  /\ Writable /\ session.state \in {"prepared", "started"}
  /\ rec' = IF session.state = "started" THEN rec ELSE Released(rec, session.token)
  /\ session' = NoSession /\ call' = IF call = "live" THEN "ended" ELSE call
  /\ UNCHANGED <<managed, tunnel, job, link, spent, lapsed, notes, minted, budget>>

Finalized ==
  /\ call = "ended" /\ call' = None
  /\ UNCHANGED <<managed, rec, tunnel, job, link, session, spent, lapsed, notes, minted, budget>>

\* The gateway's getCallSurface drops a reservation of 120 s or of a token
\* that lapsed.
ReservationLapses ==
  /\ Writable /\ rec.chat # None /\ job["gateway"] = Rest
  /\ rec' = [rec EXCEPT !.chat = None]
  /\ UNCHANGED <<managed, tunnel, job, gateway, lapsed, notes, minted, budget>>

(***************************************************************************)
(* Time and faults                                                         *)
(***************************************************************************)
TokenLapses(t) ==
  /\ t = rec.token /\ t > lapsed /\ lapsed' = t
  /\ UNCHANGED <<managed, rec, tunnel, job, gateway, notes, minted, budget>>

CooldownEnds ==
  /\ cooldown /\ cooldown' = FALSE
  /\ UNCHANGED <<managed, rec, pidFile, alive, started, job, gateway, lapsed, notes, minted,
                 budget>>

Fault == faults < MaxFaults /\ faults' = faults + 1 /\ UNCHANGED <<ops, opens>>

TunnelExits(n) ==
  /\ Fault /\ n \in alive /\ alive' = alive \ {n}
  /\ UNCHANGED <<managed, rec, cooldown, pidFile, started, job, gateway, lapsed, notes, minted>>

LinkDown ==
  /\ Fault /\ link /\ link' = FALSE
  /\ UNCHANGED <<managed, rec, tunnel, job, session, call, spent, lapsed, notes, minted>>

LinkUp ==
  /\ ~link /\ job["gateway"] = Rest /\ link' = TRUE
  /\ UNCHANGED <<managed, rec, tunnel, job, session, call, spent, lapsed, notes, minted, budget>>

\* teardownCallSurfaceOnGatewayExit; the daemon ends the call it lost.
GatewayExits ==
  /\ Fault /\ job["gateway"] = Rest /\ (Overlap \/ Quiet)
  /\ IF rec.armed \/ (managed /\ rec.pid # 0)
     THEN To("gateway", "stop", "disarm", rec)
     ELSE UNCHANGED job
  /\ link' = FALSE /\ session' = NoSession /\ call' = IF call = "live" THEN "ended" ELSE call
  /\ UNCHANGED <<managed, rec, tunnel, spent, lapsed, notes, minted>>

\* The daemon ends and starts again: killed, or after shutdown disarmed.
Crash ==
  /\ Fault /\ (Overlap \/ \A p \in {"ctl", "gateway"} : job[p] = Rest)
  /\ job' = [job EXCEPT !["chat"] = Rest,
       !["timer"] = [pc |-> "sync", why |-> "startup", copy |-> rec, seen |-> rec.pid]]
  /\ UNCHANGED <<managed, rec, tunnel, gateway, lapsed, notes, minted>>

Shutdown == Fault /\ Begin("timer", "sync", "disarm") /\ UNCHANGED off

(***************************************************************************)
(* The specification                                                       *)
(***************************************************************************)
Disarming(p) == DisarmPlans(p) \/ DisarmStops(p) \/ DisarmWrites(p)
Starting(p) == StartFinds(p) \/ StartSpawns(p) \/ UrlAppears(p) \/ StartFails(p) \/ WaitSyncs(p)
Recovering(p) ==
  \/ Recover(p) \/ RecoverStops(p) \/ RecoveryHandles(p)
  \/ \E ready \in BOOLEAN : Recovered(p, ready)
Arming(p) ==
  \/ Arm(p) \/ ArmRefused(p) \/ ArmMints(p)
  \/ \E ready \in BOOLEAN : Armed(p, ready)
Asking(p) ==
  \/ Sent(p) \/ Invite(p)
  \/ \E ready \in BOOLEAN : Launch(p, ready)
Reconciling(p) == Reconcile(p) \/ \E ready \in BOOLEAN : Probe(p, ready)
Step(p) ==
  \/ Sync(p) \/ Disarming(p) \/ Starting(p) \/ Recovering(p)
  \/ Arming(p) \/ Asking(p) \/ Reconciling(p)
  \/ p = "timer" /\ Startup

Commands == BeginChat \/ BeginControl
Calls ==
  \/ \E t \in Tokens, c \in Chats : Bootstrap(t, c)
  \/ Prepared \/ Refused \/ Cancelled \/ CallStarted \/ CallEnds \/ Finalized
  \/ ReservationLapses
Faults ==
  \/ \E t \in Tokens : TokenLapses(t)
  \/ \E n \in Tunnels : TunnelExits(n)
  \/ CooldownEnds \/ LinkDown \/ LinkUp \/ GatewayExits \/ Crash \/ Shutdown

Next == BeginReconcile \/ Commands \/ Calls \/ Faults \/ \E p \in Procs : Step(p)

Spec == Init /\ [][Next]_vars

(***************************************************************************)
(* Properties                                                              *)
(***************************************************************************)
TypeOK ==
  /\ managed \in Modes /\ rec \in Surface /\ cooldown \in BOOLEAN
  /\ pidFile \in 0..MaxTunnels /\ alive \subseteq Tunnels
  /\ job \in [Procs -> [pc : Pcs, why : Jobs, copy : Surface, seen : 0..MaxTunnels]]
  /\ link \in BOOLEAN /\ call \in {None, "live", "ended"} /\ lapsed \in 0..MaxTokens
  /\ session \in [state : {None, "asked", "prepared", "started"}, token : 0..MaxTokens,
                  bound : BOOLEAN]
  /\ spent \subseteq Tokens /\ invite \in 0..MaxTokens /\ off \in BOOLEAN
  /\ minted \in 0..MaxTokens /\ started \in 0..MaxTunnels
  /\ ops \in 0..MaxOps /\ faults \in 0..MaxFaults /\ opens \in 0..MaxOpens

\* A launch token starts one call: one that did is not the surface's again,
\* whatever is minted, reserved, released, refused or recovered afterwards.
TokenSpentOnce == rec.token \notin spent

\* The token of the latest button in the chat is the one of the armed surface,
\* or was replaced by a later one, until one of them starts a call.
InviteIsLive ==
  rec.armed /\ invite # 0 /\ spent \cap (invite..MaxTokens) = {}
    => rec.token >= invite

\* With nothing under way, a disarmed surface has no cloudflared process: the
\* public address is closed.
NoTunnelWhenDisarmed == Quiet /\ ~rec.armed => alive = {}

\* A disarmed surface is armed by a request to arm it and by nothing else: not
\* by the reconciler, a recovery or a message about something older.
DisarmSticks ==
  [][~rec.armed /\ rec'.armed =>
       \E p \in {"chat", "ctl"} : At(p, "handle") /\ job[p].why = "arm" /\ job'[p] # job[p]]_vars

\* A surface that the operator disarmed stays disarmed until somebody asks to
\* arm it: "run `bridgectl call arm` to mint a fresh invite".
ManualDisarmSticks == off => ~rec.armed

=============================================================================
